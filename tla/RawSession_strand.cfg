\* A DOWN read outside any session is forgotten by the next snapshot.
SPECIFICATION Spec
CONSTANTS
  GpioKey = g
  GpioLevels = {FALSE, TRUE}
  TmKeys = {t1}
  NoKey = NoKey
  Dirs = {}
  Timeout = 2
  EpochWrap = 3
  SeqWrap = 2
  CountWrap = 8
  MaxTake = 3
  NoEpoch = NoEpoch
  ChanCap = 2
  MaxLoss = 0
  MaxTurned = 0
  MaxRestarts = 0
INVARIANT
  EngineDownIsTracked
CHECK_DEADLOCK FALSE
