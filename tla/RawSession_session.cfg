\* One key: stalls, expired heartbeats, two losses, a restart.
SPECIFICATION FairSpec
CONSTANTS
  GpioKey = g
  GpioLevels = {FALSE, TRUE}
  TmKeys = {}
  NoKey = NoKey
  Dirs = {}
  Timeout = 2
  EpochWrap = 2
  SeqWrap = 2
  CountWrap = 8
  MaxTake = 3
  NoEpoch = NoEpoch
  ChanCap = 2
  MaxLoss = 2
  MaxTurned = 0
  MaxRestarts = 1
INVARIANTS
  TypeOK
  RawHeldIsDown
  AnswersRestoreHeld
  NoSelfRefusal
PROPERTY
  OnlyUnfollowedReportsStrand
  ReleasedKeyComesUp
CHECK_DEADLOCK FALSE
