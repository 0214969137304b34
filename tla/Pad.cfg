\* Chords sharing modifiers, layers, edits, raw sessions; the detent queue at its
\* limits; power cuts between any two writes and one write that does not take;
\* one knob with bounce, missed states, presses and late passes; a session that
\* loses taps, which the snapshots make up for, once.
SPECIFICATION PadSpec
CONSTANTS
  g = g
  t1 = t1
  t2 = t2
  cw = cw
  ccw = ccw
  Ctrl = Ctrl
  Shift = Shift
  GpioKey = g
  GpioLevels = {FALSE, TRUE}
  TmKeys = {t1, t2}
  NoKey = NoKey
  NoEpoch = NoEpoch
  Dirs = {cw, ccw}
  Timeout = 1
  EpochWrap = 2
  SeqWrap = 2
  CountWrap = 1
  MaxTake = 1
  Layers = {0, 1}
  NoLayer = NoLayer
  Mods = {Ctrl, Shift}
  NoAction = NoAction
  Defaults <- ChordMap
  EditActions <- ChordEdits
  QueueRuns = 1
  RunMax = 1
  TapGap = 1
  MaxEdits = 1
  s1 = s1
  s2 = s2
  Places = {s1, s2}
  CellOrder <- TwoSlots
  Bytes <- TwoBits
  ValidActions <- SomeActions
  DefaultMap <- Plain
  StartLayers = {0, 1}
  Crc <- Sum
  Flip <- Inverted
  Good = Good
  Bad = Bad
  Erased = Erased
  Computed = Computed
  MaxFails = 1
  MaxCommands = 3
  DebounceSamples = 3
  AccMax = 1
  Reach = 6
  MaxLog = 2
INVARIANTS
  PadTypeOK
  KeysAreSound
  QueueInOrder
  NoDetentTwice
PROPERTIES
  RawIsRawPad
  FlashIsSafe
  KnobIsTrue
  DetentsRestored
CHECK_DEADLOCK FALSE
