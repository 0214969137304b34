\* An automatic mode ends a gesture of the old epoch under the new one.
SPECIFICATION ControlSpec
CONSTANTS
  nudge = nudge
  trim = trim
  track = track
  jog = jog
  Bindings = {nudge}
  Stepped = {}
  FrameBound = {}
  Navs = {}
  Jogs = {jog}
  Deltas = {1}
  NoSlot = NoSlot
  MaxKeys = 2
  TrimSteps = 3
  Rules = TRUE
  MaxTurns = 4
  MaxGestures = 2
  MaxEpoch = 2
  MaxPos = 0
INVARIANT
  SentUnderItsEpoch
CHECK_DEADLOCK FALSE
