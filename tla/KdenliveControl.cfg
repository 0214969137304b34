\* Two bindings, a navigation, a jog and seeks; late acks, timeouts and refusals.
SPECIFICATION ControlSpec
CONSTANTS
  nudge = nudge
  trim = trim
  track = track
  jog = jog
  Bindings = {nudge, trim}
  Stepped = {trim}
  FrameBound = {nudge}
  Navs = {track}
  Jogs = {jog}
  Deltas = {1}
  NoSlot = NoSlot
  MaxKeys = 2
  TrimSteps = 3
  Rules = FALSE
  MaxTurns = 3
  MaxGestures = 2
  MaxEpoch = 2
  MaxPos = 1
INVARIANTS
  TypeOK
  HostCanFollow
  SentUnderItsEpoch
  EndedGestureIsWhole
PROPERTY
  KnobNeverStalls
CHECK_DEADLOCK FALSE
