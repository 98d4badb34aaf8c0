CONSTANTS
  CmdCap = 1
  PcmCap = 1
  WorkCap = 1
  EventCap = 1
  PreRoll = 1
  ChainCap = 1
  MaxJoins = 1
  MaxSegment = 1
  MaxReads = 2
  MaxToken = 2
  Disturbances <- MCTouch
  Selections = {"plain", "model"}
  Delay <- MCDelay
  WorkLen = 2
  ResultLen = 2
  RecentLen = 4
  Warm = 2
  CatchUp = 2
  Kept = 3
  Rounds = 2
  MaxBlocks = 4
  MaxTroubles = 2
  Callbacks = {c1, c2}
  Frame = 2
  Capacity = 8
  Sizes = {3}
  CueLength = 1
  MaxEvents = 5
SYMMETRY MCCallbacks
SPECIFICATION AudioSpec
INVARIANTS NoStaleSound OnlyThisTouch HeardInOrder RestIsSwitched HeardIsWhole ResumedIsFresh RestIsFilled
CHECK_DEADLOCK FALSE
