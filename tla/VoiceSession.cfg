CONSTANTS
  CmdCap = 1
  PcmCap = 1
  WorkCap = 1
  EventCap = 1
  PreRoll = 1
  ChainCap = 1
  MaxJoins = 1
  MaxSegment = 2
  MaxReads = 2
  MaxToken = 4
  Disturbances <- MCAll
SPECIFICATION SessionSpec
INVARIANTS TypeOK OpenForAReason
PROPERTY ReleaseIsHeard
