CONSTANTS
  CmdCap = 1
  PcmCap = 1
  WorkCap = 1
  EventCap = 1
  PreRoll = 1
  ChainCap = 1
  MaxJoins = 1
  MaxSegment = 4
  MaxReads = 0
  MaxToken = 3
  Disturbances <- MCNothing
SPECIFICATION TouchSpec
INVARIANT ReleaseEndsPress
