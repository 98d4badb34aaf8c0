CONSTANTS
  Ids = 10
  QueueLen = 3
  Fragments = 2
  Windows <- MCWindows
  Start = 8
  MaxPackets = 4
  MaxParts = 4
  MaxLosses = 1
  MaxCopies = 2
SPECIFICATION FairSpec
INVARIANTS TypeOK InOrder AcknowledgedWasReceived NothingForgotten
CHECK_DEADLOCK FALSE
PROPERTY CommandsArrive
