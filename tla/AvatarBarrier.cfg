CONSTANTS
  MaxSelection = 2
  Candidates = 1
  MaxTroubles = 1
SPECIFICATION Spec
CHECK_DEADLOCK FALSE
INVARIANT WaitIsBounded
