CONSTANTS
  Selections = {"plain", "model"}
  Delay <- MCDelay
  WorkLen = 2
  ResultLen = 2
  RecentLen = 4
  Warm = 2
  CatchUp = 2
  Kept = 3
  Rounds = 2
  MaxBlocks = 4
  MaxTroubles = 2
SPECIFICATION SwitchSpec
CHECK_DEADLOCK FALSE
INVARIANT NothingMissing
