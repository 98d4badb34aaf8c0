CONSTANTS
  MaxSelection = 2
  Candidates = 2
  MaxTroubles = 2
  Channels = {1, 2}
  MaxRunning = 4
  MaxCommands = 3
  FileTroubles = 2
  Keys = {"avatar", "badge"}
  Badges = {"badge"}
  MaxTransfers = 2
  MaxJobs = 3
  MaxGeneration = 2
  Rooms = {c1, c2}
  Peers = {peer}
  Nothing = nothing
  MaxScreens = 3
  MaxMessages = 2
  MaxChanges = 4
  MaxSent = 3
  Freshness = 1
  RttFreshness = 2
  Recovery = 2
  Window = 3
  Levels = 3
SPECIFICATION PartsSpec
CHECK_DEADLOCK FALSE
INVARIANTS TypesOK UnwrapsFind OneMutation SuccessIsTrue SuccessIsWanted WaitIsBoundedElsewhere ListIsFresh RecordsHaveFiles RunningIsWatched TransfersAreOwned SeenIsNotUnread
PROPERTIES NewerWishWins QualityIsObserved
