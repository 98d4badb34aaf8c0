CONSTANTS
  Server = {a}
  NoServer = none
  Msg = {m}
  BatchMax = 1
  MaxChan = 2
  MaxEpoch = 3
  MaxFaults = 1
  MaxRun = 2
  Channels = {1}
  MaxRunning = 4
  MaxCommands = 3
  FileTroubles = 2
  Nicknames = {x, y}
  NoName = noname
  MaxRequests = 3
  MaxTroubles = 4
  MaxAddress = 3
  MaxRestarts = 2
  MaxAcks = 4
  Ids = 9
  MaxBufferPackets = 3
  MaxPacketLosses = 2
  MaxFrames = 1
  MaxWait = 4
  Usual = 2
  SpeedChangeSteps = 2
  LastCount = 2
  Lengths = {2}
  Frame = 2
  Averages = {0, 3}
  FirstSent = 6
  MaxSent = 6
  Reach = 3
SPECIFICATION AnswersSpec
INVARIANTS NameSettles UserKnows QueueInOrder
PROPERTIES AcceptedIsShown LoadingEnds ConnectingEnds TalkerEnds
CHECK_DEADLOCK FALSE
