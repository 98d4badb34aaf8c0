CONSTANTS
  Server = {a, b}
  NoServer = none
  Msg = {m, n}
  BatchMax = 1
  MaxChan = 2
  MaxEpoch = 3
  MaxFaults = 1
  MaxRun = 3
  Servers = {a, b}
  Nobody = none
  Clients = {1, 2}
  Persons = {p, q}
  Percents = {50}
  MaxUserTokens = 3
  MaxVisits = 2
  MaxChoices = 1
  MaxJobs = 2
SYMMETRY Identities
SPECIFICATION StoredSpec
INVARIANTS TypeOK IdleMeansSaved RightServer VolumesAreChosen
PROPERTY LedgerKept
CHECK_DEADLOCK FALSE
