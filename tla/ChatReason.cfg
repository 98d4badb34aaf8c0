CONSTANTS
  Server = {a}
  NoServer = none
  Msg = {m}
  BatchMax = 1
  MaxChan = 2
  MaxEpoch = 4
  MaxFaults = 0
  MaxRun = 1
SPECIFICATION Spec
INVARIANT RestartMeansRestart
CHECK_DEADLOCK FALSE
