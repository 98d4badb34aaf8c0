CONSTANTS
  Channels = {1}
  MaxRunning = 4
  MaxCommands = 4
  FileTroubles = 1
SPECIFICATION FilesSpec
CHECK_DEADLOCK FALSE
INVARIANT ShownFileExists
