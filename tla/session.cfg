SPECIFICATION Spec
CONSTANTS
  Configs <- MCConfigs
  PortNames = {"COM1", "COM2"}
  MaxStarts = 3
  NoFile = NoFile
INVARIANTS TypeOK ToldWhatWasLoaded TornFileNeedsUser
\* the program need not be started again
CHECK_DEADLOCK FALSE
