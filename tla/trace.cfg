SPECIFICATION Spec
CONSTANTS
  Loggers = {l1, l2}
  Times = {0, 2}
  MaxLines = 2
  MaxSecond = 1
  MaxFiles = 4
  Ticks = {0, 1}
  MaxTicks = 2
  MaxQueue = 1
  MaxCalls = 2
  MaxBus = 1
  Foreign <- MCForeign
INVARIANTS TypeOK PlayedIsDue PlayedIsLogged
PROPERTIES NothingOverwritten PlayedToTheEnd
