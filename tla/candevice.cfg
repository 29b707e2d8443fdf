SPECIFICATION Spec
CONSTANTS
  Backends <- AllBackends
  MayFail = TRUE
  MayBeInvalid = TRUE
  MaxBatch = 2
  RxCapacity = 2
  MaxSends = 4
  MaxReceives = 1
  MaxStarts = 2
  MaxConfigs = 2
  MaxConnects = 1
INVARIANTS TypeOK InOrder UpdatesCoverQueue ConnectedOnlyWhileStarted
PROPERTY TrueUntilDropped
\* nothing is left to do when every bound is used up
CHECK_DEADLOCK FALSE
