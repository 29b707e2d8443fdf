SPECIFICATION Spec
CONSTANTS
  Backends <- AllBackends
  MayFail = FALSE
  MayBeInvalid = TRUE
  MaxBatch = 2
  RxCapacity = 2
  MaxSends = 3
  MaxReceives = 0
  MaxStarts = 2
  MaxConfigs = 2
  MaxConnects = 1
INVARIANT StartedMeansConnected
PROPERTY ReportedInTime
CHECK_DEADLOCK FALSE
