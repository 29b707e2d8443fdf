SPECIFICATION Spec
CONSTANTS
  Backends <- CannelloniOnly
  MayFail = FALSE
  MayBeInvalid = FALSE
  MaxBatch = 1
  RxCapacity = 2
  MaxSends = 3
  MaxReceives = 0
  MaxStarts = 1
  MaxConfigs = 1
  MaxConnects = 0
INVARIANT Truthful
CHECK_DEADLOCK FALSE
