SPECIFICATION Spec
CONSTANTS
  XorOf <- MCXor
  DeviceFrames <- MCFrames
  MaxSent = 2
  MaxLosses = 1
  MaxClears = 1
  MaxOpens = 2
INVARIANTS TypeOK HangNeedsFault
PROPERTIES FramedLink WedgedUntilCleared EverythingArrives
\* the link stops when every bound is used up, or readData spins
CHECK_DEADLOCK FALSE
