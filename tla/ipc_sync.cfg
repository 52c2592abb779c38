CONSTANTS
  Slots = {1}
  MaxReq = 3
  MaxOutstanding = 1
  MaxConn = 1
  MaxReload = 2
  MaxFlips = 3
  SigPipeIgnored = FALSE
  MayExit = FALSE
SPECIFICATION Spec
INVARIANTS
  AckMeansReload
PROPERTIES
  ImplementsRemoteCall
  WaitEnds
