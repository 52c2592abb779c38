CONSTANTS
  Slots = {1}
  MaxReq = 1
  MaxOutstanding = 1
  MaxConn = 2
  MaxReload = 0
  MaxFlips = 1
  SigPipeIgnored = TRUE
  MayExit = FALSE
SPECIFICATION Spec
INVARIANTS
  AckMeansReload
