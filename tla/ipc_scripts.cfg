CONSTANTS
  Slots = {1, 2}
  MaxReq = 3
  MaxOutstanding = 2
  MaxConn = 2
  MaxReload = 0
  MaxFlips = 1
  SigPipeIgnored = FALSE
  MayExit = TRUE
SPECIFICATION Spec
INVARIANTS
  TakenInOrder
  OwnUnlessRaced
  AckMeansReload
  StatusKnown
  AckOwed
PROPERTIES
  LostOnlyAtCrossing
CHECK_DEADLOCK FALSE
