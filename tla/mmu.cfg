SPECIFICATION Spec
CONSTANTS
  Va = {0,1,2,3,4,5,6,7}
  Pa = {0,1,2,3,4,5,6,7}
  Size <- MCSize
  Quarter <- MCQuarter
  PidBlock = 4
  Words <- MCWords
  TlbNum = 2
  IcSets = 1
  IcWays = 1
  Controls <- MCControls
  Ttbs = {1}
  Pids = {4}
  InitDacr <- MCInitDacr
  Dacrs <- MCDacrs
  InitMems <- MCMems
  Touched = {0,3}
  StoreWords <- MCStores
  DmaAddrs = {0}
  MaxStores = 1
INVARIANTS TlbInvisible FetchCurrent
