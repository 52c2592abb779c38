SPECIFICATION Spec
CONSTANTS
  Prog <- MCProg
  Target = 4
  Remapped = 5
  IrqVector = 0
  SwiVector = 2
  AbortVector = 0
  BpAddrs = {4, 5, 7}
  PcValues = {4}
  MAX_BREAKPOINTS = 2
  MaxDepth = 2
INVARIANTS Transparent FailedFetchAborts BreakpointsHold BreakpointsAsKnown
PROPERTIES PlaceKept StepExecutesOne
CHECK_DEADLOCK FALSE
