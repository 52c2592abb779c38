CONSTANTS
  GuestLines = {7}
  PpcLines = {30}
  Devices = {1}
  SdhcLines = {7}
  TimerMod = 2
  CtrlData = {}
  Commands = {0, 18, 55}
SPECIFICATION SdSpec
INVARIANTS
  CompletionsPosted
PROPERTIES
  
  ActiveUntilCleared
  ImplementsIrq
  SdhcIrqArrives
