CONSTANTS
  GuestLines = {0, 1, 7, 31}
  PpcLines = {30}
  Devices = {1}
  SdhcLines = {7}
  TimerMod = 2
  CtrlData <- McCtrlData
SPECIFICATION Spec
INVARIANTS
  IrqTypeOK
  MailboxCoherent
  LineAgrees
PROPERTIES
  NoLostFlag
