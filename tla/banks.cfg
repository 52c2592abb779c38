CONSTANTS
  FiqRegs = {8}
  Modes = {"USER", "FIQ", "SVC", "ABORT"}
  PSRs <- McPSRs
  Vectors = {"FIQ", "SWI"}
  PCs = {0}
  Vals = {1}
  SBitAborts = {"LDM", "LDM pc", "STM"}
  MaxUsed = 3
SPECIFICATION Spec
CONSTRAINT FewUsed
INVARIANTS
  BanksTypeOK
PROPERTIES
  BankMatches
  RegistersUnlessAborted
  NoEscalation
