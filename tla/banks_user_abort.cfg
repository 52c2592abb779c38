CONSTANTS
  FiqRegs = {}
  Modes = {"USER", "SVC"}
  PSRs <- McPSRs
  Vectors = {}
  PCs = {64}
  Vals = {1}
  SBitAborts = {"LDM", "STM"}
  MaxUsed = 3
SPECIFICATION Spec
CONSTRAINT FewUsed
PROPERTIES
  ImplementsRegisters
