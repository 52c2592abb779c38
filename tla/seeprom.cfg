CONSTANTS
  AddrBits = 2
  HalfBits = 1
SPECIFICATION Spec
INVARIANTS
  SeepromTypeOK
  StoredAsHeard
  ShownAsStored
