CONSTANTS
  Bits = {0}
  Radix = 2
  PageBytes = 2
  PageCount = 6
  PagesPerBlock = 2
  Pages = {0, 1, 5}
SPECIFICATION Spec
INVARIANTS
  NandTypeOK
  StoredAsAsked
  ReadAsAsked
