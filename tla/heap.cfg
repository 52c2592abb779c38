CONSTANTS
  Count = 6
  Sizes = {0, 1, 2, 3}
  MaxBlocks = 7
SPECIFICATION Spec
INVARIANTS
  Coalesced
  RefusedOnlyBehindEmpty
PROPERTIES
  FirstFit
  ImplementsHeap
