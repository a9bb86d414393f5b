CONSTANTS
  MemorySize = 6
  MmuTableNum = 5
  MaxAlloc = 3
  Sizes = {1, 2, 3, 4}
SPECIFICATION Spec
INVARIANTS TypeOK Disjoint ContentIntact GapAccounting
PROPERTIES ImplementsAbstract
