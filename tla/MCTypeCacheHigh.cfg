\* Declarations and address-of expressions on a heap above 4 GB.
SPECIFICATION Spec
CONSTANTS
  Null <- NullAddress
  Builtins <- HighBuiltins
  Heap <- HighHeap
  Counts <- MCCounts
  MaxWraps = 2
INVARIANTS
  TypeAsDeclared
CHECK_DEADLOCK FALSE
