\* Declarations and address-of expressions on a heap below 4 GB.
SPECIFICATION Spec
CONSTANTS
  Null <- NullAddress
  Builtins <- LowBuiltins
  Heap <- LowHeap
  Counts <- MCCounts
  MaxWraps = 2
INVARIANTS
  TypeOK
  TypeAsDeclared
  OneTypePerDeclaration
CHECK_DEADLOCK FALSE
