\* Up to three globals and functions, of types made of up to three aggregates.
SPECIFICATION Spec
CONSTANTS
  Programs <- MCPrograms
INVARIANTS
  StructsInOrder
  GlobalsApart
CHECK_DEADLOCK FALSE
