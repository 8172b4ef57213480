CONSTANTS
  Functions <- DoWhileFunctions
  Values <- MCValues
SPECIFICATION Spec
INVARIANTS
  SameEvents
CHECK_DEADLOCK FALSE
