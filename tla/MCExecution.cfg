CONSTANTS
  Functions <- MCFunctions
  Values <- MCValues
SPECIFICATION Spec
INVARIANTS
  SameEvents
  OnlySwitchesRunOff
  BlocksEnd
CHECK_DEADLOCK FALSE
