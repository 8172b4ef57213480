\* Constants and variables, on three sizes of integers.
SPECIFICATION Spec
CONSTANTS
  Width <- MCWidth
  Programs <- MCPrograms
INVARIANTS
  ConstantsFold
  VariablesInitialised
  InitializersBind
CHECK_DEADLOCK FALSE
