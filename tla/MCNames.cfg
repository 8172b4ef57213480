\* Functions of two names and a global.
SPECIFICATION Spec
CONSTANTS
  Programs <- MCPrograms
  Statements <- MCStatements
  Globals <- MCGlobals
INVARIANTS
  SameBinding
CHECK_DEADLOCK FALSE
