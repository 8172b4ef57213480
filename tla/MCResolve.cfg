\* Both builds, on all the programs; the descent ends and what it settled stays.
SPECIFICATION Spec
CONSTANTS
  A = A  B = B  V = V  W = W  U = U  P = P   int = int
  Names <- MCNames
  Builtin = int
  None = None
  Programs <- MCPrograms
  Builds = {TRUE, FALSE}
INVARIANTS
  TypeOK
  MarksOnStack
  ErrorsExact
  SizesExact
  TypesExact
  CrashesAfterErrors
PROPERTIES
  ResolvedIsFinal
  Termination
CHECK_DEADLOCK FALSE
