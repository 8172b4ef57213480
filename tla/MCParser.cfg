\* One token of lookahead, every text: parser.c against its grammar.
CONSTANTS
  Jobs <- MCJobs
  MaxDepth = 64
SPECIFICATION Spec
CHECK_DEADLOCK FALSE
INVARIANTS
  CursorInside
  NoSilentRound
  AcceptsExactly
  BindingStrength
