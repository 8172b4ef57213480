\* Option files and command lines, from the first character to the exit code.
SPECIFICATION Spec
CONSTANTS
  Letters <- MCLetters
  Digits <- MCDigits
  Missing = Missing
  Endless = Endless
  Fatal = Fatal
  Preload <- MCPreload
  Scenarios <- MCScenarios
  Verbs <- MCVerbs
  FILES <- MCFILES
  OUTPUT <- MCOUTPUT
  BACKEND <- MCBACKEND
  DOT <- MCDOT
  TRUTH <- MCTRUTH
  GENERATED <- MCGENERATED
  C <- MCC
  ARM64 <- MCARM64
  AMD64 <- MCAMD64
  LLVM <- MCLLVM
  Main = "Main"
INVARIANTS
  TypeOK
  ReadsExactly
  ExitExact
  MainFound
PROPERTIES
  Termination
CHECK_DEADLOCK FALSE
