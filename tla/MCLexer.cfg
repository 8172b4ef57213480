\* Every text of a few characters, against the lexemes it is made of.
CONSTANTS
  Sources <- MCSources
  Keywords <- MCKeywords
SPECIFICATION Spec
CHECK_DEADLOCK FALSE
INVARIANTS
  TypeOK
  LocationsExact
  BytesExact
  TokensExact
PROPERTIES
  Termination
