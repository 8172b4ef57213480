\* The calls of the compiler, through the first allocation and one growth.
SPECIFICATION Spec
CONSTANTS
  k1 = k1  k2 = k2  k3 = k3  k4 = k4  k5 = k5
  Keys <- MCKeys
  Args <- MCArgs
  Hash <- MCHash
  Null = Null
  Absent = Absent
  Values = {v1, v2}
  MinCapacity = 4
  MaxCapacity = 8
INVARIANTS
  TypeOK
  FindTerminates
  EveryKeyFound
  LoadBounded
PROPERTIES
  ImplementsMap
CHECK_DEADLOCK FALSE
