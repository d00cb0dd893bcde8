SPECIFICATION Spec
CONSTANTS
  k1 = k1
  k2 = k2
  Keys <- MCKeys
  Nul = Nul
  Garbage = Garbage
  MaxLength = 3
  MaxLines = 3
  Faults = {"send"}
INVARIANT SendsEnteredKey
CHECK_DEADLOCK FALSE
