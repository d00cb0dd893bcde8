SPECIFICATION Spec
CONSTANTS
  L1 = L1
  k = k
  Lines <- MCLines
  Keys <- MCKeys
  Nul = Nul
  Garbage = Garbage
  Junk = Junk
  MaxLength = 1
  MaxLines = 3
  Faults = {}
INVARIANT RepliesNameTheController
CHECK_DEADLOCK FALSE
