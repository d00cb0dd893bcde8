SPECIFICATION FairSpec
CONSTANTS
  L1 = L1
  k = k
  Lines <- MCLines
  Keys <- MCKeys
  Nul = Nul
  Garbage = Garbage
  Junk = Junk
  MaxLength = 1
  MaxLines = 3
  Faults = {"receive", "send"}
INVARIANTS
  LinesShowWhatWasSent
PROPERTIES
  PathSpec
  OperatorAnswered
CHECK_DEADLOCK FALSE
