SPECIFICATION Spec
CONSTANTS
  L1 = L1
  L2 = L2
  Lines <- MCLines
  MaxCommands = 3
  Faults <- MCFaults
INVARIANT SendsOnlyReceived
CHECK_DEADLOCK FALSE
