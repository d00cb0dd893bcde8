SPECIFICATION FairSpec
CONSTANTS
  L1 = L1
  L2 = L2
  Lines <- MCLines
  MaxCommands = 1
  Faults = {}
PROPERTY LastCommandReachesLines
CHECK_DEADLOCK FALSE
