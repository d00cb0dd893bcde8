SPECIFICATION FairSpec
CONSTANTS
  L1 = L1
  L2 = L2
  Lines <- MCLines
  MaxCommands = 3
  Faults <- MCFaults
INVARIANTS
  NoLineOvertaken
  NoForeignHeader
PROPERTIES
  LatestSpec
  ServerNotStarved
CHECK_DEADLOCK FALSE
