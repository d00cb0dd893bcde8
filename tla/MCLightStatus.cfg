SPECIFICATION FairSpec
CONSTANTS
  L1 = L1
  L2 = L2
  Lights <- MCLights
  RY_DELAY = 2
  G_DELAY = 4
  Faults <- MCFaults
INVARIANTS
  HoldsForThePhase
  ViewFollows
PROPERTIES
  RoadSpec
  BothDirectionsServed
CHECK_DEADLOCK FALSE
