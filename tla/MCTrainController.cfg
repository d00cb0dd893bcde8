SPECIFICATION FairSpec
CONSTANTS
  k1 = k1
  k2 = k2
  Keys <- MCKeys
  Junk = Junk
  MaxCommands = 3
  Faults <- MCFaults
INVARIANTS
  TypeOK
  NoLostWakeup
PROPERTIES
  RelaySpec
  EventuallyForwarded
CHECK_DEADLOCK FALSE
