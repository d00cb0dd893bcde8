SPECIFICATION FairSpec
CONSTANTS
  c1 = c1
  c2 = c2
  Clients <- MCClients
  N_ITERATIONS = 8
  MaxServers = 2
  MaxStarts = 3
  NoBody = NoBody
  Faults <- MCFaults
PROPERTIES
  PhasesInOrder
  ClientsEnd
  ServersEnd
CHECK_DEADLOCK FALSE
