SPECIFICATION FairSpec
CONSTANTS
  u1 = u1
  u2 = u2
  u3 = u3
  s1 = s1
  s2 = s2
  r1 = r1
  r2 = r2
  c1 = c1
  c2 = c2
  MaxUse = 3
  MAX_RUNTIME = 12
  BUF_SIZE = 5
  Items = 20
  Users <- MCUsers
  MAX_SEM_VALUE = 2
  MaxLines = 3
  MaxQueued = 3
  Senders <- MCSenders
  Receivers <- MCReceivers
  NoQueue = NoQueue
  N = 3
  Clients <- MCClients
  PACKET_NUM = 2
  MaxServers = 2
  Faults <- MCFaults
INVARIANTS
  TypeOK
  ReadsOneBehindOrOverrun
  HeldForItsTime
  ShowersNotCrowded
  WakeupPassedOn
  WaitersHaveSeen
  EachReadOnce
  EveryWaiterIsDue
PROPERTIES
  AtomicSpec
  LightNeverJumps
  EndsUnlessAnAddWasLost
  AllGetThrough
  LastKeysSeen
  ReceiversEnd
  ServedUnlessCutOff
CHECK_DEADLOCK FALSE
