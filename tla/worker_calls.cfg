CONSTANTS
  Calls <- MCCalls
  NoCall = 0
  Mixes <- MCMixes
  Clients = {p1, p2, p3}
  NoClient = nothing
  Permits = 2
  MaxFaults = 1
SPECIFICATION WorkersFairSpec
INVARIANTS
  CapacityKept
  ConversationsApart
  NoOrphans
PROPERTIES
  CallsEnd
\* The calls end.
CHECK_DEADLOCK FALSE
