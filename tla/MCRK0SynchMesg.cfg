\* A server of low priority and three tasks that send to it and call it.
CONSTANTS
  t1 = t1  t2 = t2  t3 = t3  t4 = t4
  Task <- MCTask
  prioNominal <- MCPrioNominal
  Server = {t4}
  None = None
SPECIFICATION SynchMesgSpec
CHECK_DEADLOCK FALSE
INVARIANTS
  ServerPriority
  NobodyForgotten
PROPERTIES
  ImplementsRendezvous
