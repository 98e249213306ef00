\* Three tasks and a pool of two buffers with a ceiling.
CONSTANTS
  t1 = t1  t2 = t2  t3 = t3  p1 = p1  m1 = m1  m2 = m2
  Task <- MCTask
  prioNominal <- MCPrioNominal
  Endpoint = {t2, t3}
  Filter = {t1, ANY}
  Pool <- MCPool
  memPool <- MCMemPool
  ceiling <- MCCeiling
  None = None
  ANY = ANY
SPECIFICATION MesgSpec
CHECK_DEADLOCK FALSE
INVARIANTS
  CeilingHeld
  AllocatorsInOrder
  NoLeak
PROPERTIES
  ImplementsPost
