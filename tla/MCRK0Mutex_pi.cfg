\* Three tasks of distinct priorities and two inheriting mutexes.
CONSTANTS
  hi = hi  mid = mid  lo = lo  idle = idle
  Task <- MCTask
  Idle = idle
  PostProc = NoTask
  NoTask = NoTask
  IdlePrio = 3
  Nominal <- MCPrios
  Preemptible <- MCTask
  BitmaskLimit = 3
  MaxSchLock = 0
  Mutex = {m1, m2}
  NoMutex = NoMutex
  Inheriting = {m1, m2}
  Queue = {}
SPECIFICATION FairSections
INVARIANTS
  Placement
  TimeoutNodeFree
  OwnershipConsistent
  WaitersSorted
  PriorityInherited
PROPERTIES
  HandOffToBest
  SectionEnds
