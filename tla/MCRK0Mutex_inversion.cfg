\* Three tasks of distinct priorities and one inheriting mutex.
CONSTANTS
  hi = hi  mid = mid  lo = lo  idle = idle
  Task <- MCTask
  Idle = idle
  PostProc = NoTask
  NoTask = NoTask
  IdlePrio = 3
  Nominal <- MCPrios
  Preemptible <- MCTask
  BitmaskLimit = 3
  MaxSchLock = 0
  Mutex = {m1}
  NoMutex = NoMutex
  Inheriting = {m1}
  Queue = {}
SPECIFICATION FairSpec
PROPERTY TopWaiterServed
