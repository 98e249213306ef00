\* A semaphore, a sleep queue and an inheriting mutex, for two tasks.
CONSTANTS
  hi = hi  mid = mid  lo = lo  idle = idle  sema = sema  sleepq = sleepq
  Task <- MCPair
  Idle = idle
  PostProc = NoTask
  NoTask = NoTask
  IdlePrio = 3
  Nominal <- MCPairPrios
  Preemptible <- MCPair
  BitmaskLimit = 3
  MaxSchLock = 2
  Mutex = {m1}
  NoMutex = NoMutex
  Inheriting = {m1}
  Queue = {sema, sleepq}
  Sema = {sema}
  SleepQ = {sleepq}
  NoQueue = NoQueue
  InitValue <- MCInit
  MaxValue <- MCMax
  Debug = FALSE
SPECIFICATION WaitSpec
INVARIANTS
  LinkedWhereItWaits
PROPERTIES
  ImplementsSemaphore
  CondWaitAtomic
  CondWaitReturnsOwner
