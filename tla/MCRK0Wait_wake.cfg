\* One sleep queue, for three tasks.
CONSTANTS
  hi = hi  mid = mid  lo = lo  idle = idle  sema = sema  sleepq = sleepq
  Task <- MCTask
  Idle = idle
  PostProc = NoTask
  NoTask = NoTask
  IdlePrio = 3
  Nominal <- MCPrios
  Preemptible <- MCTask
  BitmaskLimit = 3
  MaxSchLock = 1
  Mutex = {}
  NoMutex = NoMutex
  Inheriting = {}
  Queue = {sleepq}
  Sema = {}
  SleepQ = {sleepq}
  NoQueue = NoQueue
  InitValue <- MCInit
  MaxValue <- MCMax
  Debug = FALSE
SPECIFICATION WaitSpec
INVARIANTS
  NoPreemptionOwed
