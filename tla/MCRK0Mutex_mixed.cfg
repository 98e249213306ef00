\* Two tasks of equal priority, a task created with RK_NO_PREEMPT, one mutex of each
\* protocol, and an idle level the bitmask has a bit for (RK_CONF_MIN_PRIO < 31).
CONSTANTS
  hi = hi  mid = mid  lo = lo  idle = idle
  Task <- MCTask
  Idle = idle
  PostProc = NoTask
  NoTask = NoTask
  IdlePrio = 2
  Nominal <- MCPriosTied
  Preemptible = {hi, lo, idle}
  BitmaskLimit = 4
  MaxSchLock = 1
  Mutex = {m1, m2}
  NoMutex = NoMutex
  Inheriting = {m1}
  Queue = {}
SPECIFICATION Spec
INVARIANTS
  TypeOK
  DispatchNeverNull
  NoLostPreemption
  RunnerIsRunnable
  LockOutcomeTruthful
PROPERTIES
  PreemptedOnlyByBetter
  ImplementsLock
