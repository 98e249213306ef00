\* The counter wraps after 5 of its 6 values; delays are up to its half range.
CONSTANTS
  worker = worker  waiter = waiter  f1 = f1  f2 = f2
  Task <- MCTask
  Periodic = {worker}
  Anchored = {worker}
  Waiting = {waiter}
  Flag = {f1, f2}
  Want <- MCWant
  Mask <- MCMask
  TickMod = 6
  Delay = {1, 2}
SPECIFICATION SleepSpec
INVARIANTS
  ReleasedOnTime
  NoFlagOverslept
PROPERTIES
  ImplementsDeadlines
  NextReleaseAhead
