\* The counter wraps after 5 of its 6 values.
CONSTANTS
  every = every  once = once
  Timer = {every, once}
  NoTimer = NoTimer
  Reloading = {every}
  Period <- MCPeriod
  Phase <- MCPhase
  Job = {flush}
  QLen = 2
  TickMod = 6
SPECIFICATION PostProcSpec
INVARIANTS
  NoStrandedJob
  NeverEarly
