\* One receiver and two senders, of which the second is forgotten.
CONSTANTS
  t1 = t1  t2 = t2  t3 = t3
  Task <- MCTask
  prio <- MCPrio
  Sender = {t2, t3}
  Receiver = {t1}
  Audience = {}
  Mesg = {m1}
  NoMesg = NoMesg
  Depth = {1}
  JobQLen = 1
  LateReset = FALSE
SPECIFICATION MesgQueueSpec
CHECK_DEADLOCK FALSE
INVARIANTS
  SenderServed
