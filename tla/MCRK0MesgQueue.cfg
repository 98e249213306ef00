\* A queue of two messages or a mailbox for two receivers, both of which hear broadcasts, too, and a sender.
CONSTANTS
  t1 = t1  t2 = t2  t3 = t3
  Task <- MCTask
  prio <- MCPrio
  Sender = {t2, t3}
  Receiver = {t1, t2}
  Audience = {t1, t2}
  Mesg = {m1, m2}
  NoMesg = NoMesg
  Depth = {1, 2}
  JobQLen = 1
  LateReset = FALSE
SPECIFICATION MesgQueueSpec
CHECK_DEADLOCK FALSE
INVARIANTS
  BroadcastBooked
  NoReceiverStarves
PROPERTIES
  ImplementsChannel
