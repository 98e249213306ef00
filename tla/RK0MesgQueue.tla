---------------------------- MODULE RK0MesgQueue ----------------------------
(***************************************************************************)
(* A message queue or mailbox (core/src/kmesgq.c): sending, jamming and    *)
(* overwriting, receiving, broadcast, reset, and the waits of both sides   *)
(* with their timeouts.                                                    *)
(*                                                                         *)
(* A call is one critical section up to the point where its task waits,    *)
(* and another from each time it executes again.  Which task that is ready *)
(* executes next is left open; READY stands for RUNNING, too.  Any task    *)
(* and, without waiting, any interrupt handler may send.  The callback of  *)
(* a send and calls that only read are left out.                           *)
(***************************************************************************)
EXTENDS RK0RingBuf, RK0Queues

CONSTANTS
    Task,      \* the tasks
    prio,      \* their priorities
    Sender,    \* the tasks that send or jam, and may wait
    Receiver,  \* the tasks that call kMesgQueueRecv
    Audience,  \* the tasks that call kMesgQueueBroadcastRecv
    Mesg,      \* the messages
    NoMesg,    \* no message
    Depth,     \* the depths it may have been created with
    JobQLen,   \* RK_POSTPROC_Q_LEN
    LateReset  \* TRUE if a reset may come while a broadcast is being read

ASSUME MesgQueueAssumption ==
    /\ Sender \cup Receiver \cup Audience \subseteq Task
    /\ IsFiniteSet(Task)
    /\ prio \in [Task -> Nat]
    /\ NoMesg \notin Mesg
    /\ Depth \subseteq Nat \ {0}
    /\ LateReset \in BOOLEAN

VARIABLES
    ringBuf,            \* RK_MESG_QUEUE.ringBuf
    waitingReceivers,   \* RK_MESG_QUEUE.waitingReceivers
    waitingSenders,     \* RK_MESG_QUEUE.waitingSenders
    broadcastReceivers, \* RK_MESG_QUEUE.broadcastReceivers
    status,             \* TCB.status
    armed,              \* the tasks whose timeout node is armed
    timeOut,            \* TCB.timeOut
    waitInfo,           \* TCB.timeoutNode.waitInfo
    recvBuf,            \* what a receiver's buffer was filled with directly
    call,               \* the call a task is suspended in
    jobs                \* deferred broadcast wake-ups: how many tasks each wakes

queueVars == <<ringBuf, waitingReceivers, waitingSenders, broadcastReceivers>>
taskVars  == <<status, armed, timeOut, waitInfo, recvBuf, call>>
vars == <<queueVars, taskVars, jobs>>

NoCall == [op |-> "none"]
SendCall == [op : {"send", "jam"}, mesg : Mesg, timed : BOOLEAN]
RecvCall == [op : {"recv", "brecv"}, timed : BOOLEAN]

MesgQueueTypeOK ==
    /\ ringBuf.nFull <= ringBuf.maxBuf
    /\ waitingReceivers \in Seq(Receiver \cup Audience)
    /\ waitingSenders \in Seq(Sender)
    /\ broadcastReceivers \in 0 .. Cardinality(Audience)
    /\ status \in [Task -> {"READY", "SENDING", "RECEIVING"}]
    /\ armed \subseteq Task
    /\ timeOut \in [Task -> BOOLEAN]
    /\ waitInfo \in [Task -> {"NORMAL", "BROADCAST", "BROADCAST_DELIVER", "DIRECT_DELIVER"}]
    /\ recvBuf \in [Task -> Mesg \cup {NoMesg}]
    /\ call \in [Task -> SendCall \cup RecvCall \cup {NoCall}]
    /\ jobs \in Seq(Nat)

Mailbox == ringBuf.maxBuf = 1
Full == ringBuf.nFull >= ringBuf.maxBuf
NothingToRecv == ringBuf.nFull = 0 \/ broadcastReceivers > 0

Calls(t) == status[t] = "READY" /\ call[t] = NoCall
Resumes(t, ops) == status[t] = "READY" /\ call[t].op \in ops

(* The tasks ts become ready, their timeouts disarmed. *)
Ready(ts) ==
    /\ status' = [t \in Task |-> IF t \in ts THEN "READY" ELSE status[t]]
    /\ armed' = armed \ ts

(* t waits in the call c.  A bounded wait is armed with its whole timeout  *)
(* each time.                                                              *)
Wait(t, c, st) ==
    /\ status' = [status EXCEPT ![t] = st]
    /\ call' = [call EXCEPT ![t] = c]
    /\ armed' = IF c.timed THEN armed \cup {t} ELSE armed
    /\ timeOut' = IF c.timed THEN [timeOut EXCEPT ![t] = FALSE] ELSE timeOut

Return(t) == call' = [call EXCEPT ![t] = NoCall]

(* The places in the queue of those who wait in this way, and who they are. *)
Places(info) == {i \in DOMAIN waitingReceivers : waitInfo[waitingReceivers[i]] = info}
TasksAt(places) == {waitingReceivers[i] : i \in places}

(* kMesgQueueDeqNormalReceiver_: the first receiver that does not wait for *)
(* a broadcast, as a set of at most one task.                              *)
(* Fault: only the first of the queue is looked at.                        *)
NormalReceiverHead ==
    IF waitingReceivers # <<>> /\ waitInfo[Head(waitingReceivers)] # "BROADCAST"
      THEN {Head(waitingReceivers)} ELSE {}

NormalReceiver ==
    LET normal == DOMAIN waitingReceivers \ Places("BROADCAST") IN
    IF normal = {} THEN {} ELSE {waitingReceivers[Min(normal)]}

(***************************************************************************)
(* Sending.                                                                *)
(***************************************************************************)

(* kMesgQueueDirectSendIfAny_: an empty queue hands the message over.      *)
Direct == ringBuf.nFull = 0 /\ broadcastReceivers = 0 /\ NormalReceiver # {}

HandOver(m) ==
    \E r \in NormalReceiver :
        /\ waitingReceivers' = TCBQRem(waitingReceivers, r)
        /\ recvBuf' = [recvBuf EXCEPT ![r] = m]
        /\ waitInfo' = [waitInfo EXCEPT ![r] = "DIRECT_DELIVER"]
        /\ Ready({r})
        /\ UNCHANGED <<ringBuf, waitingSenders, broadcastReceivers>>

(* Into the ring, and kMesgQueueWakeNormalReceiverIfAny_. *)
Store(rb) ==
    /\ ringBuf' = rb
    /\ waitingReceivers' = IF NormalReceiver = {} THEN waitingReceivers
                             ELSE TCBQRem(waitingReceivers, CHOOSE r \in NormalReceiver : TRUE)
    /\ waitInfo' = [t \in Task |-> IF t \in NormalReceiver THEN "NORMAL" ELSE waitInfo[t]]
    /\ Ready(NormalReceiver)
    /\ UNCHANGED <<waitingSenders, broadcastReceivers, recvBuf>>

Accept(op, m) ==
    /\ ~Full
    /\ IF Direct THEN HandOver(m)
       ELSE Store(IF op = "jam" THEN RingJam(ringBuf, m) ELSE RingWrite(ringBuf, m))
    /\ UNCHANGED <<timeOut, jobs>>

(* kMesgQueueSend, kMesgQueueJam: not full, or refused and unchanged. *)
Send(op, m) == Accept(op, m) /\ UNCHANGED call

SendBlock(t, c) ==
    /\ Calls(t)
    /\ Full
    /\ Wait(t, c, "SENDING")
    /\ waitingSenders' = TCBQEnqByPrio(waitingSenders, t, prio)
    /\ UNCHANGED <<ringBuf, waitingReceivers, broadcastReceivers, waitInfo, recvBuf, jobs>>

(* A sender that was woken tries again, and waits again if need be. *)
SendResume(t) ==
    /\ Resumes(t, {"send", "jam"})
    /\ ~timeOut[t]
    /\ Accept(call[t].op, call[t].mesg)
    /\ Return(t)

SendBlockAgain(t) ==
    /\ Resumes(t, {"send", "jam"})
    /\ ~timeOut[t]
    /\ Full
    /\ Wait(t, call[t], "SENDING")
    /\ waitingSenders' = TCBQEnqByPrio(waitingSenders, t, prio)
    /\ UNCHANGED <<ringBuf, waitingReceivers, broadcastReceivers, waitInfo, recvBuf, jobs>>

(* kMesgQueuePostOvw, of a mailbox. *)
PostOvw(m) ==
    /\ Mailbox
    /\ broadcastReceivers = 0
    /\ IF Direct THEN HandOver(m)
       ELSE IF ringBuf.nFull = 0 THEN Store(RingOverwrite(ringBuf, m))
       ELSE /\ ringBuf' = RingOverwrite(ringBuf, m)
            /\ UNCHANGED <<waitingReceivers, waitingSenders, broadcastReceivers, recvBuf,
                           waitInfo, status, armed>>
    /\ UNCHANGED <<timeOut, call, jobs>>

(***************************************************************************)
(* Receiving.                                                              *)
(***************************************************************************)

(* The oldest message is taken out, and kMesgQueueWakeSenderIfAny_.        *)
TakeOut ==
    /\ ringBuf' = RingRead(ringBuf)
    /\ waitingSenders' = IF waitingSenders = <<>> THEN <<>> ELSE Tail(waitingSenders)
    /\ Ready(IF waitingSenders = <<>> THEN {} ELSE {Head(waitingSenders)})

(* kMesgQueueRecv, by a task or, if there is a message, a handler. *)
Recv ==
    /\ ~NothingToRecv
    /\ TakeOut
    /\ UNCHANGED <<waitingReceivers, broadcastReceivers, timeOut, waitInfo, recvBuf, call, jobs>>

RecvBlock(t, timed) ==
    /\ Calls(t)
    /\ NothingToRecv
    /\ Wait(t, [op |-> "recv", timed |-> timed], "RECEIVING")
    /\ waitInfo' = [waitInfo EXCEPT ![t] = "NORMAL"]
    /\ waitingReceivers' = TCBQEnqByPrio(waitingReceivers, t, prio)
    /\ UNCHANGED <<ringBuf, waitingSenders, broadcastReceivers, recvBuf, jobs>>

(* It executes again: its buffer was filled, there is a message to take,   *)
(* or it waits again.                                                      *)
RecvDelivered(t) ==
    /\ Resumes(t, {"recv"})
    /\ ~timeOut[t]
    /\ waitInfo[t] = "DIRECT_DELIVER"
    /\ waitInfo' = [waitInfo EXCEPT ![t] = "NORMAL"]
    /\ recvBuf' = [recvBuf EXCEPT ![t] = NoMesg]
    /\ Return(t)
    /\ UNCHANGED <<queueVars, status, armed, timeOut, jobs>>

RecvResume(t) ==
    /\ Resumes(t, {"recv"})
    /\ ~timeOut[t]
    /\ waitInfo[t] # "DIRECT_DELIVER"
    /\ ~NothingToRecv
    /\ TakeOut
    /\ Return(t)
    /\ UNCHANGED <<waitingReceivers, broadcastReceivers, timeOut, waitInfo, recvBuf, jobs>>

RecvBlockAgain(t) ==
    /\ Resumes(t, {"recv"})
    /\ ~timeOut[t]
    /\ waitInfo[t] # "DIRECT_DELIVER"
    /\ NothingToRecv
    /\ Wait(t, call[t], "RECEIVING")
    /\ waitingReceivers' = TCBQEnqByPrio(waitingReceivers, t, prio)
    /\ UNCHANGED <<ringBuf, waitingSenders, broadcastReceivers, waitInfo, recvBuf, jobs>>

(***************************************************************************)
(* Broadcast, of a mailbox.                                                *)
(***************************************************************************)

(* kMesgQueueBroadcastRecv: the caller waits, a full mailbox or not. *)
BroadcastRecv(t, timed) ==
    /\ Calls(t)
    /\ Mailbox
    /\ Wait(t, [op |-> "brecv", timed |-> timed], "RECEIVING")
    /\ waitInfo' = [waitInfo EXCEPT ![t] = "BROADCAST"]
    /\ waitingReceivers' = TCBQEnqByPrio(waitingReceivers, t, prio)
    /\ UNCHANGED <<ringBuf, waitingSenders, broadcastReceivers, recvBuf, jobs>>

BroadcastRecvAgain(t) ==
    /\ Resumes(t, {"brecv"})
    /\ ~timeOut[t]
    /\ waitInfo[t] # "BROADCAST_DELIVER"
    /\ Wait(t, call[t], "RECEIVING")
    /\ waitInfo' = [waitInfo EXCEPT ![t] = "BROADCAST"]
    /\ waitingReceivers' = TCBQEnqByPrio(waitingReceivers, t, prio)
    /\ UNCHANGED <<ringBuf, waitingSenders, broadcastReceivers, recvBuf, jobs>>

(* The last of the audience takes the message out, the others copy it. *)
BroadcastTake(t) ==
    /\ Resumes(t, {"brecv"})
    /\ ~timeOut[t]
    /\ waitInfo[t] = "BROADCAST_DELIVER"
    /\ waitInfo' = [waitInfo EXCEPT ![t] = "NORMAL"]
    /\ broadcastReceivers' = broadcastReceivers - 1
    /\ IF broadcastReceivers = 1
         THEN TakeOut
         ELSE UNCHANGED <<ringBuf, waitingSenders, status, armed>>
    /\ Return(t)
    /\ UNCHANGED <<waitingReceivers, timeOut, recvBuf, jobs>>

(* kMesgQueueBroadcastWake: up to n of those at the places that were       *)
(* prepared, the first of them.                                            *)
WakeUpTo(n, prepared) ==
    LET woken == TasksAt({i \in prepared : Cardinality({j \in prepared : j < i}) < n}) IN
    /\ waitingReceivers' = TCBQWithout(waitingReceivers, woken)
    /\ status' = [t \in Task |-> IF t \in woken THEN "READY" ELSE status[t]]

(* kMesgQueuePrepareBroadcastReceivers_ disarms those who will receive.    *)
(* Fault: their timeouts go on.                                            *)
DisarmPreparedNever(ts) == UNCHANGED armed

DisarmPrepared(ts) == armed' = armed \ ts

(* kMesgQueueBroadcast: one receiver is woken at once; the wake-up of more *)
(* is deferred, and refused if the ring of jobs is full.                   *)
Broadcast(m) ==
    LET audience == Places("BROADCAST")
        toWake == Cardinality(audience)
    IN
    /\ Mailbox
    /\ toWake > 0
    /\ ~Full
    /\ toWake > 1 => Len(jobs) < JobQLen
    /\ ringBuf' = RingWrite(ringBuf, m)
    /\ broadcastReceivers' = toWake
    /\ waitInfo' = [t \in Task |-> IF t \in TasksAt(audience) THEN "BROADCAST_DELIVER"
                                   ELSE waitInfo[t]]
    /\ DisarmPrepared(TasksAt(audience))
    /\ IF toWake > 1
         THEN jobs' = Append(jobs, toWake) /\ UNCHANGED <<waitingReceivers, status>>
         ELSE WakeUpTo(1, audience) /\ UNCHANGED jobs
    /\ UNCHANGED <<waitingSenders, timeOut, recvBuf, call>>

(* The deferred job. *)
BroadcastWake ==
    /\ jobs # <<>>
    /\ WakeUpTo(Head(jobs), Places("BROADCAST_DELIVER"))
    /\ jobs' = Tail(jobs)
    /\ UNCHANGED <<ringBuf, waitingSenders, broadcastReceivers, armed, timeOut, waitInfo,
                   recvBuf, call>>

(***************************************************************************)
(* Reset and timeouts.                                                     *)
(***************************************************************************)

(* A task that was woken for a broadcast has not read it yet. *)
Reading == \E t \in Task : Resumes(t, {"brecv"}) /\ waitInfo[t] = "BROADCAST_DELIVER"

(* kMesgQueueReset, by a task, by a handler if nobody waits, or as the job *)
(* a handler defers.  All who wait are made ready, and will wait again.    *)
Reset ==
    LET received == ToSet(waitingReceivers)
        sending  == ToSet(waitingSenders)
    IN  /\ Reading => LateReset
        /\ ringBuf' = RingReset(ringBuf)
        /\ broadcastReceivers' = 0
        /\ waitingReceivers' = <<>>
        /\ waitingSenders' = <<>>
        /\ waitInfo' = [t \in Task |-> IF t \in received THEN "NORMAL" ELSE waitInfo[t]]
        /\ Ready(received \cup sending)
        /\ UNCHANGED <<timeOut, recvBuf, call, jobs>>

(* The tick finds the wait of t expired (kTimeoutNodeReady). *)
Expire(t) ==
    /\ t \in armed
    /\ Ready({t})
    /\ timeOut' = [timeOut EXCEPT ![t] = TRUE]
    /\ waitInfo' = [waitInfo EXCEPT ![t] = "NORMAL"]
    /\ waitingReceivers' = TCBQRem(waitingReceivers, t)
    /\ waitingSenders' = TCBQRem(waitingSenders, t)
    /\ UNCHANGED <<ringBuf, broadcastReceivers, recvBuf, call, jobs>>

(* RK_ERR_TIMEOUT *)
Timeout(t) ==
    /\ Resumes(t, {"send", "jam", "recv", "brecv"})
    /\ timeOut[t]
    /\ timeOut' = [timeOut EXCEPT ![t] = FALSE]
    /\ waitInfo' = IF call[t].op \in {"recv", "brecv"} THEN [waitInfo EXCEPT ![t] = "NORMAL"]
                   ELSE waitInfo
    /\ Return(t)
    /\ UNCHANGED <<queueVars, status, armed, recvBuf, jobs>>

MesgQueueInit ==
    /\ ringBuf \in {RingInit(n, NoMesg) : n \in Depth}
    /\ waitingReceivers = <<>>
    /\ waitingSenders = <<>>
    /\ broadcastReceivers = 0
    /\ status = [t \in Task |-> "READY"]
    /\ armed = {}
    /\ timeOut = [t \in Task |-> FALSE]
    /\ waitInfo = [t \in Task |-> "NORMAL"]
    /\ recvBuf = [t \in Task |-> NoMesg]
    /\ call = [t \in Task |-> NoCall]
    /\ jobs = <<>>

MesgQueueNext ==
    \/ \E m \in Mesg, op \in {"send", "jam"} : Send(op, m)
    \/ \E m \in Mesg : PostOvw(m) \/ Broadcast(m)
    \/ \E t \in Sender, c \in SendCall : SendBlock(t, c)
    \/ \E t \in Sender : SendResume(t) \/ SendBlockAgain(t)
    \/ Recv
    \/ \E t \in Receiver, timed \in BOOLEAN : RecvBlock(t, timed)
    \/ \E t \in Receiver : RecvDelivered(t) \/ RecvResume(t) \/ RecvBlockAgain(t)
    \/ \E t \in Audience, timed \in BOOLEAN : BroadcastRecv(t, timed)
    \/ \E t \in Audience : BroadcastRecvAgain(t) \/ BroadcastTake(t)
    \/ BroadcastWake
    \/ Reset
    \/ \E t \in Task : Expire(t) \/ Timeout(t)

MesgQueueSpec == MesgQueueInit /\ [][MesgQueueNext]_vars

(***************************************************************************)
(* Properties.                                                             *)
(***************************************************************************)

(* The queue is a bounded channel: no message is lost, doubled, overtaken  *)
(* or given to two tasks, with the ring, jamming, overwriting and direct   *)
(* hand-over mixed in any order; a broadcast reaches exactly those it was  *)
(* prepared for, whenever they come to read it.                            *)
Channel == INSTANCE RK0Channel
    WITH capacity <- ringBuf.maxBuf,
         queue <- IF broadcastReceivers > 0 THEN <<>> ELSE Contents(ringBuf),
         inbox <- [t \in Task |->
                      CASE waitInfo[t] = "DIRECT_DELIVER" -> recvBuf[t]
                        [] waitInfo[t] = "BROADCAST_DELIVER" -> RingPeek(ringBuf)
                        [] OTHER -> NoMesg]

ImplementsChannel == Channel!ChannelSpec

(* The count of those who have still to read a broadcast is exact, and the *)
(* message stays until the last did: the assertions of                     *)
(* kMesgQueueBroadcastRecv hold (kmesgq.c:1271).  And every variable keeps *)
(* its type.                                                               *)
BroadcastBooked ==
    /\ MesgQueueTypeOK
    /\ broadcastReceivers = Cardinality({t \in Task : waitInfo[t] = "BROADCAST_DELIVER"})
    /\ broadcastReceivers > 0 => ringBuf.nFull = 1

(* Nobody waits in kMesgQueueRecv while there is a message to be had, also *)
(* with tasks that wait for a broadcast ahead in the same queue.           *)
NoReceiverStarves ==
    (\E t \in Task : status[t] = "RECEIVING" /\ waitInfo[t] = "NORMAL") => NothingToRecv

(* A sender waits only while the queue is full, or while another sender    *)
(* that was woken is still to use the free slot and to pass it on.         *)
SenderServed ==
    waitingSenders # <<>> => \/ Full
                             \/ \E t \in Sender : Resumes(t, {"send", "jam"})
=============================================================================
