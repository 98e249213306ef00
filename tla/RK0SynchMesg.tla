---------------------------- MODULE RK0SynchMesg -----------------------------
(***************************************************************************)
(* Synchronous messages (core/src/ksynchmesg.c): a sender waits until its  *)
(* receiver copied the message, a caller until the server that accepted    *)
(* its call replied; both may give up.  The server runs at the best        *)
(* priority among those who wait for it.                                   *)
(*                                                                         *)
(* A call is one critical section up to the point where its task waits,    *)
(* and another when it executes again.  Which task that is ready executes  *)
(* next is left open; READY stands for RUNNING, too.  The tasks own no     *)
(* mutexes, with which these operations are refused.                       *)
(***************************************************************************)
EXTENDS RK0Queues

CONSTANTS
    Task,        \* the tasks
    prioNominal, \* TCB.prioNominal
    Server,      \* the tasks that get an endpoint
    None         \* no task

ASSUME SynchMesgAssumption ==
    /\ prioNominal \in [Task -> Nat]
    /\ Server \subseteq Task
    /\ None \notin Task

VARIABLES
    endpoint,   \* the tasks whose synchMesgMaxBytes is not 0
    pending,    \* TCB.synchMesgPendingSenderPtr, and with it synchMesgPendingPtr
    senders,    \* TCB.synchMesgSenders
    callers,    \* TCB.synchMesgCallers
    active,     \* TCB.synchMesgActiveCallerPtr
    activePrio, \* TCB.synchMesgActiveCallerPrio
    callState,  \* TCB.synchMesgCallState
    receiver,   \* TCB.synchMesgReceiverPtr
    priority,   \* TCB.priority
    status,     \* TCB.status
    armed,      \* the tasks whose timeout node is armed
    timeOut,    \* TCB.timeOut
    call        \* the operation a task is suspended in

serverVars == <<endpoint, pending, senders, callers, active, activePrio>>
taskVars == <<callState, receiver, priority, status, armed, timeOut, call>>
vars == <<serverVars, taskVars>>

SynchMesgTypeOK ==
    /\ endpoint \subseteq Server
    /\ pending \in [Task -> Task \cup {None}]
    /\ senders \in [Task -> Seq(Task)] /\ callers \in [Task -> Seq(Task)]
    /\ active \in [Task -> Task \cup {None}]
    /\ activePrio \in [Task -> Nat]
    /\ callState \in [Task -> {"IDLE", "QUEUED", "ACTIVE", "ABANDONED"}]
    /\ receiver \in [Task -> Task \cup {None}]
    /\ priority \in [Task -> Nat]
    /\ status \in [Task -> {"READY", "SENDING", "RECEIVING"}]
    /\ armed \subseteq Task
    /\ timeOut \in [Task -> BOOLEAN]
    /\ call \in [Task -> {"none", "send", "recv", "call", "accept"}]

Calls(t) == status[t] = "READY" /\ call[t] = "none"
Resumes(t, op) == status[t] = "READY" /\ call[t] = op

(* synchMesgRecvBufPtr is not NULL; t is in synchMesgAcceptWaiters. *)
AwaitsMesg(t) == status[t] = "RECEIVING" /\ call[t] = "recv"
AwaitsCall(t) == status[t] = "RECEIVING" /\ call[t] = "accept"

Suspend(t, op, st, timed) ==
    /\ status' = [status EXCEPT ![t] = st]
    /\ call' = [call EXCEPT ![t] = op]
    /\ armed' = IF timed THEN armed \cup {t} ELSE armed
    /\ timeOut' = IF timed THEN [timeOut EXCEPT ![t] = FALSE] ELSE timeOut

(* t becomes ready, its timeout disarmed. *)
Ready(t) ==
    /\ status' = [status EXCEPT ![t] = "READY"]
    /\ armed' = armed \ {t}

Return(t) == call' = [call EXCEPT ![t] = "none"]

(***************************************************************************)
(* The priority of a server.                                               *)
(***************************************************************************)

(* kTaskSynchMesgPrio_, with the values of the variables it reads. *)
SynchMesgPrio(s, snd, cll, act, actPrio, st) ==
    Min({prioNominal[s]}
        \cup (IF act[s] # None /\ st[act[s]] = "ACTIVE" THEN {actPrio[s]} ELSE {})
        \cup {priority[q[1]] : q \in {snd[s], cll[s]} \ {<<>>}})

(* A task that waits with a timeout is put in its place again. *)
Requeue(q, t, prio) ==
    IF Len(q) > 1 /\ t \in armed /\ Contains(q, t) /\ prio[t] # priority[t]
      THEN TCBQEnqByPrio(TCBQRem(q, t), t, prio) ELSE q

(* kSynchMesgUpdateReceiverPrio_, once the queues, the active callers and  *)
(* the states of the calls have the values given.                          *)
UpdateReceiverPrio(s, snd, cll, act, actPrio, st) ==
    LET prio == [priority EXCEPT ![s] = SynchMesgPrio(s, snd, cll, act, actPrio, st)] IN
    /\ priority' = prio
    /\ senders' = [r \in Task |-> Requeue(snd[r], s, prio)]
    /\ callers' = [r \in Task |-> Requeue(cll[r], s, prio)]
    /\ active' = act
    /\ activePrio' = actPrio
    /\ callState' = st

(***************************************************************************)
(* Sending and receiving.                                                  *)
(***************************************************************************)

(* kSynchMesgInit *)
MesgInit(s) ==
    /\ s \notin endpoint
    /\ endpoint' = endpoint \cup {s}
    /\ UNCHANGED <<pending, senders, callers, active, activePrio, taskVars>>

(* A task whose call was abandoned can ask nobody until it is replied to. *)
(* Fault: it can ask again at once.                                       *)
MayAskAnew(t, s) == Calls(t) /\ s \in endpoint \ {t}

MayAsk(t, s) ==
    /\ Calls(t)
    /\ s \in endpoint \ {t}
    /\ receiver[t] = None
    /\ callState[t] = "IDLE"

(* kSynchMesgDirectRecv_ *)
SendDirect(t, s) ==
    /\ MayAsk(t, s)
    /\ AwaitsMesg(s)
    /\ pending[s] = None
    /\ Ready(s)
    /\ UNCHANGED <<serverVars, callState, receiver, priority, timeOut, call>>

(* kSynchMesgPromoteNext_: of a server with no pending message the first   *)
(* sender's becomes the pending one.                                       *)
(* Fault: it waits for the next sender to come.                            *)
PromoteLater(s, pend, snd) == pend

PromoteNext(s, pend, snd) ==
    IF pend[s] = None /\ snd[s] # <<>> THEN [pend EXCEPT ![s] = snd[s][1]] ELSE pend

SendBlock(t, s, timed) ==
    LET snd == [senders EXCEPT ![s] = TCBQEnqByPrio(@, t, priority)] IN
    /\ MayAsk(t, s)
    /\ ~(AwaitsMesg(s) /\ pending[s] = None)
    /\ receiver' = [receiver EXCEPT ![t] = s]
    /\ Suspend(t, "send", "SENDING", timed)
    /\ pending' = PromoteNext(s, pending, snd)
    /\ UpdateReceiverPrio(s, snd, callers, active, activePrio, callState)
    /\ UNCHANGED endpoint

(* The sender t does not wait for s any more, its message copied or not. *)
SenderLeaves(t, s) ==
    LET snd == [senders EXCEPT ![s] = TCBQRem(@, t)]
        pend == IF pending[s] = t THEN [pending EXCEPT ![s] = None] ELSE pending
    IN  /\ receiver' = [receiver EXCEPT ![t] = None]
        /\ pending' = PromoteNext(s, pend, snd)
        /\ UpdateReceiverPrio(s, snd, callers, active, activePrio, callState)
        /\ Ready(t)

(* kSyncRecv, kSynchMesgConsumePendingSend_ *)
Recv(s) ==
    /\ Calls(s)
    /\ s \in endpoint
    /\ pending[s] # None
    /\ SenderLeaves(pending[s], s)
    /\ UNCHANGED <<endpoint, timeOut, call>>

RecvBlock(s, timed) ==
    /\ Calls(s)
    /\ s \in endpoint
    /\ pending[s] = None
    /\ Suspend(s, "recv", "RECEIVING", timed)
    /\ UNCHANGED <<serverVars, callState, receiver, priority>>

(* Sender, receiver or caller execute again: RK_ERR_SUCCESS. *)
Success(t) ==
    /\ \E op \in {"send", "recv", "call"} : Resumes(t, op)
    /\ ~timeOut[t]
    /\ Return(t)
    /\ UNCHANGED <<serverVars, callState, receiver, priority, status, armed, timeOut>>

(* RK_ERR_TIMEOUT *)
Timeout(t) ==
    /\ status[t] = "READY"
    /\ call[t] # "none"
    /\ timeOut[t]
    /\ timeOut' = [timeOut EXCEPT ![t] = FALSE]
    /\ Return(t)
    /\ UNCHANGED <<serverVars, callState, receiver, priority, status, armed>>

(***************************************************************************)
(* Calls.                                                                  *)
(***************************************************************************)

(* kSynchMesgCall, with kSynchMesgWakeAcceptor_. *)
Call(t, s, timed) ==
    /\ MayAsk(t, s)
    /\ receiver' = [receiver EXCEPT ![t] = s]
    /\ UpdateReceiverPrio(s, senders, [callers EXCEPT ![s] = TCBQEnqByPrio(@, t, priority)],
                          active, activePrio, [callState EXCEPT ![t] = "QUEUED"])
    /\ status' = [status EXCEPT ![t] = "RECEIVING",
                                ![s] = IF AwaitsCall(s) THEN "READY" ELSE @]
    /\ armed' = (armed \ (IF AwaitsCall(s) THEN {s} ELSE {})) \cup (IF timed THEN {t} ELSE {})
    /\ timeOut' = IF timed THEN [timeOut EXCEPT ![t] = FALSE] ELSE timeOut
    /\ call' = [call EXCEPT ![t] = "call"]
    /\ UNCHANGED <<endpoint, pending>>

(* kSynchMesgAccept; a task woken for a call may find that it is gone. *)
Accepts(s) ==
    /\ s \in endpoint
    /\ Calls(s) \/ Resumes(s, "accept")
    /\ ~timeOut[s]
    /\ active[s] = None

AcceptTake(s) ==
    /\ Accepts(s)
    /\ callers[s] # <<>>
    /\ LET t == Head(callers[s]) IN
          UpdateReceiverPrio(s, senders, [callers EXCEPT ![s] = Tail(@)],
                             [active EXCEPT ![s] = t],
                             [activePrio EXCEPT ![s] = priority[t]],
                             [callState EXCEPT ![t] = "ACTIVE"])
    /\ Return(s)
    /\ UNCHANGED <<endpoint, pending, receiver, status, armed, timeOut>>

AcceptBlock(s, timed) ==
    /\ Accepts(s)
    /\ callers[s] = <<>>
    /\ Suspend(s, "accept", "RECEIVING", timed)
    /\ UNCHANGED <<serverVars, callState, receiver, priority>>

(* kSynchMesgReply, to a caller that waits, or to one that gave up.        *)
ReplyWakes(t) == callState[t] = "ACTIVE"

Reply(s) ==
    LET t == active[s] IN
    /\ Calls(s)
    /\ t # None
    /\ receiver[t] = s
    /\ callState[t] \in {"ACTIVE", "ABANDONED"}
    /\ receiver' = [receiver EXCEPT ![t] = None]
    /\ UpdateReceiverPrio(s, senders, callers, [active EXCEPT ![s] = None],
                          [activePrio EXCEPT ![s] = prioNominal[s]],
                          [callState EXCEPT ![t] = "IDLE"])
    /\ IF ReplyWakes(t) THEN Ready(t) ELSE UNCHANGED <<status, armed>>
    /\ UNCHANGED <<endpoint, pending, timeOut, call>>

(***************************************************************************)
(* Timeouts, as the tick handles them (kTimeoutNodeReady).                 *)
(***************************************************************************)

(* kSynchMesgTimeoutSend *)
TimeoutSend(t) == SenderLeaves(t, receiver[t]) /\ UNCHANGED endpoint

(* kSynchMesgTimeoutCall of a call that is worked on.                      *)
(* Fault: the server keeps the priority of the caller.                     *)
AbandonCallKept(t, s) ==
    /\ callState' = [callState EXCEPT ![t] = "ABANDONED"]
    /\ UNCHANGED <<receiver, priority, senders, callers, active, activePrio>>

AbandonCall(t, s) ==
    /\ UpdateReceiverPrio(s, senders, callers, active, activePrio,
                          [callState EXCEPT ![t] = "ABANDONED"])
    /\ UNCHANGED receiver

DropCall(t, s) ==
    /\ UpdateReceiverPrio(s, senders, [callers EXCEPT ![s] = TCBQRem(@, t)],
                          active, activePrio, [callState EXCEPT ![t] = "IDLE"])
    /\ receiver' = [receiver EXCEPT ![t] = None]

TimeoutCall(t) ==
    /\ IF callState[t] = "QUEUED" THEN DropCall(t, receiver[t]) ELSE AbandonCall(t, receiver[t])
    /\ Ready(t)
    /\ UNCHANGED <<endpoint, pending>>

Expire(t) ==
    /\ t \in armed
    /\ timeOut' = [timeOut EXCEPT ![t] = TRUE]
    /\ CASE call[t] = "send" -> TimeoutSend(t)
         [] call[t] = "call" -> TimeoutCall(t)
         [] OTHER -> Ready(t) /\ UNCHANGED <<serverVars, callState, receiver, priority>>
    /\ UNCHANGED call

SynchMesgInit ==
    /\ endpoint = {}
    /\ pending = [t \in Task |-> None]
    /\ senders = [t \in Task |-> <<>>]
    /\ callers = [t \in Task |-> <<>>]
    /\ active = [t \in Task |-> None]
    /\ activePrio = prioNominal
    /\ callState = [t \in Task |-> "IDLE"]
    /\ receiver = [t \in Task |-> None]
    /\ priority = prioNominal
    /\ status = [t \in Task |-> "READY"]
    /\ armed = {}
    /\ timeOut = [t \in Task |-> FALSE]
    /\ call = [t \in Task |-> "none"]

SynchMesgNext ==
    \/ \E s \in Server, timed \in BOOLEAN :
          \/ MesgInit(s) \/ Recv(s) \/ AcceptTake(s) \/ Reply(s)
          \/ RecvBlock(s, timed) \/ AcceptBlock(s, timed)
          \/ \E t \in Task : SendDirect(t, s) \/ SendBlock(t, s, timed) \/ Call(t, s, timed)
    \/ \E t \in Task : Success(t) \/ Expire(t) \/ Timeout(t)

SynchMesgSpec == SynchMesgInit /\ [][SynchMesgNext]_vars

(***************************************************************************)
(* Properties.                                                             *)
(***************************************************************************)

(* Where no server asks another one, each runs exactly at the best of its  *)
(* own priority and those of the tasks that wait for it: raised by a       *)
(* sender or caller that comes, kept while it works on the call, and taken *)
(* back when they are served, give up, or are answered too late.  (Of a    *)
(* server that asks another one the kernel neither passes the priority on  *)
(* nor, unless the wait is bounded, keeps the place in the queue.)         *)
ServerPriority ==
    \A s \in Server :
        priority[s] = Min({prioNominal[s]} \cup
            {priority[t] : t \in {t \in Task : receiver[t] = s /\ callState[t] # "ABANDONED"}})

(* A call accepted can be replied to: kSynchMesgReply never finds it gone, *)
(* whatever its caller did since; and a caller that waits is in the queue  *)
(* of its server or worked for.                                            *)
CallTraceable ==
    \A t \in Task :
        /\ active[t] # None => /\ receiver[active[t]] = t
                               /\ callState[active[t]] \in {"ACTIVE", "ABANDONED"}
        /\ callState[t] = "QUEUED" <=> \E s \in Task : Contains(callers[s], t)
        /\ callState[t] \in {"ACTIVE", "ABANDONED"} <=> \E s \in Task : active[s] = t

(* Nobody who waits for a server is forgotten: a server in kSyncRecv has   *)
(* no sender to serve, one in kSynchMesgAccept no caller, and of those     *)
(* that send one message is always pending; a call that was accepted can   *)
(* be replied to.  And every variable keeps its type.                      *)
NobodyForgotten ==
    /\ SynchMesgTypeOK
    /\ CallTraceable
    /\ \A s \in Task :
          /\ senders[s] # <<>> => Contains(senders[s], pending[s])
          /\ AwaitsMesg(s) => senders[s] = <<>>
          /\ AwaitsCall(s) => callers[s] = <<>>

(* Senders and callers meet servers as RK0Rendezvous says: a message or    *)
(* call is served or timed out, and its outcome says which.                *)
Stage(t) ==
    IF callState[t] = "ABANDONED" THEN "abandoned"
    ELSE IF callState[t] = "ACTIVE" THEN "accepted"
    ELSE IF callState[t] = "QUEUED" \/ status[t] = "SENDING" THEN "offered"
    ELSE IF call[t] \in {"send", "call"} THEN (IF timeOut[t] THEN "withdrawn" ELSE "done")
    ELSE "idle"

Rendezvous == INSTANCE RK0Rendezvous
    WITH Nobody <- None, stage <- [t \in Task |-> Stage(t)], serving <- active

ImplementsRendezvous == Rendezvous!RendezvousSpec
=============================================================================
