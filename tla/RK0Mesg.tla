------------------------------- MODULE RK0Mesg ------------------------------
(***************************************************************************)
(* Asynchronous direct messages (core/src/kmesg.c) over memory partitions  *)
(* (core/src/kmem.c): pools with a priority ceiling, allocation that may   *)
(* wait for a buffer, sending to a task, and waiting for a message, from   *)
(* one sender or from any.                                                 *)
(*                                                                         *)
(* A call is one critical section up to the point where its task waits,    *)
(* and another when it executes again.  Which task that is ready executes  *)
(* next is left open; READY stands for RUNNING, too.  Tasks send and free  *)
(* only messages they have in their hands, as the kernel cannot check.     *)
(* Mutexes, through which a ceiling would be inherited further, are those  *)
(* of RK0Mutex and left out here.                                          *)
(***************************************************************************)
EXTENDS RK0Mem, RK0Queues

CONSTANTS
    Task,        \* the tasks
    prioNominal, \* TCB.prioNominal
    Endpoint,    \* the tasks that may get an endpoint
    Filter,      \* the senders they wait for: tasks, or ANY
    Pool,        \* the pools
    memPool,     \* the buffers each has, in the order of their addresses
    ceiling,     \* the pools' priority ceilings
    None,        \* RK_MESG_PRIO_CEILING_NONE; no task, no message
    ANY          \* RK_ANY_TASK

Mesg == UNION {{memPool[p][i] : i \in 1 .. Len(memPool[p])} : p \in Pool}

ASSUME MesgAssumption ==
    /\ prioNominal \in [Task -> Nat]
    /\ Endpoint \subseteq Task
    /\ Filter \subseteq Task \cup {ANY}
    /\ ceiling \in [Pool -> Nat \cup {None}]
    /\ memPool \in [Pool -> Seq(Mesg)]
    /\ \A p, q \in Pool : \A i \in 1 .. Len(memPool[p]), j \in 1 .. Len(memPool[q]) :
          memPool[p][i] = memPool[q][j] => p = q /\ i = j
    /\ None \notin Task \cup Mesg \cup Nat
    /\ ANY \notin Task

VARIABLES
    part,            \* the partition of each pool
    waitingQueue,    \* RK_MEM_PARTITION.waitingQueue
    state,           \* RK_MESG.state
    owner,           \* RK_MESG.owner, and with it TCB.asynchMesgOwnedList
    sender,          \* RK_MESG.sender
    asynchMesgInit,  \* the tasks with an endpoint
    asynchMesgQueue, \* TCB.asynchMesgQueue
    priority,        \* TCB.priority
    status,          \* TCB.status; RECEIVING: in its own asynchMesgWaiters
    armed,           \* the tasks whose timeout node is armed
    timeOut,         \* TCB.timeOut
    call,            \* the call a task is suspended in
    mesgPtr,         \* what that call's *mesgPtrPtr holds
    hands            \* ghost: the messages a task's code got and has not passed on

mesgVars == <<part, waitingQueue, state, owner, sender, asynchMesgQueue>>
taskVars == <<asynchMesgInit, priority, status, armed, timeOut, call, mesgPtr, hands>>
vars == <<mesgVars, taskVars>>

NoCall == [op |-> "none"]
Alloc(p, timed) == [op |-> "alloc", pool |-> p, timed |-> timed]
Receive(from, timed) == [op |-> "wait", from |-> from, timed |-> timed]

CallRec == {NoCall} \cup {Alloc(p, b) : p \in Pool, b \in BOOLEAN}
                    \cup {Receive(f, b) : f \in Filter, b \in BOOLEAN}

PoolOf(m) == CHOOSE p \in Pool : Contains(memPool[p], m)

MesgTypeOK ==
    /\ \A p \in Pool : /\ part[p].nFreeBlocks = Len(part[p].freeList)
                       /\ part[p].freeList \in Seq({m \in Mesg : PoolOf(m) = p})
    /\ waitingQueue \in [Pool -> Seq(Task)]
    /\ state \in [Mesg -> {"FREE", "ALLOCATED", "QUEUED", "RECEIVED"}]
    /\ owner \in [Mesg -> Task \cup {None}]
    /\ sender \in [Mesg -> Task \cup {None}]
    /\ asynchMesgInit \subseteq Endpoint
    /\ asynchMesgQueue \in [Task -> Seq(Mesg)]
    /\ priority \in [Task -> Nat]
    /\ status \in [Task -> {"READY", "BLOCKED", "RECEIVING"}]
    /\ armed \subseteq Task
    /\ timeOut \in [Task -> BOOLEAN]
    /\ call \in [Task -> CallRec]
    /\ mesgPtr \in [Task -> Mesg \cup {None}]
    /\ hands \in [Task -> SUBSET Mesg]

Calls(t) == status[t] = "READY" /\ call[t] = NoCall
Resumes(t, op) == status[t] = "READY" /\ call[t].op = op

(***************************************************************************)
(* Ownership and the ceiling it brings.                                    *)
(***************************************************************************)

(* kTaskAsynchMesgCeilingPrio_: the best of the ceilings of the pools whose *)
(* messages t owns, and of its own priority.                                *)
CeilingPrio(own, t) ==
    LET ceilings == {ceiling[PoolOf(m)] : m \in {m \in Mesg : own[m] = t}} IN
    Min({prioNominal[t]} \cup (ceilings \ {None}))

(* kTaskUpdateEffectivePrioChain: of a task whose priority changes while   *)
(* it waits for a buffer the place in the queue changes, too.              *)
(* Fault: it stays where it is.                                            *)
RequeueNever(q, t, prio) == q

Requeue(q, t, prio) ==
    IF Len(q) > 1 /\ Contains(q, t) /\ prio[t] # priority[t]
      THEN TCBQEnqByPrio(TCBQRem(q, t), t, prio) ELSE q

(* kMesgSetOwner_: the message changes hands, and the priorities of the    *)
(* old and the new owner are calculated again; q[p] are the waiting queues *)
(* once those who need not wait any more are out.                          *)
(* Fault: what the old owner needs no longer is not taken back.            *)
SetOwnerRaises(m, new, q) ==
    /\ owner' = [owner EXCEPT ![m] = new]
    /\ priority' = [t \in Task |-> IF t = new THEN CeilingPrio(owner', t) ELSE priority[t]]
    /\ waitingQueue' = [p \in Pool |-> Requeue(q[p], new, priority')]

SetOwner(m, new, q) ==
    LET touched == {owner[m], new} \ {None} IN
    /\ owner' = [owner EXCEPT ![m] = new]
    /\ priority' = [t \in Task |-> IF t \in touched /\ owner[m] # new
                                     THEN CeilingPrio(owner', t) ELSE priority[t]]
    /\ waitingQueue' = [p \in Pool |-> Requeue(q[p], new, priority')]

(***************************************************************************)
(* Waiting and waking.                                                     *)
(***************************************************************************)

Suspend(t, c, st) ==
    /\ status' = [status EXCEPT ![t] = st]
    /\ call' = [call EXCEPT ![t] = c]
    /\ armed' = IF c.timed THEN armed \cup {t} ELSE armed
    /\ timeOut' = IF c.timed THEN [timeOut EXCEPT ![t] = FALSE] ELSE timeOut

(* A waiting task is given m, its timeout disarmed.                        *)
(* Fault: the timeout goes on.                                             *)
GrantArmed(t, m) ==
    /\ status' = [status EXCEPT ![t] = "READY"]
    /\ mesgPtr' = [mesgPtr EXCEPT ![t] = m]
    /\ UNCHANGED armed

Grant(t, m) ==
    /\ status' = [status EXCEPT ![t] = "READY"]
    /\ mesgPtr' = [mesgPtr EXCEPT ![t] = m]
    /\ armed' = armed \ {t}

(* It executes again and returns with m. *)
ReturnWith(t) ==
    /\ hands' = [hands EXCEPT ![t] = @ \cup {mesgPtr[t]}]
    /\ mesgPtr' = [mesgPtr EXCEPT ![t] = None]
    /\ call' = [call EXCEPT ![t] = NoCall]
    /\ UNCHANGED <<mesgVars, asynchMesgInit, priority, status, armed, timeOut>>

(***************************************************************************)
(* Operations.                                                             *)
(***************************************************************************)

(* kMesgEndpointInit *)
EndpointInit(t) ==
    /\ t \notin asynchMesgInit
    /\ asynchMesgInit' = asynchMesgInit \cup {t}
    /\ UNCHANGED <<mesgVars, priority, status, armed, timeOut, call, mesgPtr, hands>>

(* kMesgInitAllocatedBuf_, of kMesgAllocFromPool_ *)
AllocFromPool(t, p) ==
    LET m == AllocPtr(part[p]) IN
    /\ Calls(t)
    /\ CanAlloc(part[p])
    /\ part' = [part EXCEPT ![p] = AllocRest(@)]
    /\ state' = [state EXCEPT ![m] = "ALLOCATED"]
    /\ sender' = [sender EXCEPT ![m] = None]
    /\ SetOwner(m, t, waitingQueue)
    /\ hands' = [hands EXCEPT ![t] = @ \cup {m}]
    /\ UNCHANGED <<asynchMesgInit, asynchMesgQueue, status, armed, timeOut, call, mesgPtr>>

(* kMesgAlloc on an empty pool: wait. *)
AllocBlock(t, p, timed) ==
    /\ Calls(t)
    /\ ~CanAlloc(part[p])
    /\ Suspend(t, Alloc(p, timed), "BLOCKED")
    /\ waitingQueue' = [waitingQueue EXCEPT ![p] = TCBQEnqByPrio(@, t, priority)]
    /\ UNCHANGED <<part, state, owner, sender, asynchMesgInit, asynchMesgQueue,
                   priority, mesgPtr, hands>>

(* It is woken only with a buffer or by its timeout: the loop ends here. *)
AllocResume(t) ==
    /\ Resumes(t, "alloc")
    /\ ~timeOut[t]
    /\ ReturnWith(t)

(* kMesgFree with nobody waiting: back into the partition. *)
FreeToPool(m) ==
    /\ SetOwner(m, None, waitingQueue)
    /\ state' = [state EXCEPT ![m] = "FREE"]
    /\ part' = [part EXCEPT ![PoolOf(m)] = FreeBlock(@, m)]
    /\ UNCHANGED <<status, armed, mesgPtr>>

(* kMesgHandoffToWaitingAllocator_ *)
HandoffToWaitingAllocator(m) ==
    LET p == PoolOf(m)
        allocator == Head(waitingQueue[p])
    IN  /\ SetOwner(m, allocator, [waitingQueue EXCEPT ![p] = Tail(@)])
        /\ state' = [state EXCEPT ![m] = "ALLOCATED"]
        /\ Grant(allocator, m)
        /\ UNCHANGED part

(* kMesgFree.                                                              *)
Freed(m) ==
    IF waitingQueue[PoolOf(m)] = <<>> THEN FreeToPool(m) ELSE HandoffToWaitingAllocator(m)

Free(t, m) ==
    /\ Calls(t)
    /\ m \in hands[t]
    /\ state[m] \in {"ALLOCATED", "RECEIVED"}
    /\ ~FreeRefused(part[PoolOf(m)], m)
    /\ Freed(m)
    /\ sender' = [sender EXCEPT ![m] = None]
    /\ hands' = [hands EXCEPT ![t] = @ \ {m}]
    /\ UNCHANGED <<asynchMesgInit, asynchMesgQueue, timeOut, call>>

(* kMesgSenderMatches_ *)
SenderMatches(from, t) == from = ANY \/ from = t

(* kMesgDeliverToWaiter_: the receiver waits for a message from t.         *)
Delivers(to, t) == status[to] = "RECEIVING" /\ SenderMatches(call[to].from, t)

(* kMesgSend *)
Send(t, m, to) ==
    /\ Calls(t)
    /\ m \in hands[t]
    /\ state[m] \in {"ALLOCATED", "RECEIVED"}
    /\ to \in asynchMesgInit
    /\ sender' = [sender EXCEPT ![m] = t]
    /\ SetOwner(m, to, waitingQueue)
    /\ IF Delivers(to, t)
         THEN /\ Grant(to, m)
              /\ state' = [state EXCEPT ![m] = "RECEIVED"]
              /\ UNCHANGED asynchMesgQueue
         ELSE /\ state' = [state EXCEPT ![m] = "QUEUED"]
              /\ asynchMesgQueue' = [asynchMesgQueue EXCEPT ![to] = Append(@, m)]
              /\ UNCHANGED <<status, armed, mesgPtr>>
    /\ hands' = [hands EXCEPT ![t] = @ \ {m}]
    /\ UNCHANGED <<part, asynchMesgInit, timeOut, call>>

(* Where in the mailbox of t there is a message it would take. *)
Matching(t, from) ==
    {i \in 1 .. Len(asynchMesgQueue[t]) : SenderMatches(from, sender[asynchMesgQueue[t][i]])}

(* kMesgWait: a message that waits already is taken (kMesgDequeueMatching_) *)
(* Fault: of those that match, the last.                                    *)
DequeueLastMatching(t, from) == Max(Matching(t, from))

DequeueMatching(t, from) == Min(Matching(t, from))

WaitTake(t, from) ==
    LET i == DequeueMatching(t, from)
        m == asynchMesgQueue[t][i]
    IN  /\ Calls(t)
        /\ t \in asynchMesgInit
        /\ Matching(t, from) # {}
        /\ asynchMesgQueue' = [asynchMesgQueue EXCEPT ![t] = RemoveAt(@, i)]
        /\ state' = [state EXCEPT ![m] = "RECEIVED"]
        /\ hands' = [hands EXCEPT ![t] = @ \cup {m}]
        /\ UNCHANGED <<part, waitingQueue, owner, sender, asynchMesgInit, priority, status,
                       armed, timeOut, call, mesgPtr>>

WaitBlock(t, from, timed) ==
    /\ Calls(t)
    /\ t \in asynchMesgInit
    /\ Matching(t, from) = {}
    /\ Suspend(t, Receive(from, timed), "RECEIVING")
    /\ UNCHANGED <<mesgVars, asynchMesgInit, priority, mesgPtr, hands>>

WaitResume(t) ==
    /\ Resumes(t, "wait")
    /\ ~timeOut[t]
    /\ ReturnWith(t)

(* The tick finds the wait of t expired (kTimeoutNodeReady). *)
Expire(t) ==
    /\ t \in armed
    /\ armed' = armed \ {t}
    /\ status' = [status EXCEPT ![t] = "READY"]
    /\ timeOut' = [timeOut EXCEPT ![t] = TRUE]
    /\ waitingQueue' = [p \in Pool |-> TCBQRem(waitingQueue[p], t)]
    /\ UNCHANGED <<part, state, owner, sender, asynchMesgInit, asynchMesgQueue, priority,
                   call, mesgPtr, hands>>

(* RK_ERR_TIMEOUT *)
Timeout(t) ==
    /\ Resumes(t, "alloc") \/ Resumes(t, "wait")
    /\ timeOut[t]
    /\ timeOut' = [timeOut EXCEPT ![t] = FALSE]
    /\ call' = [call EXCEPT ![t] = NoCall]
    /\ UNCHANGED <<mesgVars, asynchMesgInit, priority, status, armed, mesgPtr, hands>>

MesgInit ==
    /\ part = [p \in Pool |-> PartitionInit(memPool[p])]
    /\ waitingQueue = [p \in Pool |-> <<>>]
    /\ state = [m \in Mesg |-> "FREE"]
    /\ owner = [m \in Mesg |-> None]
    /\ sender = [m \in Mesg |-> None]
    /\ asynchMesgInit = {}
    /\ asynchMesgQueue = [t \in Task |-> <<>>]
    /\ priority = prioNominal
    /\ status = [t \in Task |-> "READY"]
    /\ armed = {}
    /\ timeOut = [t \in Task |-> FALSE]
    /\ call = [t \in Task |-> NoCall]
    /\ mesgPtr = [t \in Task |-> None]
    /\ hands = [t \in Task |-> {}]

MesgNext ==
    \E t \in Task :
        \/ t \in Endpoint /\ EndpointInit(t)
        \/ \E p \in Pool : AllocFromPool(t, p) \/ \E timed \in BOOLEAN : AllocBlock(t, p, timed)
        \/ AllocResume(t) \/ WaitResume(t) \/ Expire(t) \/ Timeout(t)
        \/ \E m \in Mesg : Free(t, m) \/ \E to \in Task : Send(t, m, to)
        \/ \E from \in Filter :
              WaitTake(t, from) \/ \E timed \in BOOLEAN : WaitBlock(t, from, timed)

MesgSpec == MesgInit /\ [][MesgNext]_vars

(***************************************************************************)
(* Properties.                                                             *)
(***************************************************************************)

(* A task runs at the best ceiling among the messages it owns, queued ones *)
(* included, and at its own priority again once it owns none: across       *)
(* hand-offs to waiting allocators, sends, and waits that expire.          *)
CeilingHeld == priority = [t \in Task |-> CeilingPrio(owner, t)]

(* The allocators that wait are in the order of their priorities of now,   *)
(* also when a message sent to one of them raised it as it waited; and     *)
(* nobody waits while the pool has a buffer.                               *)
AllocatorsInOrder ==
    \A p \in Pool :
        /\ \A i, j \in 1 .. Len(waitingQueue[p]) :
              i < j => priority[waitingQueue[p][i]] <= priority[waitingQueue[p][j]]
        /\ waitingQueue[p] # <<>> => ~CanAlloc(part[p])

(* No buffer leaks and none has two users: what a task owns and has been   *)
(* taken from a pool or a queue is known to its code, or will be when the  *)
(* call it is suspended in returns, which does then not report a timeout.  *)
(* And every variable keeps its type.                                      *)
NoLeak ==
    /\ MesgTypeOK
    /\ \A m \in Mesg :
          /\ state[m] = "FREE" <=> Contains(part[PoolOf(m)].freeList, m)
          /\ state[m] \in {"ALLOCATED", "RECEIVED"} =>
                \A t \in Task :
                    (m \in hands[t] \/ (mesgPtr[t] = m /\ ~timeOut[t])) <=> t = owner[m]

(* Buffers travel as RK0Post says: from the hands of one task to those of  *)
(* another, in the order they were sent, past any filter on the sender.    *)
Holder(m) == IF state[m] \in {"ALLOCATED", "RECEIVED"} THEN owner[m] ELSE None

Posted == INSTANCE RK0Post
    WITH Nobody <- None,
         holder <- [m \in Mesg |-> Holder(m)],
         origin <- sender,
         mail <- asynchMesgQueue

ImplementsPost == Posted!PostSpec
=============================================================================
