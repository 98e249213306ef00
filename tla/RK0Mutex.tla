------------------------------ MODULE RK0Mutex ------------------------------
(***************************************************************************)
(* Mutexes with priority inheritance, their timeouts, and the scheduler    *)
(* they drive: core/src/kmutex.c, the mutex part of the effective-priority *)
(* code of core/src/ksch.c, and the expiry of a task's timeout node in     *)
(* core/src/ktimer.c.                                                      *)
(*                                                                         *)
(* kTaskUpdateEffectivePrioChain is a loop over the owners of a wait chain *)
(* inside a critical section.  One pass of the loop is the action          *)
(* ChainStep; section names the critical section in progress, and no other *)
(* action is enabled until that section has been left (section = "open").  *)
(* How many ticks a timeout still has to run belongs to the delta list:    *)
(* here an armed node may be found expired by any tick.                    *)
(***************************************************************************)
EXTENDS RK0Sched

CONSTANTS
    Mutex,      \* the mutexes that were initialised
    NoMutex,    \* the NULL mutex pointer, and the NULL waiting queue
    Inheriting, \* the mutexes initialised with RK_PRIO_INHERITANCE
    Queue       \* the waiting queues of other objects, whose waits expire alike

ASSUME MutexAssumption ==
    /\ NoMutex \notin Mutex
    /\ Inheriting \subseteq Mutex
    /\ Queue \cap (Mutex \cup {NoMutex}) = {}

VARIABLES
    lock,              \* RK_MUTEX.lock
    ownerPtr,          \* RK_MUTEX.ownerPtr
    waitingQueue,      \* RK_MUTEX.waitingQueue, and those of other objects
    ownedMutexList,    \* TCB.ownedMutexList, as a set
    waitingForMutexPtr,\* TCB.waitingForMutexPtr
    timeoutType,       \* TCB.timeoutNode.timeoutType; a node is armed iff not "none"
    waitingQueuePtr,   \* TCB.timeoutNode.waitingQueuePtr, as the object of the queue
    timeOut,           \* TCB.timeOut
    lockCall,          \* the mutex of the kMutexLock call a task is suspended in
    section,           \* the critical section in progress
    chainPtr,          \* currTcbPtr of kTaskUpdateEffectivePrioChain, NoTask outside it
    wakePtr            \* the task the section makes ready at its end

mutexVars   == <<lock, ownerPtr, waitingQueue, ownedMutexList, waitingForMutexPtr>>
timeoutVars == <<timeoutType, waitingQueuePtr, timeOut>>
sectionVars == <<section, chainPtr, wakePtr>>
vars == <<schedVars, mutexVars, timeoutVars, lockCall, sectionVars>>

Section == {"open", "lock", "expired", "unlock", "give", "tick", "ticked", "expire"}

TypeOK ==
    /\ SchedTypeOK
    /\ lock \in [Mutex -> BOOLEAN]
    /\ ownerPtr \in [Mutex -> Task \cup {NoTask}]
    /\ waitingQueue \in [Mutex \cup Queue -> Seq(Task)]
    /\ ownedMutexList \in [Task -> SUBSET Mutex]
    /\ waitingForMutexPtr \in [Task -> Mutex \cup {NoMutex}]
    /\ timeoutType \in [Task -> {"none", "BLOCKING", "TIME_EVENT"}]
    /\ waitingQueuePtr \in [Task -> Mutex \cup Queue \cup {NoMutex}]
    /\ timeOut \in [Task -> BOOLEAN]
    /\ lockCall \in [Task -> Mutex \cup {NoMutex}]
    /\ section \in Section
    /\ chainPtr \in Task \cup {NoTask}
    /\ wakePtr \in Task \cup {NoTask}

(* The running task executes its own code: no section is open and PendSV,  *)
(* which would run first, is not pending.  Idle calls no service.          *)
Executing == section = "open" /\ ~pendSV /\ runPtr # Idle

(* ... and it is not about to return from a kMutexLock it was blocked in.  *)
Calling == Executing /\ lockCall[runPtr] = NoMutex

(***************************************************************************)
(* Effective priority.                                                     *)
(***************************************************************************)

(* kTaskOwnedMutexPipPrio_: currentPrio, or the best of the heads of the   *)
(* queues of the PI mutexes t owns.                                        *)
OwnedMutexPipPrio(t, currentPrio) ==
    Min({currentPrio} \cup
        {priority[Head(waitingQueue[m])] :
            m \in {n \in ownedMutexList[t] \cap Inheriting : waitingQueue[n] # <<>>}})

(* kTaskCalcEffectivePrio_, of which this module has the first protocol. *)
EffectivePrio(t) == OwnedMutexPipPrio(t, Nominal[t])

(* Fault: a waiter keeps the place its old priority gave it. *)
RequeueNever(t, prio) == UNCHANGED waitingQueue

(* kTaskRequeueWaiterByPrio_: t moves to its place in the queue it is      *)
(* linked in, prio giving the new priorities.                              *)
Requeue(t, prio) ==
    LET m == waitingQueuePtr[t] IN
    IF m # NoMutex /\ Contains(waitingQueue[m], t) /\ Len(waitingQueue[m]) > 1
      THEN waitingQueue' = [waitingQueue EXCEPT
                              ![m] = TCBQEnqByPrio(TCBQRem(@, t), t, prio)]
      ELSE UNCHANGED waitingQueue

(* Where the loop goes after t, which now needs priority p: to the owner   *)
(* of the PI mutex t is blocked on, if t had another priority before.      *)
(* Fault: it does not stop at a task that changes no more.                 *)
NextInChainAlways(t, p) ==
    LET m == waitingForMutexPtr[t] IN
    IF status[t] = "BLOCKED" /\ m \in Inheriting THEN ownerPtr[m] ELSE NoTask

NextInChain(t, p) ==
    LET m == waitingForMutexPtr[t] IN
    IF p # priority[t] /\ status[t] = "BLOCKED" /\ m \in Inheriting
      THEN ownerPtr[m]
      ELSE NoTask

(* One pass of the loop of kTaskUpdateEffectivePrioChain.                  *)
ChainStep ==
    /\ chainPtr # NoTask
    /\ LET t == chainPtr
           p == EffectivePrio(t)
       IN  /\ chainPtr' = NextInChain(t, p)
           /\ \/ /\ p = priority[t]
                 /\ UNCHANGED <<schedVars, waitingQueue>>
              \/ /\ p # priority[t]
                 /\ UpdateEffectivePrio(t, p)
                 /\ Requeue(t, [priority EXCEPT ![t] = p])
                 /\ UNCHANGED <<status, tcbSchLock, runPtr, schLock>>
    /\ UNCHANGED <<lock, ownerPtr, ownedMutexList, waitingForMutexPtr, timeoutVars,
                   lockCall, section, wakePtr>>

(* Fault: no inheritance. *)
OwnerPrioChainNone(m, t) == NoTask

(* The call of kMutexUpdateOwnerPrio_(t), which the code makes when m has  *)
(* inheritance.                                                            *)
OwnerPrioChain(m, t) == IF m \in Inheriting THEN t ELSE NoTask

Enter(s, chain, wake) == section' = s /\ chainPtr' = chain /\ wakePtr' = wake

Leave == section' = "open" /\ chainPtr' = NoTask /\ wakePtr' = NoTask

(***************************************************************************)
(* kMutexLock.                                                             *)
(***************************************************************************)
LockFree(m) ==
    /\ Calling
    /\ ~lock[m]
    /\ lock' = [lock EXCEPT ![m] = TRUE]
    /\ ownerPtr' = [ownerPtr EXCEPT ![m] = runPtr]
    /\ ownedMutexList' = [ownedMutexList EXCEPT ![runPtr] = @ \cup {m}]
    /\ UNCHANGED <<schedVars, waitingQueue, waitingForMutexPtr, timeoutVars, lockCall,
                   sectionVars>>

(* The mutex is held by another task and the caller is willing to wait, in *)
(* a call with a bounded timeout (timed) or RK_WAIT_FOREVER.  A caller that *)
(* yielded under the scheduler lock is still linked in a ready queue: to   *)
(* block in this state is left to the callers' discipline.                 *)
LockBlock(m, timed) ==
    /\ Calling
    /\ status[runPtr] = "RUNNING"
    /\ lock[m] /\ ownerPtr[m] \notin {runPtr, NoTask}
    /\ waitingQueuePtr' = [waitingQueuePtr EXCEPT ![runPtr] = m]
    /\ timeoutType' = [timeoutType EXCEPT ![runPtr] = IF timed THEN "BLOCKING" ELSE @]
    /\ timeOut' = [timeOut EXCEPT ![runPtr] = IF timed THEN FALSE ELSE @]
    /\ waitingQueue' = [waitingQueue EXCEPT ![m] = TCBQEnqByPrio(@, runPtr, priority)]
    /\ status' = [status EXCEPT ![runPtr] = "BLOCKED"]
    /\ waitingForMutexPtr' = [waitingForMutexPtr EXCEPT ![runPtr] = m]
    /\ lockCall' = [lockCall EXCEPT ![runPtr] = m]
    /\ Enter("lock", OwnerPrioChain(m, ownerPtr[m]), NoTask)
    /\ UNCHANGED <<priority, tcbSchLock, readyQueue, readyBitmask, runPtr, schLock,
                   swtchVars, lock, ownerPtr, ownedMutexList>>

(* ... its last statement before the processor is given up. *)
LockPend ==
    /\ section = "lock" /\ chainPtr = NoTask
    /\ PendCtxSwtch(status[runPtr])
    /\ Leave
    /\ UNCHANGED <<status, priority, tcbSchLock, readyQueue, readyBitmask, runPtr, schLock,
                   mutexVars, timeoutVars, lockCall>>

(* The blocked caller executes again.  Either its timeout expired, and the *)
(* owner's priority is brought up to date once more before the call fails, *)
(* or the mutex was handed to it.                                          *)
LockResumeExpired ==
    /\ Executing /\ lockCall[runPtr] # NoMutex
    /\ timeOut[runPtr]
    /\ LET m == lockCall[runPtr] IN Enter("expired", OwnerPrioChain(m, ownerPtr[m]), NoTask)
    /\ UNCHANGED <<schedVars, mutexVars, timeoutVars, lockCall>>

(* Fault: timeOut is left for the next call to find. *)
LockTimeoutStale ==
    /\ section = "expired" /\ chainPtr = NoTask
    /\ waitingForMutexPtr' = [waitingForMutexPtr EXCEPT ![runPtr] = NoMutex]
    /\ lockCall' = [lockCall EXCEPT ![runPtr] = NoMutex]
    /\ Leave
    /\ UNCHANGED <<schedVars, lock, ownerPtr, waitingQueue, ownedMutexList, timeoutVars>>

LockTimeout ==
    /\ section = "expired" /\ chainPtr = NoTask
    /\ timeOut' = [timeOut EXCEPT ![runPtr] = FALSE]
    /\ waitingForMutexPtr' = [waitingForMutexPtr EXCEPT ![runPtr] = NoMutex]
    /\ lockCall' = [lockCall EXCEPT ![runPtr] = NoMutex]
    /\ Leave
    /\ UNCHANGED <<schedVars, lock, ownerPtr, waitingQueue, ownedMutexList, timeoutType,
                   waitingQueuePtr>>

LockSuccess ==
    /\ Executing /\ lockCall[runPtr] # NoMutex
    /\ ~timeOut[runPtr]
    /\ lockCall' = [lockCall EXCEPT ![runPtr] = NoMutex]
    /\ IF timeoutType[runPtr] = "BLOCKING"
         THEN /\ timeoutType' = [timeoutType EXCEPT ![runPtr] = "none"]
              /\ waitingQueuePtr' = [waitingQueuePtr EXCEPT ![runPtr] = NoMutex]
         ELSE UNCHANGED <<timeoutType, waitingQueuePtr>>
    /\ UNCHANGED <<schedVars, mutexVars, timeOut, sectionVars>>

(***************************************************************************)
(* kMutexUnlock.                                                           *)
(***************************************************************************)
UnlockFree(m) ==
    /\ Calling
    /\ lock[m] /\ ownerPtr[m] = runPtr
    /\ waitingQueue[m] = <<>>
    /\ ownedMutexList' = [ownedMutexList EXCEPT ![runPtr] = @ \ {m}]
    /\ lock' = [lock EXCEPT ![m] = FALSE]
    /\ ownerPtr' = [ownerPtr EXCEPT ![m] = NoTask]
    /\ Enter("unlock", OwnerPrioChain(m, runPtr), NoTask)
    /\ UNCHANGED <<schedVars, waitingQueue, waitingForMutexPtr, timeoutVars, lockCall>>

(* The new owner's timeout is disarmed.  Fault: it stays armed. *)
DisarmNever(w) ==
    /\ waitingQueuePtr' = [waitingQueuePtr EXCEPT ![w] = NoMutex]
    /\ UNCHANGED timeoutType

Disarm(w) ==
    /\ timeoutType' = [timeoutType EXCEPT ![w] = IF @ = "BLOCKING" THEN "none" ELSE @]
    /\ waitingQueuePtr' = [waitingQueuePtr EXCEPT ![w] = NoMutex]

(* m leaves the list of the caller for the one of w.  Fault: it is in both. *)
GiveMutexTwice(m, w) ==
    /\ ownerPtr' = [ownerPtr EXCEPT ![m] = w]
    /\ ownedMutexList' = [ownedMutexList EXCEPT ![w] = @ \cup {m}]

GiveMutex(m, w) ==
    /\ ownerPtr' = [ownerPtr EXCEPT ![m] = w]
    /\ ownedMutexList' = [ownedMutexList EXCEPT ![runPtr] = @ \ {m}, ![w] = @ \cup {m}]

(* With waiters the mutex is never free: its head waiter becomes the owner. *)
UnlockHandOff(m) ==
    LET w == Head(waitingQueue[m]) IN
    /\ Calling
    /\ lock[m] /\ ownerPtr[m] = runPtr
    /\ waitingQueue[m] # <<>>
    /\ waitingQueue' = [waitingQueue EXCEPT ![m] = Tail(@)]
    /\ Disarm(w)
    /\ GiveMutex(m, w)
    /\ waitingForMutexPtr' = [waitingForMutexPtr EXCEPT ![w] = NoMutex]
    /\ IF m \in Inheriting THEN Enter("unlock", runPtr, w) ELSE Enter("give", NoTask, w)
    /\ UNCHANGED <<schedVars, lock, timeOut, lockCall>>

(* The caller's priority is settled; next the one of the new owner. *)
UnlockUpdateNewOwner ==
    /\ section = "unlock" /\ chainPtr = NoTask /\ wakePtr # NoTask
    /\ Enter("give", wakePtr, wakePtr)
    /\ UNCHANGED <<schedVars, mutexVars, timeoutVars, lockCall>>

UnlockReady ==
    /\ section = "give" /\ chainPtr = NoTask
    /\ ReadySwtch(wakePtr)
    /\ Leave
    /\ UNCHANGED <<priority, tcbSchLock, runPtr, schLock, mutexVars, timeoutVars, lockCall>>

UnlockDone ==
    /\ section = "unlock" /\ chainPtr = NoTask /\ wakePtr = NoTask
    /\ Leave
    /\ UNCHANGED <<schedVars, mutexVars, timeoutVars, lockCall>>

(***************************************************************************)
(* Delays and timeouts.                                                    *)
(***************************************************************************)

(* kSleepDelay, which refuses a caller that is not RUNNING. *)
SleepDelay ==
    /\ Calling
    /\ status[runPtr] = "RUNNING"
    /\ timeoutType' = [timeoutType EXCEPT ![runPtr] = "TIME_EVENT"]
    /\ timeOut' = [timeOut EXCEPT ![runPtr] = FALSE]
    /\ status' = [status EXCEPT ![runPtr] = "SLEEPING_DELAY"]
    /\ PendCtxSwtch("SLEEPING_DELAY")
    /\ UNCHANGED <<priority, tcbSchLock, readyQueue, readyBitmask, runPtr, schLock,
                   mutexVars, waitingQueuePtr, lockCall, sectionVars>>

(* kTickHandler; the passes of kHandleTimeoutList follow, each readying the *)
(* task of a node that reached zero (kTimeoutNodeReady).                   *)
Tick ==
    /\ section = "open"
    /\ Enter("tick", NoTask, NoTask)
    /\ UNCHANGED <<schedVars, mutexVars, timeoutVars, lockCall>>

(* kTimeoutNodeReset.  Fault: the type is kept. *)
NodeResetPartly(t) ==
    /\ waitingQueuePtr' = [waitingQueuePtr EXCEPT ![t] = NoMutex]
    /\ UNCHANGED timeoutType

NodeReset(t) ==
    /\ timeoutType' = [timeoutType EXCEPT ![t] = "none"]
    /\ waitingQueuePtr' = [waitingQueuePtr EXCEPT ![t] = NoMutex]

(* The task of an expired node enters the ready queue. *)
ReadyExpired(t) ==
    /\ ReadyEnq(t, priority[t])
    /\ status' = [status EXCEPT ![t] = "READY"]
    /\ NodeReset(t)
    /\ Enter("ticked", NoTask, NoTask)
    /\ UNCHANGED <<priority, tcbSchLock, runPtr, schLock, swtchVars, mutexVars, lockCall>>

ExpireDelay(t) ==
    /\ section \in {"tick", "ticked"}
    /\ timeoutType[t] = "TIME_EVENT"
    /\ ReadyExpired(t)
    /\ UNCHANGED timeOut

(* kMutexTimeoutWaiter: the owner of the mutex t waits for loses a waiter. *)
(* Fault: it is not told.                                                  *)
TimeoutWaiterUntold(t) == NoTask

TimeoutWaiter(t) ==
    LET m == waitingForMutexPtr[t] IN
    IF m = NoMutex THEN NoTask ELSE OwnerPrioChain(m, ownerPtr[m])

(* The wait of t expired: first it leaves the waiting queue. *)
ExpireWait(t) ==
    /\ section \in {"tick", "ticked"}
    /\ timeoutType[t] = "BLOCKING"
    /\ waitingQueue' = [waitingQueue EXCEPT ![waitingQueuePtr[t]] = TCBQRem(@, t)]
    /\ Enter("expire", TimeoutWaiter(t), t)
    /\ UNCHANGED <<schedVars, lock, ownerPtr, ownedMutexList, waitingForMutexPtr, timeoutVars,
                   lockCall>>

ExpireReady ==
    /\ section = "expire" /\ chainPtr = NoTask
    /\ ReadyExpired(wakePtr)
    /\ timeOut' = [timeOut EXCEPT ![wakePtr] = TRUE]

TickEnd ==
    /\ section \in {"tick", "ticked"}
    /\ TickResched(section = "ticked")
    /\ Leave
    /\ UNCHANGED <<status, priority, tcbSchLock, readyQueue, readyBitmask, runPtr, schLock,
                   mutexVars, timeoutVars, lockCall>>

(***************************************************************************)
(* The scheduler's operations in this composition.                         *)
(***************************************************************************)
PendSV    == section = "open" /\ pendSV /\ Swtch
TaskCall  == Calling /\ (Yield \/ SchLock \/ SchUnlock)
SchedStep == /\ PendSV \/ TaskCall
             /\ UNCHANGED <<mutexVars, timeoutVars, lockCall, sectionVars>>

Init ==
    /\ SchedInit
    /\ lock = [m \in Mutex |-> FALSE]
    /\ ownerPtr = [m \in Mutex |-> NoTask]
    /\ waitingQueue = [q \in Mutex \cup Queue |-> <<>>]
    /\ ownedMutexList = [t \in Task |-> {}]
    /\ waitingForMutexPtr = [t \in Task |-> NoMutex]
    /\ timeoutType = [t \in Task |-> "none"]
    /\ waitingQueuePtr = [t \in Task |-> NoMutex]
    /\ timeOut = [t \in Task |-> FALSE]
    /\ lockCall = [t \in Task |-> NoMutex]
    /\ section = "open"
    /\ chainPtr = NoTask
    /\ wakePtr = NoTask

Lock == \/ \E m \in Mutex : LockFree(m) \/ (\E timed \in BOOLEAN : LockBlock(m, timed))
        \/ LockPend \/ LockResumeExpired \/ LockTimeout \/ LockSuccess

Unlock == \/ \E m \in Mutex : UnlockFree(m) \/ UnlockHandOff(m)
          \/ UnlockUpdateNewOwner \/ UnlockReady \/ UnlockDone

SysTick == \/ Tick \/ ExpireReady \/ TickEnd
           \/ \E t \in Task : ExpireDelay(t) \/ ExpireWait(t)

Next == Lock \/ Unlock \/ SleepDelay \/ SysTick \/ ChainStep \/ SchedStep

Spec == Init /\ [][Next]_vars

(***************************************************************************)
(* Correctness.  The invariants speak of the moments between two critical  *)
(* sections: inside one, interrupts are masked and nobody looks.           *)
(***************************************************************************)
Linked(q, t) == Cardinality({i \in DOMAIN q : q[i] = t})

(* A task's list node is linked exactly where its status says, once: in    *)
(* the ready queue of its effective priority, in the queue of the mutex it *)
(* waits for, or nowhere.  The node is moved by four parties: the task,    *)
(* the unlocking owner, the tick that expires its wait, and the priority   *)
(* chain.                                                                  *)
Placement ==
    section = "open" =>
        \A t \in Task :
            /\ \A p \in Prio : Linked(readyQueue[p], t) =
                   IF status[t] = "READY" /\ priority[t] = p THEN 1 ELSE 0
            /\ \A m \in Mutex : Linked(waitingQueue[m], t) =
                   IF status[t] = "BLOCKED" /\ waitingForMutexPtr[t] = m THEN 1 ELSE 0

(* The bitmask kSwtch trusts says of every tracked level whether its queue *)
(* is empty, and the switch it decides on always finds a task: "NULL READY *)
(* TASK POINTER" (kSwtch) is unreachable.                                  *)
DispatchNeverNull ==
    section = "open" =>
        /\ readyBitmask = {p \in Prio : p < BitmaskLimit /\ readyQueue[p] # <<>>}
        /\ pendSV => SwtchQueue[NextTaskPrio(SwtchBitmask)] # <<>>

(* The task that executes has a timeout node no list holds, so the         *)
(* K_PANICs of kTimeoutNodeAdd are unreachable from it, and no leftover    *)
(* queue pointer of an earlier wait.                                       *)
TimeoutNodeFree ==
    section = "open" /\ ~pendSV =>
        timeoutType[runPtr] = "none" /\ waitingQueuePtr[runPtr] = NoMutex

(* lock, ownerPtr and the owners' lists of mutexes agree, nobody waits for *)
(* a free mutex or for one it owns.                                        *)
OwnershipConsistent ==
    \A m \in Mutex :
        /\ lock[m] <=> ownerPtr[m] # NoTask
        /\ \A t \in Task : m \in ownedMutexList[t] <=> ownerPtr[m] = t
        /\ waitingQueue[m] # <<>> => lock[m] /\ ~Contains(waitingQueue[m], ownerPtr[m])

(* Every waiting queue is ordered by the priorities its tasks have now,    *)
(* although those change while they wait.                                  *)
WaitersSorted ==
    section = "open" =>
        \A m \in Mutex : \A i, j \in DOMAIN waitingQueue[m] :
            i < j => priority[waitingQueue[m][i]] <= priority[waitingQueue[m][j]]

(* The tasks t delays, directly (blocked on an inheriting mutex t owns) or *)
(* through other owners; with t.                                           *)
Delays(t) == {u \in Task : /\ status[u] = "BLOCKED"
                           /\ waitingForMutexPtr[u] \in Inheriting
                           /\ ownerPtr[waitingForMutexPtr[u]] = t}
Served(t) == {u \in Task : \A S \in SUBSET Task :
                  (t \in S /\ \A v \in S : Delays(v) \subseteq S) => u \in S}
DeadlockFeeds(t) == \E u \in Served(t) : \E w \in Delays(u) : u \in Served(w)

(* Priority inheritance is transitive and exact: a task runs at least at   *)
(* the nominal priority of every task it delays, and, unless those tasks   *)
(* deadlocked among themselves, at no more than that.  So an inherited     *)
(* priority is given back on unlock and when the waiter gives up.          *)
PriorityInherited ==
    section = "open" =>
        \A t \in Task :
            LET best == Min({Nominal[u] : u \in Served(t)})
            IN  priority[t] <= best /\ (DeadlockFeeds(t) \/ priority[t] = best)

(* No preemption is lost: while a ready task beats a preemptible running   *)
(* task, the switch is pending, or deferred to the last kSchUnlock.        *)
NoLostPreemption ==
    section = "open" /\ runPtr \in Preemptible /\ ~pendSV =>
        \A t \in Task : status[t] = "READY" /\ priority[t] < priority[runPtr] =>
            schLock > 0 /\ pendingCtxtSwtch

(* The processor is never left to a task that gave it up: a task that      *)
(* executes is RUNNING, or has yielded with the scheduler locked and will  *)
(* switch at the unlock.                                                   *)
RunnerIsRunnable ==
    section = "open" /\ ~pendSV =>
        \/ status[runPtr] = "RUNNING"
        \/ status[runPtr] = "READY" /\ schLock > 0 /\ pendingCtxtSwtch

(* What kMutexLock is about to answer is true: of a task that is no longer *)
(* blocked in it, timeOut is set exactly if it does not own the mutex; and *)
(* the flag of one call never reaches the next.                            *)
LockOutcomeTruthful ==
    section = "open" =>
        \A t \in Task :
            IF lockCall[t] = NoMutex THEN ~timeOut[t]
            ELSE status[t] # "BLOCKED" => (timeOut[t] <=> ownerPtr[lockCall[t]] # t)

(* A held mutex changes hands only by its owner's unlock, directly to a    *)
(* waiter no other waiter beats.                                           *)
HandOffToBest ==
    [][\A m \in Mutex :
         ownerPtr[m] # NoTask /\ ownerPtr'[m] \notin {ownerPtr[m], NoTask} =>
             /\ ownerPtr[m] = runPtr
             /\ Contains(waitingQueue[m], ownerPtr'[m])
             /\ \A t \in ToSet(waitingQueue[m]) : priority[ownerPtr'[m]] <= priority[t]]_vars

(* A task that wants to go on loses the processor only to a strictly       *)
(* better one, and never while it is non-preemptible or holds the          *)
(* scheduler lock.                                                         *)
PreemptedOnlyByBetter ==
    [][status[runPtr] = "RUNNING" /\ runPtr' # runPtr =>
         /\ runPtr \in Preemptible
         /\ schLock = 0
         /\ priority[runPtr'] < priority[runPtr]]_vars

(***************************************************************************)
(* The module implements RK0Lock.  How far a lock call is shows in the     *)
(* queue of the mutex and in timeOut, which the tick sets a little after   *)
(* it removed the waiter.                                                  *)
(***************************************************************************)
CallOf(t) ==
    IF lockCall[t] = NoMutex THEN "idle"
    ELSE IF Contains(waitingQueue[lockCall[t]], t) THEN "waiting"
    ELSE IF timeOut[t] \/ (section = "expire" /\ wakePtr = t) THEN "expired"
    ELSE "granted"

Promise == INSTANCE RK0Lock WITH
    owner  <- ownerPtr,
    wanted <- lockCall,
    call   <- [t \in Task |-> CallOf(t)]

(* Seen through that mapping every run of the code is one of RK0Lock: no   *)
(* owner is robbed, a released mutex with waiters goes to one of them, a   *)
(* waiter the tick removed never gets it, and only an owner returns        *)
(* success.                                                                *)
ImplementsLock == Promise!AbsSpec

(***************************************************************************)
(* Liveness.  Inside a critical section the processor just executes (weak  *)
(* fairness).  SysTick is periodic: it stays pended while interrupts are   *)
(* masked and is taken at the next chance, and so is PendSV; a node that   *)
(* is armed and not disarmed reaches zero (strong fairness).               *)
(***************************************************************************)
SectionStep == section # "open" /\ Next

FairSections == Spec /\ WF_vars(SectionStep)

(* Every critical section ends, the loop over the wait chain included,     *)
(* even when the application deadlocked and the chain is a cycle.          *)
SectionEnds == section # "open" ~> section = "open"

(* The application's part: a task that gets to execute again and again     *)
(* returns from kMutexLock, and an owner unlocks in the end.  The other    *)
(* tasks may do as they please, such as never give up the processor.       *)
FairSpec ==
    /\ FairSections
    /\ SF_vars(Tick)
    /\ SF_vars(PendSV /\ SchedStep)
    /\ \A t \in Task : SF_vars(ExpireDelay(t))
    /\ SF_vars(LockSuccess \/ LockResumeExpired)
    /\ SF_vars(\E m \in Mutex : UnlockFree(m) \/ UnlockHandOff(m))

(* No unbounded priority inversion: the task with the best priority, once  *)
(* blocked on an inheriting mutex, is let go on, whatever tasks of middle  *)
(* priority do.  (Of one mutex: with two the application may deadlock.)    *)
TopWaiterServed ==
    \A t \in Task : (\A u \in Task \ {t} : Nominal[t] < Nominal[u]) =>
        (status[t] = "BLOCKED" ~> status[t] # "BLOCKED")

=============================================================================
