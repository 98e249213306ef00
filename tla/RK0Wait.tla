------------------------------ MODULE RK0Wait -------------------------------
(***************************************************************************)
(* Semaphores (core/src/ksema.c), sleep queues and condition variables     *)
(* (core/src/ksleepq.c), with the mutexes and the scheduler.               *)
(*                                                                         *)
(* Their waiting queues are those RK0Mutex calls Queue.  A call that       *)
(* consists of several critical sections leaves a note of how far it is in *)
(* flow; between two of them interrupts are taken, and other tasks run     *)
(* unless the scheduler is locked.                                         *)
(***************************************************************************)
EXTENDS RK0Mutex

CONSTANTS
    Sema,      \* the semaphores
    SleepQ,    \* the sleep queues
    NoQueue,   \* no queue
    InitValue, \* the initial value of each semaphore
    MaxValue,  \* RK_SEMAPHORE.maxValue
    Debug      \* TRUE of a build without NDEBUG, in which K_PANIC halts

ASSUME WaitAssumption ==
    /\ Queue = Sema \cup SleepQ
    /\ Sema \cap SleepQ = {}
    /\ NoQueue \notin Mutex \cup Queue
    /\ MaxValue \in [Sema -> Nat \ {0}]
    /\ InitValue \in [Sema -> Nat]
    /\ \A s \in Sema : InitValue[s] <= MaxValue[s]
    /\ Debug \in BOOLEAN

VARIABLES
    value,    \* RK_SEMAPHORE.value
    waitCall, \* the semaphore or sleep queue of the call a task is suspended in
    flow      \* how far a task is in kCondVarWait or kSleepQueueWake

waitVars == <<value, waitCall, flow>>
allVars == <<vars, waitVars>>

(* The running task is about to take the given step of a call of several   *)
(* sections, or, at "none", is free to begin a call.                       *)
At(step) ==
    /\ Calling
    /\ waitCall[runPtr] = NoQueue
    /\ flow[runPtr].at = step

GoTo(step) == flow' = [flow EXCEPT ![runPtr].at = step]

NoFlow == [at |-> "none"]

Rest == <<priority, tcbSchLock, runPtr, schLock, mutexVars, lockCall, sectionVars>>
RestBut == <<priority, tcbSchLock, runPtr, schLock, lock, ownerPtr, ownedMutexList,
             waitingForMutexPtr, lockCall, sectionVars>>

(***************************************************************************)
(* The two halves of a wait, common to all these objects.                  *)
(***************************************************************************)

(* A task that enters q is no longer one of those a wake-up under way has  *)
(* still to wake (see due, below).                                         *)
NotDue(f, t) == [u \in Task |-> IF "due" \in DOMAIN f[u] THEN [f[u] EXCEPT !.due = @ \ {t}]
                                ELSE f[u]]

(* The caller waits in q, in state st.  Only a bounded wait sets the       *)
(* timeout node, and with it the pointer to the queue, and resets timeOut. *)
Suspend(q, timed, st) ==
    /\ status[runPtr] = "RUNNING"
    /\ timeoutType' = [timeoutType EXCEPT ![runPtr] = IF timed THEN "BLOCKING" ELSE @]
    /\ waitingQueuePtr' = [waitingQueuePtr EXCEPT ![runPtr] = IF timed THEN q ELSE @]
    /\ timeOut' = [timeOut EXCEPT ![runPtr] = IF timed THEN FALSE ELSE @]
    /\ status' = [status EXCEPT ![runPtr] = st]
    /\ waitingQueue' = [waitingQueue EXCEPT ![q] = TCBQEnqByPrio(@, runPtr, priority)]
    /\ waitCall' = [waitCall EXCEPT ![runPtr] = q]
    /\ PendCtxSwtch(st)
    /\ UNCHANGED <<RestBut, readyQueue, readyBitmask>>

(* It executes again, and reports a timeout if timeOut is set.             *)
Resume ==
    /\ Executing
    /\ waitCall[runPtr] # NoQueue
    /\ waitCall' = [waitCall EXCEPT ![runPtr] = NoQueue]
    /\ timeOut' = [timeOut EXCEPT ![runPtr] = FALSE]
    /\ IF ~timeOut[runPtr] /\ timeoutType[runPtr] = "BLOCKING"
         THEN NodeReset(runPtr)
         ELSE UNCHANGED <<timeoutType, waitingQueuePtr>>
    /\ flow' = IF flow[runPtr].at = "relock"
                 THEN [flow EXCEPT ![runPtr].expired = timeOut[runPtr]]
                 ELSE flow
    /\ UNCHANGED <<schedVars, mutexVars, lockCall, sectionVars, value>>

(* w leaves q and its timeout is disarmed.  Fault: it stays armed. *)
UnlinkArmed(w, q) ==
    /\ waitingQueue' = [waitingQueue EXCEPT ![q] = TCBQRem(@, w)]
    /\ UNCHANGED <<timeoutType, waitingQueuePtr>>

Unlink(w, q) ==
    /\ waitingQueue' = [waitingQueue EXCEPT ![q] = TCBQRem(@, w)]
    /\ IF timeoutType[w] = "BLOCKING"
         THEN NodeReset(w)
         ELSE UNCHANGED <<timeoutType, waitingQueuePtr>>

WakeSwtch(w, q) ==
    /\ Unlink(w, q)
    /\ ReadySwtch(w)
    /\ UNCHANGED <<RestBut, timeOut>>

(***************************************************************************)
(* Semaphores.  A binary semaphore is one with maxValue 1.                 *)
(***************************************************************************)

(* Without waiting a handler may pend, too. *)
PendTake(s) ==
    /\ section = "open"
    /\ value[s] > 0
    /\ value' = [value EXCEPT ![s] = @ - 1]
    /\ UNCHANGED <<vars, waitCall, flow>>

PendBlock(s, timed) ==
    /\ At("none")
    /\ value[s] = 0
    /\ Suspend(s, timed, "BLOCKED")
    /\ UNCHANGED <<value, flow>>

(* kSemaphorePost, by a task or in an interrupt handler, which may be      *)
(* taken whenever no critical section is open.  A full semaphore stays.    *)
(* Fault: a token is also added for the waiter.                            *)
PostWakeTwice(s) ==
    /\ section = "open"
    /\ waitingQueue[s] # <<>>
    /\ WakeSwtch(Head(waitingQueue[s]), s)
    /\ value' = [value EXCEPT ![s] = @ + 1]
    /\ UNCHANGED <<waitCall, flow>>

PostWake(s) ==
    /\ section = "open"
    /\ waitingQueue[s] # <<>>
    /\ WakeSwtch(Head(waitingQueue[s]), s)
    /\ UNCHANGED waitVars

PostCount(s) ==
    /\ section = "open"
    /\ waitingQueue[s] = <<>>
    /\ value[s] < MaxValue[s]
    /\ value' = [value EXCEPT ![s] = @ + 1]
    /\ UNCHANGED <<vars, waitCall, flow>>

(***************************************************************************)
(* Sleep queues.                                                           *)
(***************************************************************************)
Sleep(q, timed) ==
    /\ At("none")
    /\ Suspend(q, timed, "SLEEPING")
    /\ flow' = NotDue(flow, runPtr)
    /\ UNCHANGED value

(* kSleepQueueSignal wakes the head; kSleepQueueReady the task it is given, *)
(* which the caller vouches for to be in the queue.                        *)
Signal(q) ==
    /\ section = "open"
    /\ waitingQueue[q] # <<>>
    /\ WakeSwtch(Head(waitingQueue[q]), q)
    /\ UNCHANGED waitVars

SleepQueueReady(q, t) ==
    /\ section = "open"
    /\ Contains(waitingQueue[q], t)
    /\ WakeSwtch(t, q)
    /\ UNCHANGED waitVars

(* kSleepQueueUnready: a ready task is put to sleep. *)
Unready(q, t) ==
    LET rest == TCBQRem(readyQueue[priority[t]], t) IN
    /\ section = "open"
    /\ t \notin {runPtr, Idle, PostProc}
    /\ status[t] = "READY"
    /\ readyQueue' = [readyQueue EXCEPT ![priority[t]] = rest]
    /\ readyBitmask' = IF rest = <<>> THEN readyBitmask \ {priority[t]} ELSE readyBitmask
    /\ waitingQueue' = [waitingQueue EXCEPT ![q] = TCBQEnqByPrio(@, t, priority)]
    /\ status' = [status EXCEPT ![t] = "SLEEPQ_BLOCKED"]
    /\ flow' = NotDue(flow, t)
    /\ UNCHANGED <<RestBut, swtchVars, timeoutVars, value, waitCall>>

(* kSleepQueueWake for all tasks or for n.  The number of tasks to wake is *)
(* taken first; then the scheduler is locked, and each pass of the loop is *)
(* a critical section.  due is the tasks that slept when all were to be    *)
(* woken and have slept ever since.                                        *)
WakeStart(q, n) ==
    /\ At("none")
    /\ schLock < MaxSchLock
    /\ waitingQueue[q] # <<>>
    /\ flow' = [flow EXCEPT ![runPtr] =
                  [at     |-> "wakelock", q |-> q, chosen |-> NoTask,
                   left   |-> IF n = 0 THEN Len(waitingQueue[q])
                              ELSE Min({n, Len(waitingQueue[q])}),
                   due    |-> IF n = 0 THEN ToSet(waitingQueue[q]) ELSE {}]]
    /\ UNCHANGED <<vars, value, waitCall>>

LockCalls ==
    IF runPtr \in Preemptible THEN SchLock ELSE UNCHANGED schedVars

UnlockCalls ==
    IF schLock > 0 THEN SchUnlock ELSE UNCHANGED schedVars

WakeLock ==
    /\ At("wakelock")
    /\ LockCalls
    /\ GoTo("wake")
    /\ UNCHANGED <<mutexVars, timeoutVars, lockCall, sectionVars, value, waitCall>>

(* The woken task the preemption is decided for.  Fault: the last one. *)
ChosenLast(c, w) == w

Chosen(c, w) == IF c = NoTask THEN w ELSE IF priority[w] < priority[c] THEN w ELSE c

WakeNext ==
    LET f == flow[runPtr]
        w == Head(waitingQueue[f.q])
    IN  /\ At("wake")
        /\ f.left > 0 /\ waitingQueue[f.q] # <<>>
        /\ Unlink(w, f.q)
        /\ ReadyNoSwtch(w)
        /\ flow' = [flow EXCEPT ![runPtr].left = @ - 1,
                                ![runPtr].chosen = Chosen(@, w)]
        /\ UNCHANGED <<RestBut, timeOut, swtchVars, value, waitCall>>

WakeEnd ==
    LET f == flow[runPtr] IN
    /\ At("wake")
    /\ f.left = 0 \/ waitingQueue[f.q] = <<>>
    /\ IF f.chosen = NoTask THEN UNCHANGED swtchVars ELSE ReschedTask(priority[f.chosen])
    /\ GoTo("wakeunlock")
    /\ UNCHANGED <<Rest, status, readyQueue, readyBitmask, timeoutVars, value, waitCall>>

WakeUnlock ==
    /\ At("wakeunlock")
    /\ UnlockCalls
    /\ flow' = [flow EXCEPT ![runPtr] = NoFlow]
    /\ UNCHANGED <<mutexVars, timeoutVars, lockCall, sectionVars, value, waitCall>>

(***************************************************************************)
(* kCondVarWait: with the scheduler locked the caller releases m, sleeps   *)
(* in q, and takes m again.                                                *)
(***************************************************************************)

(* Fault: the scheduler is not locked. *)
CondWaitOpen(q, m, timed) ==
    /\ At("none")
    /\ schLock < MaxSchLock
    /\ status[runPtr] = "RUNNING"
    /\ ownerPtr[m] = runPtr
    /\ flow' = [flow EXCEPT ![runPtr] =
                  [at |-> "release", q |-> q, m |-> m, timed |-> timed, expired |-> FALSE]]
    /\ UNCHANGED <<vars, value, waitCall>>

CondWait(q, m, timed) ==
    /\ At("none")
    /\ schLock < MaxSchLock
    /\ status[runPtr] = "RUNNING"
    /\ ownerPtr[m] = runPtr
    /\ LockCalls
    /\ flow' = [flow EXCEPT ![runPtr] =
                  [at |-> "release", q |-> q, m |-> m, timed |-> timed, expired |-> FALSE]]
    /\ UNCHANGED <<mutexVars, timeoutVars, lockCall, sectionVars, value, waitCall>>

CondRelease ==
    /\ At("release")
    /\ LET m == flow[runPtr].m IN UnlockFree(m) \/ UnlockHandOff(m)
    /\ GoTo("sleep")
    /\ UNCHANGED <<value, waitCall>>

CondSleep ==
    /\ At("sleep")
    /\ Suspend(flow[runPtr].q, flow[runPtr].timed, "SLEEPING")
    /\ flow' = [NotDue(flow, runPtr) EXCEPT ![runPtr].at = "relock"]
    /\ UNCHANGED value

(* The deadline passed while the mutex was released. *)
CondTooLate ==
    /\ At("sleep")
    /\ flow[runPtr].timed
    /\ flow' = [flow EXCEPT ![runPtr].at = "relock", ![runPtr].expired = TRUE]
    /\ UNCHANGED <<vars, value, waitCall>>

(* Fault: after a timeout the mutex is not taken again. *)
CondRelockUnlessExpired ==
    /\ At("relock")
    /\ IF flow[runPtr].expired
         THEN UNCHANGED vars
         ELSE LET m == flow[runPtr].m IN LockFree(m) \/ LockBlock(m, FALSE)
    /\ GoTo("leave")
    /\ UNCHANGED <<value, waitCall>>

CondRelock ==
    /\ At("relock")
    /\ LET m == flow[runPtr].m IN LockFree(m) \/ LockBlock(m, FALSE)
    /\ GoTo("leave")
    /\ UNCHANGED <<value, waitCall>>

(* "Condition variable timed out": a debug build panics here. *)
CondLeave ==
    /\ At("leave")
    /\ UnlockCalls
    /\ flow' = [flow EXCEPT ![runPtr] =
                  IF @.expired /\ Debug THEN [at |-> "panic"] ELSE NoFlow]
    /\ UNCHANGED <<mutexVars, timeoutVars, lockCall, sectionVars, value, waitCall>>

(***************************************************************************)
(* The composition.                                                        *)
(***************************************************************************)
MutexStep ==
    /\ \/ LockPend \/ LockResumeExpired \/ LockTimeout \/ LockSuccess
       \/ UnlockUpdateNewOwner \/ UnlockReady \/ UnlockDone
       \/ SysTick \/ ChainStep
       \/ PendSV /\ UNCHANGED <<mutexVars, timeoutVars, lockCall, sectionVars>>
    /\ UNCHANGED waitVars

MutexCall ==
    /\ At("none")
    /\ \/ \E m \in Mutex : \/ LockFree(m) \/ UnlockFree(m) \/ UnlockHandOff(m)
                           \/ \E timed \in BOOLEAN : LockBlock(m, timed)
       \/ SleepDelay
       \/ TaskCall /\ UNCHANGED <<mutexVars, timeoutVars, lockCall, sectionVars>>
    /\ UNCHANGED waitVars

WaitInit ==
    /\ Init
    /\ value = InitValue
    /\ waitCall = [t \in Task |-> NoQueue]
    /\ flow = [t \in Task |-> NoFlow]

SemaStep ==
    \E s \in Sema : \/ PendTake(s) \/ PostWake(s) \/ PostCount(s)
                    \/ \E timed \in BOOLEAN : PendBlock(s, timed)

SleepStep ==
    \/ \E q \in SleepQ :
         \/ Signal(q)
         \/ \E timed \in BOOLEAN : Sleep(q, timed)
         \/ \E t \in Task : SleepQueueReady(q, t) \/ Unready(q, t)
         \/ \E n \in {0, 1} : WakeStart(q, n)
    \/ WakeLock \/ WakeNext \/ WakeEnd \/ WakeUnlock

CondStep ==
    \/ \E q \in SleepQ, m \in Mutex, timed \in BOOLEAN : CondWait(q, m, timed)
    \/ CondRelease \/ CondSleep \/ CondTooLate \/ CondRelock \/ CondLeave

Panicked == \E t \in Task : flow[t].at = "panic"

WaitNext ==
    /\ ~Panicked
    /\ MutexStep \/ MutexCall \/ Resume \/ SemaStep \/ SleepStep \/ CondStep

WaitSpec == WaitInit /\ [][WaitNext]_allVars

(***************************************************************************)
(* Correctness.                                                            *)
(***************************************************************************)
WaitTypeOK ==
    /\ TypeOK
    /\ \A s \in Sema : value[s] \in 0 .. MaxValue[s]
    /\ waitCall \in [Task -> Queue \cup {NoQueue}]
    /\ \A t \in Task : flow[t].at \in {"none", "wakelock", "wake", "wakeunlock", "release",
                                       "sleep", "relock", "leave", "panic"}

Suspended == {"BLOCKED", "SLEEPING"}

(* A task's node is linked once in all the queues of the kernel unless it  *)
(* executes or sleeps for a time, and where its status says: also when     *)
(* wake-ups, expired waits, kSleepQueueUnready and inheritance compete.    *)
(* And every variable keeps its type.                                      *)
LinkedWhereItWaits ==
    /\ WaitTypeOK
    /\ section = "open" =>
        \A t \in Task :
            LET places == {p \in Prio : Contains(readyQueue[p], t)}
                              \cup {q \in Mutex \cup Queue : Contains(waitingQueue[q], t)}
            IN  /\ \A p \in Prio : Linked(readyQueue[p], t) <= 1
                /\ \A q \in Mutex \cup Queue : Linked(waitingQueue[q], t) <= 1
                /\ CASE status[t] \in {"RUNNING", "SLEEPING_DELAY"} -> places = {}
                     [] status[t] = "READY" -> places = {priority[t]}
                     [] status[t] \in Suspended -> places = {IF lockCall[t] # NoMutex
                                                              THEN lockCall[t] ELSE waitCall[t]}
                     [] OTHER -> Cardinality(places) = 1 /\ places \subseteq SleepQ

(* kReadyNoSwtch wakes without asking for a switch, so a flush owes its    *)
(* preemption to the task it chose; outside its loop none is ever missing. *)
NoPreemptionOwed == flow[runPtr].at # "wake" => NoLostPreemption

(* Semaphores keep the promise of RK0Semaphore: a token is never lost or   *)
(* doubled, whoever posts, and a pend that timed out did not consume one.  *)
(* A sleep queue is a semaphore that can store no token.                   *)
WaitCallOf(t) ==
    IF waitCall[t] = NoQueue THEN "idle"
    ELSE IF status[t] \in Suspended /\ Contains(waitingQueue[waitCall[t]], t) THEN "waiting"
    ELSE IF timeOut[t] \/ (section = "expire" /\ wakePtr = t) THEN "expired"
    ELSE "granted"

Tokens(f) == [q \in Queue |-> IF q \in Sema THEN f[q] ELSE 0]

SemaphorePromise == INSTANCE RK0Semaphore WITH
    Sema <- Queue, InitValue <- Tokens(InitValue), MaxValue <- Tokens(MaxValue),
    tokens <- Tokens(value), wanted <- waitCall, call <- [t \in Task |-> WaitCallOf(t)]

ImplementsSemaphore == SemaphorePromise!AbsSpec

(* "prevent dispatch between releasing the Mutex and entering the cond     *)
(* queue" (kCondVarWait): no other task executes in between, so none can   *)
(* change the condition and signal before the caller sleeps.               *)
CondWaitAtomic ==
    [][flow[runPtr].at \in {"release", "sleep"} => runPtr' = runPtr]_allVars

(* kCondVarWait returns with the mutex, and with the scheduler lock as     *)
(* deep as it found it.                                                    *)
CondWaitReturnsOwner ==
    [][\A t \in Task : flow[t].at = "leave" /\ flow'[t].at = "none" =>
          /\ ownerPtr[flow[t].m] = t
          /\ t \in Preemptible => schLock' = schLock - 1]_allVars

(* What kapi.h says of kSleepQueueWake with 0: all tasks are woken; those  *)
(* at least that slept when it was called.                                 *)
FlushWakesAll ==
    [][\A t \in Task : flow[t].at = "wake" /\ flow'[t].at = "wakeunlock" =>
          flow[t].due \cap ToSet(waitingQueue[flow[t].q]) = {}]_allVars

(* What kapi.h says of kCondVarWait: it returns after a timeout.           *)
TimedWaitReturns == ~Panicked

(* What kapi.h says of kSleepQueueSignal: it wakes by priority, so no      *)
(* sleeper it leaves behind has a better one than the task it wakes.       *)
SignalWakesBest ==
    [][\A q \in SleepQ : Signal(q) =>
          \A t \in ToSet(waitingQueue[q]) : priority[Head(waitingQueue[q])] <= priority[t]]_allVars

=============================================================================
