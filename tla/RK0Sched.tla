------------------------------ MODULE RK0Sched ------------------------------
(***************************************************************************)
(* The scheduler of RK0 (core/src/ksch.c with the context switch of        *)
(* arch/.../klow.S): the ready queues and their bitmask, the running task, *)
(* the scheduler lock, the deferred-switch flag, and PendSV, the exception *)
(* in which the switch itself takes place.                                 *)
(*                                                                         *)
(* The module declares the state and the operations the kernel services    *)
(* are built from; a service module EXTENDS it and closes the              *)
(* specification.  One action is one critical section (interrupts masked). *)
(* Between two critical sections an interrupt handler may run, and PendSV, *)
(* which has the lowest exception priority, runs before any more task code *)
(* does.                                                                   *)
(*                                                                         *)
(* Lower numbers are higher priorities.                                    *)
(*                                                                         *)
(* A definition headed "Fault:" is the definition after it with a mistake  *)
(* in it, which the properties have to notice; no specification uses it.   *)
(***************************************************************************)
EXTENDS RK0Queues

CONSTANTS
    Task,        \* the tasks that were initialised, Idle among them
    Idle,        \* IdleTask
    PostProc,    \* PostProcSysTask, or NoTask where a model leaves it out
    NoTask,      \* the NULL task pointer
    IdlePrio,    \* RK_CONF_MIN_PRIO + 1, the level only Idle lives at
    Nominal,     \* TCB.prioNominal
    Preemptible, \* the tasks created with RK_PREEMPT
    BitmaskLimit,\* readyBitmaskPrioLimit: levels from here on have no bit
    MaxSchLock   \* bound: depth of nested scheduler locks explored

Prio == 0 .. IdlePrio

ASSUME SchedAssumption ==
    /\ Idle \in Task
    /\ NoTask \notin Task
    /\ PostProc \in Task \cup {NoTask}
    /\ IsFiniteSet(Task)
    /\ IdlePrio \in Nat
    /\ BitmaskLimit \in Nat /\ BitmaskLimit >= IdlePrio
    /\ Nominal \in [Task -> Prio]
    /\ Nominal[Idle] = IdlePrio
    /\ \A t \in Task \ {Idle} : Nominal[t] < IdlePrio
    /\ Idle \in Preemptible
    /\ Preemptible \subseteq Task
    /\ MaxSchLock \in Nat

VARIABLES
    status,           \* TCB.status of each task
    priority,         \* TCB.priority, the effective priority of each task
    tcbSchLock,       \* TCB.schLock, the lock depth a task is resumed with
    readyQueue,       \* RK_gReadyQueue
    readyBitmask,     \* RK_gReadyBitmask, as the set of its one bits
    runPtr,           \* RK_gRunPtr
    schLock,          \* RK_gSchLock
    pendingCtxtSwtch, \* RK_gPendingCtxtSwtch
    pendSV            \* PENDSVSET in the ICSR register

queueVars == <<readyQueue, readyBitmask>>
swtchVars == <<pendSV, pendingCtxtSwtch>>
schedVars == <<status, priority, tcbSchLock, readyQueue, readyBitmask, runPtr,
               schLock, pendingCtxtSwtch, pendSV>>

(* The states a task of the modelled services goes through. *)
Status == {"READY", "RUNNING", "BLOCKED", "SLEEPING_DELAY", "SLEEPING", "SLEEPQ_BLOCKED"}

SchedTypeOK ==
    /\ status \in [Task -> Status]
    /\ priority \in [Task -> Prio]
    /\ tcbSchLock \in [Task -> Nat]
    /\ readyQueue \in [Prio -> Seq(Task)]
    /\ readyBitmask \in SUBSET Prio
    /\ runPtr \in Task
    /\ schLock \in Nat
    /\ pendingCtxtSwtch \in BOOLEAN
    /\ pendSV \in BOOLEAN

(* The bits kReadyBitmaskSet_ sets for level p.  A 32-bit mask has none for *)
(* the idle level when RK_CONF_MIN_PRIO is 31.                             *)
Tracked(p) == IF p < BitmaskLimit THEN {p} ELSE {}

(* t enters level p at the tail (kTCBQEnq) or at the head (kTCBQJam). *)
ReadyEnq(t, p) ==
    /\ readyQueue' = [readyQueue EXCEPT ![p] = Append(@, t)]
    /\ readyBitmask' = readyBitmask \cup Tracked(p)

ReadyJam(t, p) ==
    /\ readyQueue' = [readyQueue EXCEPT ![p] = Cons(t, @)]
    /\ readyBitmask' = readyBitmask \cup Tracked(p)

(* kCalcNextTaskPrio_: the lowest one bit, or the idle level. *)
NextTaskPrio(mask) == IF mask = {} THEN IdlePrio ELSE Min(mask)

(***************************************************************************)
(* Requesting a context switch.                                            *)
(***************************************************************************)
PendCtxSwtchNow == pendSV' = TRUE /\ pendingCtxtSwtch' = FALSE
DeferCtxSwtch   == pendingCtxtSwtch' = TRUE /\ UNCHANGED pendSV

(* Fault: whatever became of the running task, the lock defers the switch. *)
PendCtxSwtchLocked(st) == IF schLock > 0 THEN DeferCtxSwtch ELSE PendCtxSwtchNow

(* kPendCtxSwtch, called with the running task in state st: a task that    *)
(* still executes with the scheduler locked defers the switch, a task that *)
(* gave up the processor does not.                                         *)
PendCtxSwtch(st) ==
    IF st \in {"READY", "RUNNING"} /\ schLock > 0
      THEN DeferCtxSwtch
      ELSE PendCtxSwtchNow

(* Fault: with the scheduler locked the preemption is forgotten. *)
ReschedTaskForgets(p) ==
    IF priority[runPtr] > p /\ runPtr \in Preemptible /\ schLock = 0
      THEN PendCtxSwtchNow
      ELSE UNCHANGED swtchVars

(* kReschedTask for a task made ready at priority p. *)
ReschedTask(p) ==
    IF priority[runPtr] > p /\ runPtr \in Preemptible
      THEN IF schLock = 0 THEN PendCtxSwtchNow ELSE DeferCtxSwtch
      ELSE UNCHANGED swtchVars

(* kReschedRunning, once the running task has priority p. *)
ReschedRunning(p) ==
    IF /\ status[runPtr] = "RUNNING"
       /\ runPtr \in Preemptible
       /\ NextTaskPrio(readyBitmask) < p
      THEN PendCtxSwtch("RUNNING")
      ELSE UNCHANGED swtchVars

(* kReadyNoSwtch: make t ready, whoever runs. *)
ReadyNoSwtch(t) ==
    /\ IF t = PostProc THEN ReadyJam(t, priority[t]) ELSE ReadyEnq(t, priority[t])
    /\ status' = [status EXCEPT ![t] = "READY"]

(* kReadySwtch: make t ready and preempt the running task if t beats it.   *)
ReadySwtch(t) == ReadyNoSwtch(t) /\ ReschedTask(priority[t])

(* Moving a ready task from level old to level p (kTCBQRem and kTCBQEnq).  *)
(* Fault: the bit of an emptied level stays set.                           *)
ReadyMoveStale(t, old, p) ==
    LET rest == TCBQRem(readyQueue[old], t) IN
    /\ readyQueue' = [readyQueue EXCEPT ![old] = rest, ![p] = Append(@, t)]
    /\ readyBitmask' = readyBitmask \cup Tracked(p)

ReadyMove(t, old, p) ==
    LET rest == TCBQRem(readyQueue[old], t) IN
    /\ readyQueue' = [readyQueue EXCEPT ![old] = rest, ![p] = Append(@, t)]
    /\ readyBitmask' = (IF rest = <<>> THEN readyBitmask \ {old} ELSE readyBitmask)
                          \cup Tracked(p)

(***************************************************************************)
(* kTaskUpdateEffectivePrio: give t the effective priority p it was found  *)
(* to need.  A ready task moves to the tail of its new level; a change of  *)
(* the running task re-evaluates who should run.                           *)
(***************************************************************************)
UpdateEffectivePrio(t, p) ==
    /\ priority' = [priority EXCEPT ![t] = p]
    /\ \/ /\ status[t] = "READY"
          /\ ReadyMove(t, priority[t], p)
                 \* a READY running task (it yielded under the lock) is compared with itself
          /\ IF t = runPtr THEN UNCHANGED swtchVars ELSE ReschedTask(p)
       \/ /\ status[t] = "RUNNING"
          /\ ReschedRunning(p)
          /\ UNCHANGED queueVars
       \/ /\ status[t] \notin {"READY", "RUNNING"}
          /\ UNCHANGED <<readyQueue, readyBitmask, pendSV, pendingCtxtSwtch>>

(***************************************************************************)
(* The scheduler's own operations, called by the running task.             *)
(***************************************************************************)

(* kYield: step behind the tasks of the same level, if any can run.  With  *)
(* the scheduler locked the caller goes on executing, READY and queued,    *)
(* until it unlocks.                                                       *)
Yield ==
    /\ status[runPtr] = "RUNNING"
    /\ NextTaskPrio(readyBitmask) <= priority[runPtr]
    /\ ReadyEnq(runPtr, priority[runPtr])
    /\ status' = [status EXCEPT ![runPtr] = "READY"]
    /\ IF schLock = 0 THEN PendCtxSwtchNow ELSE DeferCtxSwtch
    /\ UNCHANGED <<priority, tcbSchLock, runPtr, schLock>>

(* kSchLock: a no-op for a task created with RK_NO_PREEMPT. *)
SchLock ==
    /\ runPtr \in Preemptible
    /\ schLock < MaxSchLock
    /\ schLock' = schLock + 1
    /\ tcbSchLock' = [tcbSchLock EXCEPT ![runPtr] = schLock + 1]
    /\ UNCHANGED <<status, priority, readyQueue, readyBitmask, runPtr, pendSV, pendingCtxtSwtch>>

(* Fault: an unlock too many is not ignored. *)
SchUnlockTooOften ==
    /\ schLock' = schLock - 1
    /\ tcbSchLock' = [tcbSchLock EXCEPT ![runPtr] = schLock - 1]
    /\ UNCHANGED <<status, priority, readyQueue, readyBitmask, runPtr, swtchVars>>

(* kSchUnlock: the last unlock performs the switch deferred meanwhile. *)
SchUnlock ==
    /\ schLock > 0
    /\ schLock' = schLock - 1
    /\ tcbSchLock' = [tcbSchLock EXCEPT ![runPtr] = schLock - 1]
    /\ IF schLock = 1 /\ pendingCtxtSwtch THEN PendCtxSwtchNow ELSE UNCHANGED swtchVars
    /\ UNCHANGED <<status, priority, readyQueue, readyBitmask, runPtr>>

(***************************************************************************)
(* PendSV_Handler with kSwtch.  A task still RUNNING was preempted: it     *)
(* goes back to the head of its level.  Then the head of the best level is *)
(* dispatched with the lock depth it was switched out with.                *)
(***************************************************************************)
SwtchQueue ==
    IF status[runPtr] = "RUNNING"
      THEN [readyQueue EXCEPT ![priority[runPtr]] = Cons(runPtr, @)]
      ELSE readyQueue

SwtchBitmask ==
    IF status[runPtr] = "RUNNING"
      THEN readyBitmask \cup Tracked(priority[runPtr])
      ELSE readyBitmask

Swtch ==
    LET p    == NextTaskPrio(SwtchBitmask)
        q    == SwtchQueue[p]
        next == Head(q)
    IN  /\ q # <<>>                      \* else K_PANIC: see DispatchNeverNull
        /\ readyQueue' = [SwtchQueue EXCEPT ![p] = Tail(q)]
        /\ readyBitmask' = IF Tail(q) = <<>> THEN SwtchBitmask \ {p} ELSE SwtchBitmask
        /\ status' = [t \in Task |->
                        IF t = next THEN "RUNNING"
                        ELSE IF t = runPtr /\ status[t] = "RUNNING" THEN "READY"
                        ELSE status[t]]
        /\ tcbSchLock' = [tcbSchLock EXCEPT ![runPtr] = schLock]
        /\ runPtr' = next
        /\ schLock' = IF next = runPtr THEN schLock ELSE tcbSchLock[next]
        /\ pendSV' = FALSE
        /\ UNCHANGED <<priority, pendingCtxtSwtch>>

(* Fault: neither RK_NO_PREEMPT nor the scheduler lock holds the tick off. *)
TickReschedAlways(timeOutTask) ==
    IF timeOutTask THEN PendCtxSwtchNow ELSE UNCHANGED swtchVars

(* What kTickHandler decides once the timeout list is done, timeOutTask    *)
(* telling whether a task was made ready by it.                            *)
TickResched(timeOutTask) ==
    LET st == status[runPtr] IN
    IF \/ st # "READY" /\ ~timeOutTask
       \/ st = "RUNNING" /\ runPtr \notin Preemptible
      THEN UNCHANGED swtchVars
      ELSE PendCtxSwtch(st)

(* kInit: every task is queued at its level in creation order (any order   *)
(* here), and the first of the best level is dispatched.                   *)
SchedInit ==
    LET top == CHOOSE t \in Task : \A u \in Task : Nominal[t] <= Nominal[u] IN
    /\ priority = Nominal
    /\ status = [t \in Task |-> IF t = top THEN "RUNNING" ELSE "READY"]
    /\ runPtr = top
    /\ readyQueue = [p \in Prio |-> SetToSeq({t \in Task \ {top} : Nominal[t] = p})]
    /\ readyBitmask = {p \in Prio : p < BitmaskLimit /\ readyQueue[p] # <<>>}
    /\ tcbSchLock = [t \in Task |-> 0]
    /\ schLock = 0
    /\ pendingCtxtSwtch = FALSE
    /\ pendSV = FALSE

=============================================================================
