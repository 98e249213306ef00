-------------------------- MODULE RK0Mutex_proofs ---------------------------
(***************************************************************************)
(* Proofs about RK0Mutex and RK0Wait, which extends it, for any tasks,     *)
(* priorities, mutexes, semaphores and sleep queues.                       *)
(*                                                                         *)
(* RK0Mutex: the state stays consistent, the best waiter is served first,  *)
(* kMutexLock tells the truth, RK0Mutex implements RK0Lock, priorities are *)
(* exactly those inheritance calls for, and no preemption is lost.         *)
(*                                                                         *)
(* RK0Wait: every task is linked where its status says, the semaphores     *)
(* implement RK0Semaphore, kCondVarWait is atomic and returns the owner of *)
(* the mutex, and a flush of a sleep queue loses no preemption.            *)
(***************************************************************************)
EXTENDS RK0Wait, RK0Seqs

(***************************************************************************)
(* Lemmas about the operations of the scheduler: what each queue operation *)
(* returns, and that each keeps the scheduler's state in its types.        *)
(***************************************************************************)
LEMMA PrioNat == IdlePrio \in Prio /\ Prio \in SUBSET Nat
  BY SchedAssumption DEF Prio

LEMMA TrackedType == ASSUME NEW p \in Prio PROVE Tracked(p) \subseteq Prio
  BY DEF Tracked

LEMMA NextTaskPrioType ==
    ASSUME NEW mask \in SUBSET Prio
    PROVE  NextTaskPrio(mask) \in Prio
<1>1. CASE mask = {}
  BY <1>1, PrioNat DEF NextTaskPrio
<1>2. CASE mask # {}
  <2>1. mask \in SUBSET Nat
    BY PrioNat
  <2>2. Min(mask) \in mask
    BY <1>2, <2>1, MinOfNats
  <2> QED
    BY <1>2, <2>2 DEF NextTaskPrio
<1> QED
  BY <1>1, <1>2

(***************************************************************************)
(* Every operation keeps the types.                                        *)
(***************************************************************************)
LEMMA ReadyEnqType ==
    ASSUME SchedTypeOK, NEW t \in Task, NEW p \in Prio,
           ReadyEnq(t, p) \/ ReadyJam(t, p)
    PROVE  readyQueue' \in [Prio -> Seq(Task)] /\ readyBitmask' \in SUBSET Prio
<1>1. readyQueue[p] \in Seq(Task)
  BY DEF SchedTypeOK
<1>2. Append(readyQueue[p], t) \in Seq(Task) /\ Cons(t, readyQueue[p]) \in Seq(Task)
  BY <1>1, AppendLemma, ConsLemma
<1>3. readyBitmask' \in SUBSET Prio
  BY TrackedType DEF SchedTypeOK, ReadyEnq, ReadyJam
<1>4. readyQueue \in [Prio -> Seq(Task)]
  BY DEF SchedTypeOK
<1>5. CASE readyQueue' = [readyQueue EXCEPT ![p] = Append(@, t)]
  BY <1>2, <1>3, <1>4, <1>5
<1>6. CASE readyQueue' = [readyQueue EXCEPT ![p] = Cons(t, @)]
  BY <1>2, <1>3, <1>4, <1>6
<1> QED
  BY <1>5, <1>6 DEF ReadyEnq, ReadyJam

LEMMA ReadyMoveType ==
    ASSUME SchedTypeOK, NEW t \in Task, NEW old \in Prio, NEW p \in Prio, p # old,
           ReadyMove(t, old, p)
    PROVE  readyQueue' \in [Prio -> Seq(Task)] /\ readyBitmask' \in SUBSET Prio
<1>1. readyQueue[old] \in Seq(Task) /\ readyQueue[p] \in Seq(Task)
  BY DEF SchedTypeOK
<1>2. TCBQRem(readyQueue[old], t) \in Seq(Task) /\ Append(readyQueue[p], t) \in Seq(Task)
  BY <1>1, AppendLemma, TCBQRemLemma
<1> DEFINE f == [readyQueue EXCEPT ![old] = TCBQRem(readyQueue[old], t)]
<1>3. /\ readyQueue' = [f EXCEPT ![p] = Append(f[p], t)]
      /\ f \in [Prio -> Seq(Task)] /\ f[p] = readyQueue[p]
  BY <1>2 DEF SchedTypeOK, ReadyMove
<1> HIDE DEF f
<1>4. readyQueue' \in [Prio -> Seq(Task)]
  BY <1>2, <1>3
<1>5. readyBitmask' \in SUBSET Prio
  BY TrackedType DEF SchedTypeOK, ReadyMove
<1> QED
  BY <1>4, <1>5

(* Whatever asks for a context switch only sets the two flags. *)
LEMMA ReschedType ==
    ASSUME SchedTypeOK, NEW st, NEW p, NEW b,
           \/ PendCtxSwtchNow \/ DeferCtxSwtch \/ UNCHANGED swtchVars
           \/ PendCtxSwtch(st) \/ ReschedTask(p) \/ ReschedRunning(p) \/ TickResched(b)
    PROVE  pendSV' \in BOOLEAN /\ pendingCtxtSwtch' \in BOOLEAN
  BY Zenon DEF SchedTypeOK, PendCtxSwtchNow, DeferCtxSwtch, PendCtxSwtch, ReschedTask,
               ReschedRunning, TickResched, swtchVars

LEMMA ReadySwtchType ==
    ASSUME SchedTypeOK, NEW t \in Task, ReadySwtch(t),
           UNCHANGED <<priority, tcbSchLock, runPtr, schLock>>
    PROVE  SchedTypeOK'
<1>1. priority[t] \in Prio
  BY DEF SchedTypeOK
<1>2. readyQueue' \in [Prio -> Seq(Task)] /\ readyBitmask' \in SUBSET Prio
  BY <1>1, ReadyEnqType DEF ReadySwtch, ReadyNoSwtch
<1>3. pendSV' \in BOOLEAN /\ pendingCtxtSwtch' \in BOOLEAN
  BY ReschedType DEF ReadySwtch, ReadyNoSwtch
<1>4. status' \in [Task -> Status]
  BY DEF ReadySwtch, ReadyNoSwtch, SchedTypeOK, Status
<1> QED
  BY <1>2, <1>3, <1>4 DEF SchedTypeOK

LEMMA UpdateEffectivePrioType ==
    ASSUME SchedTypeOK, NEW t \in Task, NEW p \in Prio, p # priority[t],
           UpdateEffectivePrio(t, p), UNCHANGED <<status, tcbSchLock, runPtr, schLock>>
    PROVE  SchedTypeOK'
<1>1. priority' \in [Task -> Prio] /\ priority[t] \in Prio
  BY DEF SchedTypeOK, UpdateEffectivePrio
<1>2. /\ readyQueue' \in [Prio -> Seq(Task)] /\ readyBitmask' \in SUBSET Prio
      /\ pendSV' \in BOOLEAN /\ pendingCtxtSwtch' \in BOOLEAN
  <2>1. CASE /\ ReadyMove(t, priority[t], p)
             /\ IF t = runPtr THEN UNCHANGED swtchVars ELSE ReschedTask(p)
    BY <1>1, <2>1, ReadyMoveType, ReschedType
  <2>2. CASE ReschedRunning(p) /\ UNCHANGED queueVars
    BY <2>2, ReschedType DEF queueVars, SchedTypeOK
  <2>3. CASE UNCHANGED <<readyQueue, readyBitmask, pendSV, pendingCtxtSwtch>>
    BY <2>3 DEF SchedTypeOK
  <2> QED
    BY <2>1, <2>2, <2>3 DEF UpdateEffectivePrio
<1> QED
  BY <1>1, <1>2 DEF SchedTypeOK

LEMMA YieldType == ASSUME SchedTypeOK, Yield PROVE SchedTypeOK'
<1>1. runPtr \in Task /\ priority[runPtr] \in Prio
  BY DEF SchedTypeOK
<1>2. readyQueue' \in [Prio -> Seq(Task)] /\ readyBitmask' \in SUBSET Prio
  BY <1>1, ReadyEnqType DEF Yield
<1>3. pendSV' \in BOOLEAN /\ pendingCtxtSwtch' \in BOOLEAN
  BY ReschedType DEF Yield
<1> QED
  BY <1>1, <1>2, <1>3 DEF SchedTypeOK, Yield, Status

LEMMA SchLockType == ASSUME SchedTypeOK, SchLock \/ SchUnlock PROVE SchedTypeOK'
<1>1. CASE SchLock
  BY <1>1 DEF SchedTypeOK, SchLock
<1>2. CASE SchUnlock
  <2>1. pendSV' \in BOOLEAN /\ pendingCtxtSwtch' \in BOOLEAN
    BY <1>2, ReschedType DEF SchUnlock
  <2>2. schLock' \in Nat /\ tcbSchLock' \in [Task -> Nat]
    BY <1>2 DEF SchedTypeOK, SchUnlock
  <2> QED
    BY <1>2, <2>1, <2>2 DEF SchedTypeOK, SchUnlock
<1> QED
  BY <1>1, <1>2

(* The ready queues as kSwtch finds them once the preempted task is back. *)
LEMMA SwtchQueueType ==
    ASSUME SchedTypeOK
    PROVE  SwtchQueue \in [Prio -> Seq(Task)] /\ SwtchBitmask \in SUBSET Prio
<1>1. runPtr \in Task /\ priority[runPtr] \in Prio
  BY DEF SchedTypeOK
<1>2. Cons(runPtr, readyQueue[priority[runPtr]]) \in Seq(Task)
  BY <1>1, ConsLemma DEF SchedTypeOK
<1> QED
  BY <1>1, <1>2, TrackedType DEF SchedTypeOK, SwtchQueue, SwtchBitmask

LEMMA SwtchType == ASSUME SchedTypeOK, Swtch PROVE SchedTypeOK'
<1> DEFINE p == NextTaskPrio(SwtchBitmask)
<1>1. p \in Prio
  BY SwtchQueueType, NextTaskPrioType
<1> HIDE DEF p
<1>2. SwtchQueue[p] \in Seq(Task) /\ SwtchQueue[p] # <<>>
  BY <1>1, SwtchQueueType DEF Swtch, p
<1>3. Head(SwtchQueue[p]) \in Task /\ Tail(SwtchQueue[p]) \in Seq(Task)
  BY <1>2, TailLemma
<1>4. readyQueue' \in [Prio -> Seq(Task)] /\ readyBitmask' \in SUBSET Prio
  BY <1>3, SwtchQueueType DEF Swtch, p
<1>5. status' \in [Task -> Status] /\ runPtr' \in Task
  BY <1>3 DEF Swtch, p, SchedTypeOK, Status
<1>6. tcbSchLock' \in [Task -> Nat] /\ schLock' \in Nat
  BY <1>3 DEF Swtch, p, SchedTypeOK
<1> QED
  BY <1>4, <1>5, <1>6 DEF Swtch, SchedTypeOK

(* The first task dispatched is one of the best. *)
LEMMA SchedInitTop ==
    ASSUME SchedInit
    PROVE  runPtr \in Task /\ \A u \in Task : Nominal[runPtr] <= Nominal[u]
<1> DEFINE N == {Nominal[u] : u \in Task}
<1>1. N \in SUBSET Nat /\ N # {}
  BY SchedAssumption, PrioNat
<1>2. Min(N) \in N /\ \A n \in N : Min(N) <= n
  BY <1>1, MinOfNats
<1>3. \E t \in Task : \A u \in Task : Nominal[t] <= Nominal[u]
  BY <1>2
<1> QED
  BY <1>3 DEF SchedInit

LEMMA SchedInitType == SchedInit => SchedTypeOK
<1> SUFFICES ASSUME SchedInit PROVE SchedTypeOK
  OBVIOUS
<1>1. runPtr \in Task
  BY SchedInitTop
<1>2. readyQueue = [p \in Prio |-> SetToSeq({t \in Task \ {runPtr} : Nominal[t] = p})]
  BY DEF SchedInit
<1>3. ASSUME NEW p \in Prio
      PROVE  SetToSeq({t \in Task \ {runPtr} : Nominal[t] = p}) \in Seq(Task)
  <2> DEFINE S == {t \in Task \ {runPtr} : Nominal[t] = p}
  <2>1. IsFiniteSet(S)
    BY SchedAssumption, FS_Subset
  <2>2. SetToSeq(S) \in Seq(S) /\ S \subseteq Task
    BY <2>1, SetToSeqLemma
  <2> QED
    BY <2>2, SeqMonotonic
<1>4. readyQueue \in [Prio -> Seq(Task)]
  BY <1>2, <1>3
<1>5. status \in [Task -> Status] /\ priority \in [Task -> Prio]
  BY SchedAssumption DEF SchedInit, Status
<1> QED
  BY <1>1, <1>4, <1>5 DEF SchedInit, SchedTypeOK

(***************************************************************************)
(* The ready queues.                                                       *)
(***************************************************************************)

(* Level p holds the READY tasks of priority p, each once; the bitmask says *)
(* which levels hold any; only runPtr is RUNNING.  No operation of the     *)
(* scheduler breaks this, even with a critical section in progress.        *)
ReadyInv ==
    /\ \A p \in Prio :
         /\ IsInjective(readyQueue[p])
         /\ \A t \in Task :
              t \in ToSet(readyQueue[p]) <=> status[t] = "READY" /\ priority[t] = p
    /\ readyBitmask = {p \in Prio : p < BitmaskLimit /\ readyQueue[p] # <<>>}
    /\ \A t \in Task : status[t] = "RUNNING" => t = runPtr

(* A queue is empty iff it links nobody. *)
LEMMA EmptyQueue ==
    ASSUME NEW q \in Seq(Task)
    PROVE  q = <<>> <=> \A t \in Task : t \notin ToSet(q)
<1>1. CASE q = <<>>
  BY <1>1, ToSetEmpty
<1>2. CASE q # <<>>
  BY <1>2, TailLemma
<1> QED
  BY <1>1, <1>2

(* A task that is not READY enters the queue of its priority. *)
LEMMA ReadyEnqInv ==
    ASSUME SchedTypeOK, ReadyInv, NEW t \in Task, status[t] # "READY",
           ReadyEnq(t, priority[t]) \/ ReadyJam(t, priority[t]),
           status' = [status EXCEPT ![t] = "READY"], UNCHANGED <<priority, runPtr>>
    PROVE  ReadyInv'
<1> DEFINE pt == priority[t]
<1>1. pt \in Prio /\ readyQueue \in [Prio -> Seq(Task)] /\ status \in [Task -> Status]
  BY DEF SchedTypeOK
<1>2. readyQueue[pt] \in Seq(Task) /\ IsInjective(readyQueue[pt]) /\ t \notin ToSet(readyQueue[pt])
  BY <1>1 DEF ReadyInv
<1>3. PICK q : /\ readyQueue' = [readyQueue EXCEPT ![pt] = q]
               /\ q \in Seq(Task) /\ q # <<>> /\ IsInjective(q)
               /\ ToSet(q) = ToSet(readyQueue[pt]) \cup {t}
  <2>1. CASE ReadyEnq(t, pt)
    <3> DEFINE a == Append(readyQueue[pt], t)
    <3>1. /\ a \in Seq(Task) /\ a # <<>> /\ IsInjective(a)
          /\ ToSet(a) = ToSet(readyQueue[pt]) \cup {t}
      BY <1>2, AppendLemma
    <3>2. readyQueue' = [readyQueue EXCEPT ![pt] = a]
      BY <2>1 DEF ReadyEnq
    <3> QED
      BY Zenon, <3>1, <3>2
  <2>2. CASE ReadyJam(t, pt)
    <3> DEFINE r == readyQueue[pt]
               c == Cons(t, r)
    <3>0. r \in Seq(Task) /\ IsInjective(r) /\ t \notin ToSet(r)
      BY <1>2
    <3> HIDE DEF r
    <3>1. /\ c \in Seq(Task) /\ c # <<>> /\ IsInjective(c)
          /\ ToSet(c) = ToSet(r) \cup {t}
      BY <3>0, ConsLemma
    <3>2. readyQueue' = [readyQueue EXCEPT ![pt] = c]
      BY <2>2 DEF ReadyJam, r
    <3> QED
      BY Zenon, <3>1, <3>2 DEF r
  <2> QED
    BY <2>1, <2>2
<1>4. readyBitmask' = readyBitmask \cup Tracked(pt)
  BY DEF ReadyEnq, ReadyJam
<1> HIDE DEF pt
<1>5. ASSUME NEW p \in Prio
      PROVE  /\ IsInjective(readyQueue'[p])
             /\ \A u \in Task : u \in ToSet(readyQueue'[p])
                                  <=> status'[u] = "READY" /\ priority'[u] = p
  <2>1. CASE p = pt
    <3>1. readyQueue'[p] = q
      BY <1>1, <1>3, <2>1
    <3> QED
      BY <1>1, <1>3, <2>1, <3>1 DEF ReadyInv, pt
  <2>2. CASE p # pt
    <3>1. readyQueue'[p] = readyQueue[p]
      BY <1>1, <1>3, <2>2
    <3> QED
      BY <1>1, <2>2, <3>1 DEF ReadyInv, pt
  <2> QED
    BY <2>1, <2>2
<1>6. readyBitmask' = {p \in Prio : p < BitmaskLimit /\ readyQueue'[p] # <<>>}
  BY <1>1, <1>3, <1>4 DEF ReadyInv, Tracked
<1>7. \A u \in Task : status'[u] = "RUNNING" => u = runPtr'
  BY <1>1 DEF ReadyInv
<1> QED
  BY <1>5, <1>6, <1>7 DEF ReadyInv

(* A READY task changes its priority, and its level with it. *)
LEMMA ReadyMoveInv ==
    ASSUME SchedTypeOK, ReadyInv, NEW t \in Task, status[t] = "READY",
           NEW p \in Prio, p # priority[t], ReadyMove(t, priority[t], p),
           priority' = [priority EXCEPT ![t] = p], UNCHANGED <<status, runPtr>>
    PROVE  ReadyInv'
<1> DEFINE old == priority[t]
           rest == TCBQRem(readyQueue[old], t)
           add == Append(readyQueue[p], t)
<1>1. /\ old \in Prio /\ readyQueue \in [Prio -> Seq(Task)] /\ priority \in [Task -> Prio]
      /\ readyBitmask = {r \in Prio : r < BitmaskLimit /\ readyQueue[r] # <<>>}
  BY DEF SchedTypeOK, ReadyInv
<1>2. /\ readyQueue[old] \in Seq(Task) /\ readyQueue[p] \in Seq(Task)
      /\ IsInjective(readyQueue[old]) /\ IsInjective(readyQueue[p])
      /\ t \notin ToSet(readyQueue[p])
  BY <1>1 DEF ReadyInv
<1>3. /\ rest \in Seq(Task) /\ IsInjective(rest)
      /\ \A u \in Task : u \in ToSet(rest) <=> u \in ToSet(readyQueue[old]) /\ u # t
  BY <1>2, TCBQRemLemma
<1>4. /\ add \in Seq(Task) /\ IsInjective(add) /\ add # <<>>
      /\ \A u \in Task : u \in ToSet(add) <=> u \in ToSet(readyQueue[p]) \/ u = t
  BY <1>2, AppendLemma
<1> DEFINE f == [readyQueue EXCEPT ![old] = rest]
<1>5. readyQueue' = [f EXCEPT ![p] = Append(f[p], t)] /\ f \in [Prio -> Seq(Task)]
  BY <1>1, <1>3 DEF ReadyMove
<1>6. f[p] = readyQueue[p]
  BY <1>1
<1>7. /\ readyQueue'[old] = rest /\ readyQueue'[p] = add
      /\ \A r \in Prio \ {old, p} : readyQueue'[r] = readyQueue[r]
  BY <1>1, <1>5, <1>6
<1>8. readyBitmask' = (IF rest = <<>> THEN readyBitmask \ {old} ELSE readyBitmask) \cup Tracked(p)
  BY DEF ReadyMove
<1> HIDE DEF rest, add, old, f
<1>9. ASSUME NEW r \in Prio
      PROVE  /\ IsInjective(readyQueue'[r])
             /\ \A u \in Task : u \in ToSet(readyQueue'[r])
                                  <=> status'[u] = "READY" /\ priority'[u] = r
  <2>1. CASE r = old
    <3>1. \A u \in Task : u \in ToSet(readyQueue[old]) <=> status[u] = "READY" /\ priority[u] = old
      BY <1>1 DEF ReadyInv
    <3>2. \A u \in Task \ {t} : priority'[u] = priority[u]
      BY <1>1
    <3>3. priority'[t] = p
      BY <1>1
    <3> QED
      BY <1>3, <1>7, <2>1, <3>1, <3>2, <3>3 DEF old
  <2>2. CASE r = p
    <3>1. \A u \in Task : u \in ToSet(readyQueue[p]) <=> status[u] = "READY" /\ priority[u] = p
      BY <1>1 DEF ReadyInv
    <3>2. /\ \A u \in Task \ {t} : priority'[u] = priority[u]
          /\ priority'[t] = p
      BY <1>1
    <3> QED
      BY <1>4, <1>7, <2>2, <3>1, <3>2
  <2>3. CASE r \notin {old, p}
    <3>1. /\ IsInjective(readyQueue[r])
          /\ \A u \in Task : u \in ToSet(readyQueue[r]) <=> status[u] = "READY" /\ priority[u] = r
      BY <1>1 DEF ReadyInv
    <3>2. /\ \A u \in Task \ {t} : priority'[u] = priority[u]
          /\ priority'[t] = p /\ priority[t] = old
      BY <1>1 DEF old
    <3> QED
      BY <1>7, <2>3, <3>1, <3>2
  <2> QED
    BY <2>1, <2>2, <2>3
<1>10. readyBitmask' = {r \in Prio : r < BitmaskLimit /\ readyQueue'[r] # <<>>}
  <2>1. \A r \in Prio : r \in readyBitmask' <=> r < BitmaskLimit /\ readyQueue'[r] # <<>>
    <3> TAKE r \in Prio
    <3>1. CASE r = old
      <4>1. r # p
        BY <3>1 DEF old
      <4>2. readyQueue[old] # <<>>
        BY <1>1, ToSetEmpty DEF ReadyInv, old
      <4> QED
        BY <1>1, <1>7, <1>8, <3>1, <4>1, <4>2 DEF Tracked
    <3>2. CASE r = p
      BY <1>1, <1>4, <1>7, <1>8, <3>2 DEF Tracked, old
    <3>3. CASE r \notin {old, p}
      BY <1>1, <1>7, <1>8, <3>3 DEF Tracked
    <3> QED
      BY <3>1, <3>2, <3>3
  <2>2. readyBitmask' \subseteq Prio
    BY <1>1, <1>8, TrackedType
  <2> QED
    BY <2>1, <2>2
<1> QED
  BY <1>9, <1>10 DEF ReadyInv

(* A task that is not READY changes its priority where it is. *)
LEMMA PrioOnlyInv ==
    ASSUME SchedTypeOK, ReadyInv, NEW t \in Task, status[t] # "READY", NEW p \in Prio,
           priority' = [priority EXCEPT ![t] = p],
           UNCHANGED <<status, runPtr, readyQueue, readyBitmask>>
    PROVE  ReadyInv'
  BY DEF ReadyInv, SchedTypeOK

LEMMA UpdateEffectivePrioInv ==
    ASSUME SchedTypeOK, ReadyInv, NEW t \in Task, NEW p \in Prio, p # priority[t],
           UpdateEffectivePrio(t, p), UNCHANGED <<status, runPtr>>
    PROVE  ReadyInv'
<1>1. priority' = [priority EXCEPT ![t] = p]
  BY DEF UpdateEffectivePrio
<1>2. CASE status[t] = "READY"
  BY <1>1, <1>2, ReadyMoveInv DEF UpdateEffectivePrio
<1>3. CASE status[t] # "READY"
  BY <1>1, <1>3, PrioOnlyInv DEF UpdateEffectivePrio, queueVars
<1> QED
  BY <1>2, <1>3

(* The running task gives up the processor. *)
LEMMA SuspendInv ==
    ASSUME SchedTypeOK, ReadyInv, status[runPtr] = "RUNNING",
           NEW st \in Status \ {"READY", "RUNNING"}, status' = [status EXCEPT ![runPtr] = st],
           UNCHANGED <<priority, runPtr, readyQueue, readyBitmask>>
    PROVE  ReadyInv'
  BY DEF ReadyInv, SchedTypeOK

(* The ready queues and the bitmask with the preempted task back in them. *)
LEMMA SwtchQueueInv ==
    ASSUME SchedTypeOK, ReadyInv
    PROVE  /\ \A p \in Prio :
                /\ IsInjective(SwtchQueue[p])
                /\ \A t \in Task :
                     t \in ToSet(SwtchQueue[p]) <=>
                       priority[t] = p /\ status[t] \in {"READY", "RUNNING"}
           /\ SwtchBitmask = {p \in Prio : p < BitmaskLimit /\ SwtchQueue[p] # <<>>}
<1> DEFINE pr == priority[runPtr]
<1>1. /\ runPtr \in Task /\ pr \in Prio /\ readyQueue \in [Prio -> Seq(Task)]
      /\ status \in [Task -> Status]
  BY DEF SchedTypeOK
<1>2. CASE status[runPtr] # "RUNNING"
  BY <1>1, <1>2 DEF ReadyInv, SwtchQueue, SwtchBitmask
<1>3. CASE status[runPtr] = "RUNNING"
  <2> DEFINE c == Cons(runPtr, readyQueue[pr])
  <2>1. /\ readyQueue[pr] \in Seq(Task) /\ IsInjective(readyQueue[pr])
        /\ runPtr \notin ToSet(readyQueue[pr])
    BY <1>1, <1>3 DEF ReadyInv
  <2>2. c # <<>> /\ IsInjective(c) /\ ToSet(c) = ToSet(readyQueue[pr]) \cup {runPtr}
    BY <1>1, <2>1, ConsLemma
  <2>3. SwtchQueue = [readyQueue EXCEPT ![pr] = c] /\ SwtchBitmask = readyBitmask \cup Tracked(pr)
    BY <1>3 DEF SwtchQueue, SwtchBitmask
  <2> HIDE DEF c, pr
  <2>4. ASSUME NEW p \in Prio
        PROVE  /\ IsInjective(SwtchQueue[p])
               /\ \A t \in Task :
                    t \in ToSet(SwtchQueue[p]) <=>
                      priority[t] = p /\ status[t] \in {"READY", "RUNNING"}
    <3>1. /\ IsInjective(readyQueue[p])
          /\ \A t \in Task :
               t \in ToSet(readyQueue[p]) <=> status[t] = "READY" /\ priority[t] = p
      BY DEF ReadyInv
    <3>2. \A t \in Task : status[t] = "RUNNING" <=> t = runPtr
      BY <1>3 DEF ReadyInv
    <3>3. CASE p = pr
      <4>1. SwtchQueue[p] = c
        BY <1>1, <2>3, <3>3
      <4> QED
        BY <2>2, <3>1, <3>2, <3>3, <4>1 DEF pr
    <3>4. CASE p # pr
      <4>1. SwtchQueue[p] = readyQueue[p]
        BY <1>1, <2>3, <3>4
      <4> QED
        BY <3>1, <3>2, <3>4, <4>1 DEF pr
    <3> QED
      BY <3>3, <3>4
  <2>5. SwtchBitmask = {p \in Prio : p < BitmaskLimit /\ SwtchQueue[p] # <<>>}
    BY <1>1, <2>2, <2>3 DEF ReadyInv, Tracked
  <2> QED
    BY <2>4, <2>5
<1> QED
  BY <1>2, <1>3

(* The context switch: the dispatched task leaves its queue. *)
LEMMA SwtchInv ==
    ASSUME SchedTypeOK, ReadyInv, Swtch
    PROVE  /\ ReadyInv'
           /\ status[runPtr'] \in {"READY", "RUNNING"}
           /\ status'[runPtr'] = "RUNNING"
           /\ \A t \in Task : t # runPtr' =>
                status'[t] = IF status[t] = "RUNNING" THEN "READY" ELSE status[t]
<1> DEFINE p == NextTaskPrio(SwtchBitmask)
           q == SwtchQueue[p]
<1>1. p \in Prio
  BY SwtchQueueType, NextTaskPrioType
<1>2. q \in Seq(Task) /\ q # <<>> /\ IsInjective(q) /\ SwtchQueue \in [Prio -> Seq(Task)]
  BY <1>1, SwtchQueueType, SwtchQueueInv DEF Swtch
<1>3. runPtr' = Head(q) /\ UNCHANGED priority
  BY DEF Swtch
<1>4. /\ readyQueue' = [SwtchQueue EXCEPT ![p] = Tail(q)]
      /\ readyBitmask' = IF Tail(q) = <<>> THEN SwtchBitmask \ {p} ELSE SwtchBitmask
  BY DEF Swtch
<1>5. status' = [t \in Task |->
                   IF t = runPtr' THEN "RUNNING"
                   ELSE IF t = runPtr /\ status[t] = "RUNNING" THEN "READY"
                   ELSE status[t]]
  BY DEF Swtch
<1> HIDE DEF p, q
<1>6. /\ runPtr' \in Task /\ Tail(q) \in Seq(Task) /\ IsInjective(Tail(q))
      /\ ToSet(q) = ToSet(Tail(q)) \cup {runPtr'}
      /\ runPtr' \notin ToSet(Tail(q))
  BY <1>2, <1>3, TailLemma
<1>7. /\ \A r \in Prio :
           /\ IsInjective(SwtchQueue[r])
           /\ \A t \in Task : t \in ToSet(SwtchQueue[r]) <=>
                                 priority[t] = r /\ status[t] \in {"READY", "RUNNING"}
      /\ SwtchBitmask = {r \in Prio : r < BitmaskLimit /\ SwtchQueue[r] # <<>>}
  BY SwtchQueueInv
<1>8. status[runPtr'] \in {"READY", "RUNNING"} /\ priority[runPtr'] = p
  BY <1>1, <1>6, <1>7 DEF q
<1>9. /\ status'[runPtr'] = "RUNNING"
      /\ \A t \in Task : t # runPtr' =>
           status'[t] = IF status[t] = "RUNNING" THEN "READY" ELSE status[t]
  BY <1>5, <1>6 DEF ReadyInv
<1>10. ASSUME NEW r \in Prio
       PROVE  /\ IsInjective(readyQueue'[r])
              /\ \A t \in Task : t \in ToSet(readyQueue'[r])
                                   <=> status'[t] = "READY" /\ priority'[t] = r
  <2>1. CASE r = p
    <3>1. readyQueue'[r] = Tail(q) /\ SwtchQueue[r] = q
      BY <1>1, <1>2, <1>4, <2>1 DEF q
    <3>2. \A t \in Task : t \in ToSet(q) <=> priority[t] = p /\ status[t] \in {"READY", "RUNNING"}
      BY <1>1, <1>7 DEF q
    <3>3. \A t \in Task : t \in ToSet(Tail(q)) <=> t \in ToSet(q) /\ t # runPtr'
      BY <1>6
    <3> QED
      BY <1>3, <1>6, <1>9, <2>1, <3>1, <3>2, <3>3
  <2>2. CASE r # p
    <3>1. readyQueue'[r] = SwtchQueue[r]
      BY <1>2, <1>4, <2>2
    <3>2. \A t \in Task : t \in ToSet(SwtchQueue[r]) <=>
                            priority[t] = r /\ status[t] \in {"READY", "RUNNING"}
      BY <1>7
    <3> QED
      BY <1>3, <1>7, <1>8, <1>9, <2>2, <3>1, <3>2
  <2> QED
    BY <2>1, <2>2
<1>11. readyBitmask' = {r \in Prio : r < BitmaskLimit /\ readyQueue'[r] # <<>>}
  <2>1. readyQueue'[p] = Tail(q) /\ \A r \in Prio \ {p} : readyQueue'[r] = SwtchQueue[r]
    BY <1>1, <1>2, <1>4
  <2>2. SwtchQueue[p] # <<>>
    BY <1>2 DEF q
  <2> QED
    BY <1>1, <1>4, <1>7, <2>1, <2>2
<1>12. \A t \in Task : status'[t] = "RUNNING" => t = runPtr'
  BY <1>9
<1> QED
  BY <1>8, <1>9, <1>10, <1>11, <1>12 DEF ReadyInv

(* The switch finds a task as long as one can run at the idle level. *)
LEMMA SwtchFindsTask ==
    ASSUME SchedTypeOK, ReadyInv,
           status[Idle] \in {"READY", "RUNNING"}, priority[Idle] = IdlePrio
    PROVE  SwtchQueue[NextTaskPrio(SwtchBitmask)] # <<>>
<1>1. SwtchQueue[IdlePrio] # <<>>
  BY SwtchQueueInv, PrioNat, SchedAssumption, ToSetEmpty
<1>2. CASE SwtchBitmask = {}
  BY <1>1, <1>2 DEF NextTaskPrio
<1>3. CASE SwtchBitmask # {}
  <2>1. SwtchBitmask \in SUBSET Nat
    BY SwtchQueueType, PrioNat
  <2>2. NextTaskPrio(SwtchBitmask) \in SwtchBitmask
    BY <1>3, <2>1, MinOfNats DEF NextTaskPrio
  <2> QED
    BY <2>2, SwtchQueueInv
<1> QED
  BY <1>2, <1>3

(* Asking for a switch, or not, never withdraws an earlier request. *)
LEMMA ReschedKeeps ==
    ASSUME NEW st, NEW p, NEW b, SchedTypeOK, ~pendSV',
           \/ DeferCtxSwtch \/ UNCHANGED swtchVars
           \/ PendCtxSwtch(st) \/ ReschedTask(p) \/ ReschedRunning(p) \/ TickResched(b)
    PROVE  ~pendSV /\ (pendingCtxtSwtch => pendingCtxtSwtch')
  BY Zenon DEF SchedTypeOK, PendCtxSwtchNow, DeferCtxSwtch, PendCtxSwtch, ReschedTask,
               ReschedRunning, TickResched, swtchVars

LEMMA SchedInitInv ==
    ASSUME SchedInit
    PROVE  /\ ReadyInv
           /\ \A t \in Task : status[t] = IF t = runPtr THEN "RUNNING" ELSE "READY"
<1>1. runPtr \in Task /\ status = [t \in Task |-> IF t = runPtr THEN "RUNNING" ELSE "READY"]
  BY SchedInitTop DEF SchedInit
<1>2. ASSUME NEW p \in Prio
      PROVE  /\ IsInjective(readyQueue[p])
             /\ \A t \in Task : t \in ToSet(readyQueue[p])
                                  <=> status[t] = "READY" /\ priority[t] = p
  <2> DEFINE S == {t \in Task \ {runPtr} : Nominal[t] = p}
  <2>1. readyQueue[p] = SetToSeq(S)
    BY DEF SchedInit
  <2>2. IsFiniteSet(S)
    BY SchedAssumption, FS_Subset
  <2>3. IsInjective(SetToSeq(S)) /\ ToSet(SetToSeq(S)) = S
    BY <2>2, SetToSeqLemma
  <2>4. priority = Nominal
    BY DEF SchedInit
  <2> QED
    BY <1>1, <2>1, <2>3, <2>4
<1> QED
  BY <1>1, <1>2 DEF SchedInit, ReadyInv

(***************************************************************************)
(* The inductive invariant.  It holds inside the critical sections too,    *)
(* where the invariants of RK0Mutex say nothing.                           *)
(***************************************************************************)

(* The states of a task that a waiting queue links. *)
Asleep == Suspended \cup {"SLEEPQ_BLOCKED"}

(* The task the tick is taking out of its wait, and the one an unlock is   *)
(* making the owner: each is in no queue and not READY yet.                *)
Dropped(t) == section = "expire" /\ wakePtr = t
Given(t)   == section \in {"unlock", "give"} /\ wakePtr = t

(* What a queue knows of a task it links: no other queue does, and for a   *)
(* mutex that the task is blocked in its kMutexLock.  A pointer back to    *)
(* the queue is sure to be set only for a mutex or in a bounded wait.      *)
LinkInv(t, q) ==
    /\ status[t] \in Asleep
    /\ \A r \in Mutex \cup Queue : r # q => t \notin ToSet(waitingQueue[r])
    /\ q \in Mutex => /\ status[t] = "BLOCKED"
                       /\ waitingQueuePtr[t] = q
                       /\ waitingForMutexPtr[t] = q
    /\ q \in Queue => waitingQueuePtr[t] = IF timeoutType[t] = "BLOCKING" THEN q ELSE NoMutex

(* A waiting queue holds each of its tasks once.  A task blocked on a      *)
(* mutex is in its queue, but for the one the tick has just taken out and  *)
(* not yet made ready.                                                     *)
WaitInv ==
    /\ \A q \in Mutex \cup Queue :
         /\ IsInjective(waitingQueue[q])
         /\ \A t \in Task : t \in ToSet(waitingQueue[q]) => LinkInv(t, q)
    /\ \A m \in Mutex : \A t \in Task :
         status[t] = "BLOCKED" /\ waitingForMutexPtr[t] = m =>
             t \in ToSet(waitingQueue[m]) \/ Dropped(t)

(* A task in kMutexLock waits for the mutex of that call, or was told that *)
(* it may not any longer; while it is suspended, it is in the queue, or on *)
(* its way out of it.                                                      *)
LockerInv ==
    \A t \in Task :
        /\ waitingForMutexPtr[t] # NoMutex =>
             /\ lockCall[t] = waitingForMutexPtr[t]
             /\ status[t] = "BLOCKED" \/ timeOut[t]
        /\ lockCall[t] # NoMutex /\ status[t] \in Suspended =>
             Dropped(t) \/ Given(t) \/ t \in ToSet(waitingQueue[lockCall[t]])

(* An armed node, or a queue pointer, belongs to a task that sleeps or is  *)
(* suspended.                                                              *)
TimeoutInv ==
    \A t \in Task :
        /\ timeoutType[t] = "TIME_EVENT" => status[t] = "SLEEPING_DELAY"
        /\ timeoutType[t] = "BLOCKING" => status[t] \in Suspended
        /\ waitingQueuePtr[t] # NoMutex => status[t] \in Suspended

(* The task a section is about to make ready is suspended, in no queue.    *)
WakeInv ==
    /\ section \in {"give", "expire"} => wakePtr # NoTask
    /\ section \in {"unlock", "give", "expire"} /\ wakePtr # NoTask =>
         /\ status[wakePtr] \in Suspended
         /\ \A q \in Mutex \cup Queue : wakePtr \notin ToSet(waitingQueue[q])
    /\ section \in {"unlock", "give"} /\ wakePtr # NoTask =>
         /\ status[wakePtr] = "BLOCKED"
         /\ timeoutType[wakePtr] = "none" /\ waitingQueuePtr[wakePtr] = NoMutex
         /\ waitingForMutexPtr[wakePtr] = NoMutex

(* Who executes. *)
RunInv ==
    /\ section = "lock" => status[runPtr] = "BLOCKED"
    /\ section = "expired" => status[runPtr] \in {"READY", "RUNNING"}
    /\ section # "lock" /\ ~pendSV =>
         \/ status[runPtr] = "RUNNING"
         \/ status[runPtr] = "READY" /\ schLock > 0 /\ pendingCtxtSwtch

(* Idle can always run, at its own level. *)
IdleInv ==
    /\ status[Idle] \in {"READY", "RUNNING"}
    /\ priority[Idle] = IdlePrio
    /\ \A m \in Mutex : ownerPtr[m] # Idle

(* OwnershipConsistent, of the tasks a queue links. *)
OwnInv ==
    \A m \in Mutex :
        /\ lock[m] <=> ownerPtr[m] # NoTask
        /\ \A t \in Task :
             /\ m \in ownedMutexList[t] <=> ownerPtr[m] = t
             /\ t \in ToSet(waitingQueue[m]) => lock[m] /\ ownerPtr[m] # t

IInv == /\ TypeOK /\ ReadyInv /\ WaitInv /\ LockerInv /\ TimeoutInv /\ WakeInv /\ RunInv
        /\ IdleInv /\ OwnInv

USE MutexAssumption, SchedAssumption

LEMMA InitInv == Init => IInv
<1> SUFFICES ASSUME Init PROVE IInv
  OBVIOUS
<1>1. SchedTypeOK /\ ReadyInv /\ runPtr \in Task
      /\ \A t \in Task : status[t] = IF t = runPtr THEN "RUNNING" ELSE "READY"
  BY SchedInitType, SchedInitInv DEF Init, SchedTypeOK
<1>2. TypeOK
  BY <1>1 DEF Init, TypeOK, Section
<1>3. \A q \in Mutex \cup Queue : waitingQueue[q] = <<>> /\ ToSet(waitingQueue[q]) = {}
  BY ToSetEmpty DEF Init
<1>4. IsInjective(<<>>)
  BY DEF IsInjective
<1>5. WaitInv /\ LockerInv /\ TimeoutInv /\ WakeInv /\ RunInv
  BY <1>1, <1>3, <1>4 DEF Init, Suspended, WaitInv, LinkInv, LockerInv, Dropped, Given, TimeoutInv,
                          WakeInv, RunInv
<1>6. IdleInv
  BY <1>1 DEF Init, SchedInit, IdleInv
<1>7. OwnInv
  BY <1>3 DEF Init, OwnInv
<1> QED
  BY <1>1, <1>2, <1>5, <1>6, <1>7 DEF IInv

(* A task that does not sleep is in no waiting queue. *)
LEMMA NotLinked ==
    ASSUME WaitInv, NEW t \in Task, status[t] \notin Asleep, NEW q \in Mutex \cup Queue
    PROVE  t \notin ToSet(waitingQueue[q])
  BY DEF WaitInv, LinkInv

(* What the steps of the priority chain and of the scheduler do to those   *)
(* who wait: nothing.                                                      *)
Undisturbed ==
    /\ UNCHANGED <<waitingForMutexPtr, timeoutVars, lockCall>>
    /\ \A t \in Task : /\ \/ status'[t] = status[t]
                          \/ {status[t], status'[t]} \subseteq {"READY", "RUNNING"}
                       /\ Dropped(t)' <=> Dropped(t)
                       /\ Given(t)' <=> Given(t)
    /\ \A q \in Mutex \cup Queue : /\ IsInjective(waitingQueue'[q])
                                   /\ ToSet(waitingQueue'[q]) = ToSet(waitingQueue[q])

LEMMA UndisturbedInv ==
    ASSUME TypeOK, WaitInv, LockerInv, TimeoutInv, Undisturbed
    PROVE  WaitInv' /\ LockerInv' /\ TimeoutInv'
<1>1. \A t \in Task : /\ status'[t] \in Asleep <=> status[t] \in Asleep
                      /\ status'[t] \in Suspended <=> status[t] \in Suspended
                      /\ status'[t] = "BLOCKED" <=> status[t] = "BLOCKED"
                      /\ status'[t] = "SLEEPING_DELAY" <=> status[t] = "SLEEPING_DELAY"
  BY DEF Undisturbed, Asleep, Suspended
<1>2. \A t \in Task : (Dropped(t)' <=> Dropped(t)) /\ (Given(t)' <=> Given(t))
  BY DEF Undisturbed
<1>3. /\ waitingForMutexPtr' = waitingForMutexPtr /\ timeoutType' = timeoutType
      /\ waitingQueuePtr' = waitingQueuePtr /\ timeOut' = timeOut /\ lockCall' = lockCall
  BY DEF Undisturbed, timeoutVars
<1>4. \A q \in Mutex \cup Queue : /\ IsInjective(waitingQueue'[q])
                                  /\ ToSet(waitingQueue'[q]) = ToSet(waitingQueue[q])
  BY DEF Undisturbed
<1>5. ASSUME NEW t \in Task, NEW q \in Mutex \cup Queue, LinkInv(t, q)
      PROVE  LinkInv(t, q)'
  BY <1>1, <1>3, <1>4, <1>5 DEF LinkInv
<1>6. WaitInv'
  BY <1>1, <1>2, <1>3, <1>4, <1>5 DEF WaitInv
<1>7. LockerInv'
  <2>1. \A t \in Task : lockCall[t] # NoMutex => lockCall[t] \in Mutex
    BY DEF TypeOK
  <2> QED
    BY <1>1, <1>2, <1>3, <1>4, <2>1 DEF LockerInv
<1>8. TimeoutInv'
  BY <1>1, <1>3 DEF TimeoutInv
<1> QED
  BY <1>6, <1>7, <1>8

(***************************************************************************)
(* kMutexLock.                                                             *)
(***************************************************************************)
LEMMA LockFreeInv == ASSUME IInv, NEW m \in Mutex, LockFree(m) PROVE IInv'
<1> USE DEF IInv
<1>1. /\ UNCHANGED schedVars
      /\ UNCHANGED <<waitingQueue, waitingForMutexPtr, timeoutVars, lockCall, sectionVars>>
  BY DEF LockFree
<1>2. runPtr \in Task /\ runPtr # Idle /\ ~lock[m]
  BY DEF LockFree, Calling, Executing, TypeOK, SchedTypeOK
<1>3. TypeOK'
  BY <1>1, <1>2 DEF LockFree, TypeOK, SchedTypeOK, schedVars, timeoutVars, sectionVars
<1>4. ReadyInv'
  BY <1>1 DEF ReadyInv, schedVars
<1>5. WaitInv' /\ LockerInv' /\ TimeoutInv' /\ WakeInv' /\ RunInv'
  BY <1>1 DEF WaitInv, LinkInv, LockerInv, Dropped, Given, TimeoutInv, WakeInv, RunInv,
              schedVars, timeoutVars, sectionVars
<1>6. IdleInv'
  BY <1>1, <1>2 DEF IdleInv, LockFree, TypeOK, schedVars
<1>7. OwnInv'
  BY <1>1, <1>2 DEF OwnInv, LockFree, TypeOK
<1> QED
  BY <1>3, <1>4, <1>5, <1>6, <1>7


LEMMA LockBlockInv ==
    ASSUME IInv, NEW m \in Mutex, NEW timed \in BOOLEAN, LockBlock(m, timed)
    PROVE  IInv'
<1> USE DEF IInv
<1>1. /\ UNCHANGED <<priority, tcbSchLock, readyQueue, readyBitmask, runPtr, schLock,
                     pendSV, pendingCtxtSwtch, lock, ownerPtr, ownedMutexList>>
      /\ section = "open" /\ section' = "lock" /\ wakePtr' = NoTask
      /\ chainPtr' = OwnerPrioChain(m, ownerPtr[m])
  BY DEF LockBlock, swtchVars, Enter, Calling, Executing
<1>2. /\ runPtr \in Task /\ runPtr # Idle /\ status[runPtr] = "RUNNING"
      /\ lock[m] /\ ownerPtr[m] # runPtr
  BY DEF LockBlock, Calling, Executing, TypeOK, SchedTypeOK
<1>3. /\ status' = [status EXCEPT ![runPtr] = "BLOCKED"]
      /\ waitingQueuePtr' = [waitingQueuePtr EXCEPT ![runPtr] = m]
      /\ waitingForMutexPtr' = [waitingForMutexPtr EXCEPT ![runPtr] = m]
      /\ timeoutType' = [timeoutType EXCEPT ![runPtr] = IF timed THEN "BLOCKING" ELSE @]
  BY DEF LockBlock
<1> DEFINE q == TCBQEnqByPrio(waitingQueue[m], runPtr, priority)
<1>4. waitingQueue' = [waitingQueue EXCEPT ![m] = q]
  BY DEF LockBlock
<1>5. /\ waitingQueue[m] \in Seq(Task) /\ IsInjective(waitingQueue[m])
      /\ priority \in [Task -> Prio] /\ runPtr \notin ToSet(waitingQueue[m])
  BY <1>2, NotLinked DEF TypeOK, SchedTypeOK, WaitInv, Asleep, Suspended
<1>6. q \in Seq(Task) /\ IsInjective(q) /\ ToSet(q) = ToSet(waitingQueue[m]) \cup {runPtr}
  BY <1>2, <1>5, TCBQEnqLemma
<1> HIDE DEF q
<1>7. TypeOK'
  <2>1. waitingQueue' \in [Mutex \cup Queue -> Seq(Task)]
    BY <1>4, <1>6 DEF TypeOK
  <2>2. SchedTypeOK'
    BY <1>1, <1>3 DEF TypeOK, SchedTypeOK, Status
  <2>3. chainPtr' \in Task \cup {NoTask}
    BY <1>1 DEF OwnerPrioChain, TypeOK
  <2>4. timeoutType' \in [Task -> {"none", "BLOCKING", "TIME_EVENT"}]
    BY <1>3 DEF TypeOK
  <2>5. timeOut' \in [Task -> BOOLEAN]
    BY DEF LockBlock, TypeOK
  <2>6. lockCall' \in [Task -> Mutex \cup {NoMutex}]
    BY DEF LockBlock, TypeOK
  <2> QED
    BY <1>1, <1>3, <2>1, <2>2, <2>3, <2>4, <2>5, <2>6 DEF TypeOK, Section
<1>8. ReadyInv'
  BY <1>1, <1>2, <1>3, SuspendInv DEF TypeOK, Status
<1>9. WaitInv' /\ LockerInv'
  <2>1. \A n \in Mutex \cup Queue : waitingQueue'[n] = IF n = m THEN q ELSE waitingQueue[n]
    BY <1>4 DEF TypeOK
  <2>2. \A n \in Mutex \cup Queue : /\ IsInjective(waitingQueue'[n])
                                    /\ runPtr \in ToSet(waitingQueue'[n]) <=> n = m
    BY <1>2, <1>6, <2>1, NotLinked DEF WaitInv, Asleep, Suspended
  <2>3. \A t \in Task \ {runPtr} : \A n \in Mutex \cup Queue :
            t \in ToSet(waitingQueue'[n]) <=> t \in ToSet(waitingQueue[n])
    BY <1>6, <2>1
  <2>4. \A t \in Task : ~Dropped(t) /\ ~Given(t)
    BY <1>1 DEF Dropped, Given
  <2>5. \A t \in Task \ {runPtr} :
           /\ status'[t] = status[t] /\ waitingQueuePtr'[t] = waitingQueuePtr[t]
           /\ waitingForMutexPtr'[t] = waitingForMutexPtr[t]
           /\ timeoutType'[t] = timeoutType[t] /\ timeOut'[t] = timeOut[t]
           /\ lockCall'[t] = lockCall[t]
    BY <1>3 DEF LockBlock, TypeOK, SchedTypeOK
  <2>6. /\ status'[runPtr] = "BLOCKED" /\ waitingQueuePtr'[runPtr] = m
        /\ waitingForMutexPtr'[runPtr] = m /\ lockCall'[runPtr] = m
    BY <1>2, <1>3 DEF LockBlock, TypeOK, SchedTypeOK
  <2>7. ASSUME NEW t \in Task, NEW n \in Mutex \cup Queue, t \in ToSet(waitingQueue'[n])
        PROVE  LinkInv(t, n)'
    <3>1. CASE t = runPtr
      BY <2>2, <2>6, <2>7, <3>1 DEF LinkInv, Asleep, Suspended
    <3>2. CASE t # runPtr
      BY <2>3, <2>5, <2>7, <3>2 DEF WaitInv, LinkInv
    <3> QED
      BY <3>1, <3>2
  <2>8. ASSUME NEW t \in Task, NEW n \in Mutex, status'[t] = "BLOCKED", waitingForMutexPtr'[t] = n
        PROVE  t \in ToSet(waitingQueue'[n])
    <3>1. CASE t = runPtr
      BY <2>2, <2>6, <2>8, <3>1
    <3>2. CASE t # runPtr
      BY <2>3, <2>4, <2>5, <2>8, <3>2 DEF WaitInv
    <3> QED
      BY <3>1, <3>2
  <2>9. WaitInv'
    BY <2>2, <2>7, <2>8 DEF WaitInv
  <2>10. LockerInv'
    <3> SUFFICES ASSUME NEW t \in Task
                 PROVE  /\ waitingForMutexPtr'[t] # NoMutex =>
                             /\ lockCall'[t] = waitingForMutexPtr'[t]
                             /\ status'[t] = "BLOCKED" \/ timeOut'[t]
                        /\ lockCall'[t] # NoMutex /\ status'[t] \in Suspended =>
                             t \in ToSet(waitingQueue'[lockCall'[t]])
      BY DEF LockerInv
    <3>1. CASE t = runPtr
      BY <2>2, <2>6, <3>1
    <3>2. CASE t # runPtr
      <4>1. lockCall[t] # NoMutex => lockCall[t] \in Mutex
        BY DEF TypeOK
      <4> QED
        BY <2>3, <2>4, <2>5, <3>2, <4>1 DEF LockerInv
    <3> QED
      BY <3>1, <3>2
  <2> QED
    BY <2>9, <2>10
<1>10. TimeoutInv' /\ WakeInv' /\ RunInv'
  BY <1>1, <1>2, <1>3 DEF TimeoutInv, WakeInv, RunInv, TypeOK, SchedTypeOK, Suspended
<1>11. IdleInv'
  BY <1>1, <1>2, <1>3 DEF IdleInv, TypeOK, SchedTypeOK
<1>12. OwnInv'
  <2>1. \A n \in Mutex : waitingQueue'[n] = IF n = m THEN q ELSE waitingQueue[n]
    BY <1>4 DEF TypeOK
  <2> QED
    BY <1>1, <1>2, <1>6, <2>1 DEF OwnInv
<1> QED
  BY <1>7, <1>8, <1>9, <1>10, <1>11, <1>12

(* The steps that only open or close a section, ask for a switch, or clear *)
(* what a call left behind.                                                *)
LEMMA LockPendInv == ASSUME IInv, LockPend PROVE IInv'
<1> USE DEF IInv
<1>1. /\ UNCHANGED <<status, priority, tcbSchLock, readyQueue, readyBitmask, runPtr, schLock>>
      /\ UNCHANGED mutexVars /\ UNCHANGED timeoutVars /\ UNCHANGED lockCall
      /\ section = "lock" /\ section' = "open" /\ chainPtr' = NoTask /\ wakePtr' = NoTask
  BY DEF LockPend, Leave
<1>2. status[runPtr] = "BLOCKED" /\ pendSV' = TRUE /\ pendingCtxtSwtch' = FALSE
  BY <1>1 DEF LockPend, RunInv, PendCtxSwtch, PendCtxSwtchNow
<1>3. TypeOK'
  BY <1>1, <1>2 DEF TypeOK, SchedTypeOK, mutexVars, timeoutVars, Section
<1>4. ReadyInv'
  BY <1>1 DEF ReadyInv
<1>5. WaitInv' /\ LockerInv' /\ TimeoutInv' /\ WakeInv' /\ RunInv' /\ IdleInv' /\ OwnInv'
  BY <1>1, <1>2 DEF WaitInv, LinkInv, LockerInv, Dropped, Given, TimeoutInv, WakeInv,
                    RunInv, IdleInv, OwnInv, mutexVars, timeoutVars
<1> QED
  BY <1>3, <1>4, <1>5

LEMMA LockResumeExpiredInv == ASSUME IInv, LockResumeExpired PROVE IInv'
<1> USE DEF IInv
<1> DEFINE m == lockCall[runPtr]
<1>1. /\ UNCHANGED schedVars /\ UNCHANGED mutexVars /\ UNCHANGED timeoutVars
      /\ UNCHANGED lockCall
      /\ section = "open" /\ section' = "expired" /\ wakePtr' = NoTask
      /\ chainPtr' = OwnerPrioChain(m, ownerPtr[m])
      /\ m # NoMutex /\ ~pendSV
  BY DEF LockResumeExpired, Enter, Executing
<1>2. m \in Mutex /\ chainPtr' \in Task \cup {NoTask}
  BY <1>1 DEF OwnerPrioChain, TypeOK, SchedTypeOK
<1>3. TypeOK'
  BY <1>1, <1>2 DEF TypeOK, SchedTypeOK, schedVars, mutexVars, timeoutVars, Section
<1>4. ReadyInv'
  BY <1>1 DEF ReadyInv, schedVars
<1>5. WaitInv' /\ LockerInv' /\ TimeoutInv' /\ WakeInv' /\ RunInv' /\ IdleInv' /\ OwnInv'
  BY <1>1 DEF WaitInv, LinkInv, LockerInv, Dropped, Given, TimeoutInv, WakeInv, RunInv,
              IdleInv, OwnInv, mutexVars, timeoutVars, schedVars
<1> QED
  BY <1>3, <1>4, <1>5

LEMMA LockTimeoutInv == ASSUME IInv, LockTimeout PROVE IInv'
<1> USE DEF IInv
<1>1. /\ UNCHANGED schedVars
      /\ UNCHANGED <<lock, ownerPtr, waitingQueue, ownedMutexList, timeoutType, waitingQueuePtr>>
      /\ waitingForMutexPtr' = [waitingForMutexPtr EXCEPT ![runPtr] = NoMutex]
      /\ section = "expired" /\ section' = "open" /\ chainPtr' = NoTask /\ wakePtr' = NoTask
  BY DEF LockTimeout, Leave
<1>2. runPtr \in Task /\ status[runPtr] \in {"READY", "RUNNING"}
  BY <1>1 DEF RunInv, TypeOK, SchedTypeOK
<1>3. TypeOK'
  BY <1>1, <1>2 DEF LockTimeout, TypeOK, SchedTypeOK, schedVars, Section
<1>4. ReadyInv'
  BY <1>1 DEF ReadyInv, schedVars
<1>5. /\ waitingForMutexPtr'[runPtr] = NoMutex /\ lockCall'[runPtr] = NoMutex
      /\ \A t \in Task \ {runPtr} : /\ waitingForMutexPtr'[t] = waitingForMutexPtr[t]
                                    /\ lockCall'[t] = lockCall[t] /\ timeOut'[t] = timeOut[t]
      /\ \A t \in Task : ~Dropped(t) /\ ~Given(t)
  BY <1>1, <1>2 DEF LockTimeout, TypeOK, Dropped, Given
<1>6. WaitInv'
  <2>1. ASSUME NEW t \in Task, NEW q \in Mutex \cup Queue, t \in ToSet(waitingQueue'[q])
        PROVE  LinkInv(t, q)'
    <3>1. LinkInv(t, q) /\ t # runPtr
      BY <1>1, <1>2, <2>1 DEF WaitInv, LinkInv, Asleep, Suspended
    <3> QED
      BY <1>1, <1>5, <3>1 DEF LinkInv, schedVars
  <2> QED
    BY <1>1, <1>5, <2>1 DEF WaitInv, schedVars
<1>7. LockerInv'
  BY <1>1, <1>5 DEF LockerInv, schedVars
<1>8. TimeoutInv' /\ WakeInv' /\ RunInv' /\ IdleInv' /\ OwnInv'
  BY <1>1 DEF TimeoutInv, WakeInv, RunInv, IdleInv, OwnInv, schedVars
<1> QED
  BY <1>3, <1>4, <1>6, <1>7, <1>8

LEMMA LockSuccessInv == ASSUME IInv, LockSuccess PROVE IInv'
<1> USE DEF IInv
<1>1. /\ UNCHANGED schedVars /\ UNCHANGED mutexVars /\ UNCHANGED sectionVars
      /\ section = "open" /\ ~pendSV /\ runPtr \in Task
  BY DEF LockSuccess, Executing, TypeOK, SchedTypeOK
<1>2. timeoutType[runPtr] = "none"
  BY <1>1 DEF RunInv, TimeoutInv, TypeOK, Suspended
<1>3. UNCHANGED <<timeoutType, waitingQueuePtr, timeOut>>
  BY <1>2 DEF LockSuccess
<1>4. TypeOK'
  BY <1>1, <1>3 DEF LockSuccess, TypeOK, SchedTypeOK, schedVars, mutexVars, sectionVars
<1>5. ReadyInv'
  BY <1>1 DEF ReadyInv, schedVars
<1>6. WaitInv' /\ TimeoutInv' /\ WakeInv' /\ RunInv' /\ IdleInv' /\ OwnInv'
  BY <1>1, <1>3 DEF WaitInv, LinkInv, Dropped, Given, TimeoutInv, WakeInv, RunInv, IdleInv,
                    OwnInv, schedVars, mutexVars, sectionVars
<1>7. LockerInv'
  <2>1. status[runPtr] \in {"READY", "RUNNING"} /\ ~timeOut[runPtr]
    BY <1>1 DEF RunInv, LockSuccess
  <2>2. waitingForMutexPtr[runPtr] = NoMutex
    BY <1>1, <2>1 DEF LockerInv
  <2>3. /\ lockCall'[runPtr] = NoMutex
        /\ \A t \in Task \ {runPtr} : lockCall'[t] = lockCall[t]
    BY <1>1 DEF LockSuccess, TypeOK
  <2> QED
    BY <1>1, <1>3, <2>2, <2>3 DEF LockerInv, Dropped, Given, schedVars, mutexVars, sectionVars
<1> QED
  BY <1>4, <1>5, <1>6, <1>7

(***************************************************************************)
(* kTaskUpdateEffectivePrioChain.                                          *)
(***************************************************************************)
LEMMA EffectivePrioType ==
    ASSUME TypeOK, NEW t \in Task
    PROVE  EffectivePrio(t) \in Prio
<1> DEFINE O == {n \in ownedMutexList[t] \cap Inheriting : waitingQueue[n] # <<>>}
           P == {Nominal[t]} \cup {priority[Head(waitingQueue[m])] : m \in O}
<1>1. \A m \in O : priority[Head(waitingQueue[m])] \in Prio
  <2> TAKE m \in O
  <2>1. waitingQueue[m] \in Seq(Task) /\ waitingQueue[m] # <<>>
    BY DEF TypeOK
  <2>2. Head(waitingQueue[m]) \in Task
    BY <2>1, TailLemma
  <2> QED
    BY <2>2 DEF TypeOK, SchedTypeOK
<1>2. P \in SUBSET Prio /\ P # {} /\ P \in SUBSET Nat
  BY <1>1, PrioNat
<1>3. Min(P) \in P
  BY <1>2, MinOfNats
<1> QED
  BY <1>2, <1>3 DEF EffectivePrio, OwnedMutexPipPrio

(* A requeued waiter stays in its queue, and everybody else too. *)
LEMMA RequeueLemma ==
    ASSUME TypeOK, NEW t \in Task, NEW prio \in [Task -> Prio], Requeue(t, prio),
           \A q \in Mutex \cup Queue : IsInjective(waitingQueue[q])
    PROVE  /\ waitingQueue' \in [Mutex \cup Queue -> Seq(Task)]
           /\ \A q \in Mutex \cup Queue : /\ IsInjective(waitingQueue'[q])
                                          /\ ToSet(waitingQueue'[q]) = ToSet(waitingQueue[q])
<1> DEFINE m == waitingQueuePtr[t]
           q == TCBQEnqByPrio(TCBQRem(waitingQueue[m], t), t, prio)
<1>1. CASE UNCHANGED waitingQueue
  BY <1>1 DEF TypeOK
<1>2. CASE /\ m # NoMutex /\ Contains(waitingQueue[m], t)
           /\ waitingQueue' = [waitingQueue EXCEPT ![m] = q]
  <2>1. m \in Mutex \cup Queue /\ waitingQueue[m] \in Seq(Task) /\ t \in ToSet(waitingQueue[m])
    BY <1>2, InToSet DEF TypeOK
  <2> DEFINE r == TCBQRem(waitingQueue[m], t)
  <2>2. /\ r \in Seq(Task) /\ IsInjective(r) /\ t \notin ToSet(r)
        /\ ToSet(r) \subseteq ToSet(waitingQueue[m])
        /\ ToSet(waitingQueue[m]) \ {t} \subseteq ToSet(r)
    BY <2>1, TCBQRemLemma
  <2> HIDE DEF r
  <2>3. /\ TCBQEnqByPrio(r, t, prio) \in Seq(Task) /\ IsInjective(TCBQEnqByPrio(r, t, prio))
        /\ ToSet(TCBQEnqByPrio(r, t, prio)) = ToSet(r) \cup {t}
    BY <2>2, TCBQEnqLemma
  <2>4. q \in Seq(Task) /\ IsInjective(q) /\ ToSet(q) = ToSet(waitingQueue[m])
    BY <2>1, <2>2, <2>3 DEF r
  <2> HIDE DEF q, m
  <2>5. waitingQueue' \in [Mutex \cup Queue -> Seq(Task)]
    BY <1>2, <2>4 DEF TypeOK
  <2>6. \A n \in Mutex \cup Queue : waitingQueue'[n] = IF n = m THEN q ELSE waitingQueue[n]
    BY <1>2 DEF TypeOK
  <2> QED
    BY <2>4, <2>5, <2>6
<1> QED
  BY <1>1, <1>2 DEF Requeue

LEMMA ChainStepInv == ASSUME IInv, ChainStep PROVE IInv'
<1> USE DEF IInv
<1> DEFINE t == chainPtr
           p == EffectivePrio(t)
<1>1. /\ UNCHANGED <<lock, ownerPtr, ownedMutexList, waitingForMutexPtr, timeoutVars,
                     lockCall, section, wakePtr>>
      /\ t \in Task /\ chainPtr' = NextInChain(t, p)
  BY DEF ChainStep, TypeOK
<1>2. p \in Prio
  BY <1>1, EffectivePrioType
<1>3. chainPtr' \in Task \cup {NoTask}
  <2>1. waitingForMutexPtr[t] \in Inheriting =>
          ownerPtr[waitingForMutexPtr[t]] \in Task \cup {NoTask}
    BY <1>1 DEF TypeOK
  <2> QED
    BY <1>1, <2>1 DEF NextInChain
<1>4. CASE UNCHANGED <<schedVars, waitingQueue>>
  <2>1. TypeOK'
    BY <1>1, <1>3, <1>4 DEF TypeOK, SchedTypeOK, schedVars, timeoutVars
  <2>2. ReadyInv'
    BY <1>4 DEF ReadyInv, schedVars
  <2>3. WaitInv' /\ LockerInv' /\ TimeoutInv' /\ WakeInv' /\ RunInv' /\ IdleInv' /\ OwnInv'
    BY <1>1, <1>4 DEF WaitInv, LinkInv, LockerInv, Dropped, Given, TimeoutInv, WakeInv,
                      RunInv, IdleInv, OwnInv, schedVars, timeoutVars
  <2> QED
    BY <2>1, <2>2, <2>3
<1>5. CASE /\ p # priority[t]
           /\ UpdateEffectivePrio(t, p)
           /\ Requeue(t, [priority EXCEPT ![t] = p])
           /\ UNCHANGED <<status, tcbSchLock, runPtr, schLock>>
  <2> HIDE DEF p
  <2>1. SchedTypeOK' /\ ReadyInv'
    BY <1>1, <1>2, <1>5, UpdateEffectivePrioType, UpdateEffectivePrioInv DEF TypeOK
  <2>2. [priority EXCEPT ![t] = p] \in [Task -> Prio]
    BY <1>2 DEF TypeOK, SchedTypeOK
  <2>3. /\ waitingQueue' \in [Mutex \cup Queue -> Seq(Task)]
        /\ \A q \in Mutex \cup Queue : /\ IsInjective(waitingQueue'[q])
                                       /\ ToSet(waitingQueue'[q]) = ToSet(waitingQueue[q])
    BY <1>1, <1>5, <2>2, RequeueLemma DEF WaitInv
  <2>4. TypeOK'
    BY <1>1, <1>3, <2>1, <2>3 DEF TypeOK, timeoutVars
  <2>5. WaitInv' /\ LockerInv' /\ TimeoutInv' /\ WakeInv' /\ OwnInv'
    <3>1. Undisturbed
      BY <1>1, <1>5, <2>3 DEF Undisturbed, Dropped, Given
    <3>2. WakeInv' /\ OwnInv'
      BY <1>1, <1>5, <2>3 DEF WakeInv, OwnInv, timeoutVars
    <3> QED
      BY <3>1, <3>2, UndisturbedInv
  <2>6. RunInv'
    <3>1. ~pendSV' => ~pendSV /\ (pendingCtxtSwtch => pendingCtxtSwtch')
      BY ReschedKeeps, <1>5 DEF UpdateEffectivePrio, TypeOK, swtchVars
    <3> QED
      BY <1>1, <1>5, <3>1 DEF RunInv
  <2>7. IdleInv'
    <3>1. t # Idle
      <4> SUFFICES ASSUME t = Idle PROVE FALSE
        OBVIOUS
      <4>1. ownedMutexList[Idle] = {}
        BY DEF OwnInv, IdleInv, TypeOK
      <4>2. p = Min({Nominal[Idle]} \cup {})
        BY <4>1 DEF p, EffectivePrio, OwnedMutexPipPrio
      <4>3. {IdlePrio} \cup {} \in SUBSET Nat /\ {IdlePrio} \cup {} # {}
        BY PrioNat
      <4>4. p = IdlePrio
        BY <4>2, <4>3, MinOfNats
      <4> QED
        BY <1>5, <4>4 DEF IdleInv
    <3>2. priority' = [priority EXCEPT ![t] = p]
      BY <1>5 DEF UpdateEffectivePrio
    <3> QED
      BY <1>1, <1>5, <3>1, <3>2 DEF IdleInv, TypeOK, SchedTypeOK
  <2> QED
    BY <2>1, <2>4, <2>5, <2>6, <2>7
<1> QED
  BY <1>4, <1>5 DEF ChainStep

(***************************************************************************)
(* kMutexUnlock.                                                           *)
(***************************************************************************)
LEMMA UnlockFreeInv == ASSUME IInv, NEW m \in Mutex, UnlockFree(m) PROVE IInv'
<1> USE DEF IInv
<1>1. /\ UNCHANGED schedVars /\ UNCHANGED timeoutVars
      /\ UNCHANGED <<waitingQueue, waitingForMutexPtr, lockCall>>
      /\ section = "open" /\ section' = "unlock" /\ wakePtr' = NoTask
      /\ chainPtr' = OwnerPrioChain(m, runPtr)
      /\ ~pendSV /\ runPtr \in Task /\ runPtr # Idle
      /\ ownerPtr[m] = runPtr /\ ToSet(waitingQueue[m]) = {}
  BY ToSetEmpty DEF UnlockFree, Enter, Calling, Executing, TypeOK, SchedTypeOK
<1>2. TypeOK'
  BY <1>1 DEF UnlockFree, TypeOK, SchedTypeOK, schedVars, timeoutVars, Section,
              OwnerPrioChain
<1>3. ReadyInv'
  BY <1>1 DEF ReadyInv, schedVars
<1>4. WaitInv' /\ LockerInv' /\ TimeoutInv' /\ WakeInv' /\ RunInv'
  BY <1>1 DEF WaitInv, LinkInv, LockerInv, Dropped, Given, TimeoutInv, WakeInv, RunInv,
              schedVars, timeoutVars
<1>5. IdleInv' /\ OwnInv'
  BY <1>1 DEF UnlockFree, IdleInv, OwnInv, TypeOK, schedVars
<1> QED
  BY <1>2, <1>3, <1>4, <1>5

LEMMA UnlockHandOffInv == ASSUME IInv, NEW m \in Mutex, UnlockHandOff(m) PROVE IInv'
<1> USE DEF IInv
<1> DEFINE w == Head(waitingQueue[m])
           rest == Tail(waitingQueue[m])
<1>1. /\ UNCHANGED schedVars /\ UNCHANGED <<lock, timeOut, lockCall>>
      /\ section = "open" /\ ~pendSV /\ runPtr \in Task /\ runPtr # Idle
      /\ lock[m] /\ ownerPtr[m] = runPtr
  BY DEF UnlockHandOff, Calling, Executing, TypeOK, SchedTypeOK
<1>2. /\ w \in Task /\ w \in ToSet(waitingQueue[m])
      /\ rest \in Seq(Task) /\ IsInjective(rest) /\ w \notin ToSet(rest)
      /\ ToSet(rest) \subseteq ToSet(waitingQueue[m])
      /\ ToSet(waitingQueue[m]) = ToSet(rest) \cup {w}
  <2>1. waitingQueue[m] \in Seq(Task) /\ IsInjective(waitingQueue[m]) /\ waitingQueue[m] # <<>>
    BY DEF UnlockHandOff, TypeOK, WaitInv
  <2> QED
    BY <2>1, TailLemma
<1>3. /\ waitingQueue' = [waitingQueue EXCEPT ![m] = rest]
      /\ Disarm(w) /\ GiveMutex(m, w)
      /\ waitingForMutexPtr' = [waitingForMutexPtr EXCEPT ![w] = NoMutex]
      /\ section' \in {"unlock", "give"} /\ wakePtr' = w
      /\ chainPtr' \in {runPtr, NoTask}
  BY DEF UnlockHandOff, Enter
<1> HIDE DEF w, rest
<1>4. /\ LinkInv(w, m) /\ status[w] = "BLOCKED" /\ waitingQueuePtr[w] = m
      /\ timeoutType[w] \in {"none", "BLOCKING"} /\ ownerPtr[m] # w
      /\ waitingForMutexPtr[w] = m
  BY <1>2 DEF WaitInv, LinkInv, TimeoutInv, OwnInv, TypeOK
<1>5. \A n \in Mutex \cup Queue : waitingQueue'[n] = IF n = m THEN rest ELSE waitingQueue[n]
  BY <1>3 DEF TypeOK
<1>6. /\ timeoutType' = [timeoutType EXCEPT ![w] = "none"]
      /\ waitingQueuePtr' = [waitingQueuePtr EXCEPT ![w] = NoMutex]
  BY <1>2, <1>3, <1>4 DEF Disarm, TypeOK
<1>7. TypeOK'
  <2>1. waitingQueue' \in [Mutex \cup Queue -> Seq(Task)]
    BY <1>2, <1>3 DEF TypeOK
  <2>2. ownerPtr' \in [Mutex -> Task \cup {NoTask}] /\ ownedMutexList' \in [Task -> SUBSET Mutex]
    <3>1. ownerPtr' \in [Mutex -> Task \cup {NoTask}]
      BY <1>2, <1>3 DEF GiveMutex, TypeOK
    <3>2. ownedMutexList \in [Task -> SUBSET Mutex]
      BY DEF TypeOK
    <3>3. ownedMutexList' =
            [ownedMutexList EXCEPT ![runPtr] = @ \ {m}, ![w] = @ \cup {m}]
      BY <1>3 DEF GiveMutex
    <3>4. ownedMutexList' \in [Task -> SUBSET Mutex]
      BY <1>1, <1>2, <3>2, <3>3
    <3> QED
      BY <3>1, <3>4
  <2>3. SchedTypeOK'
    BY <1>1 DEF TypeOK, SchedTypeOK, schedVars
  <2>4. timeoutType' \in [Task -> {"none", "BLOCKING", "TIME_EVENT"}]
    BY <1>6 DEF TypeOK
  <2> QED
    BY <1>1, <1>2, <1>3, <1>6, <2>1, <2>2, <2>3, <2>4 DEF TypeOK, Section
<1>8. ReadyInv'
  BY <1>1 DEF ReadyInv, schedVars
<1>9. \A n \in Mutex \cup Queue : w \notin ToSet(waitingQueue'[n])
  BY <1>2, <1>4, <1>5 DEF WaitInv, LinkInv
<1>10. WaitInv' /\ LockerInv'
  <2>1. \A t \in Task \ {w} :
          /\ waitingForMutexPtr'[t] = waitingForMutexPtr[t] /\ timeoutType'[t] = timeoutType[t]
          /\ waitingQueuePtr'[t] = waitingQueuePtr[t]
          /\ \A n \in Mutex \cup Queue :
               t \in ToSet(waitingQueue'[n]) <=> t \in ToSet(waitingQueue[n])
    BY <1>2, <1>3, <1>5, <1>6 DEF TypeOK
  <2>2. waitingForMutexPtr'[w] = NoMutex
    BY <1>2, <1>3 DEF TypeOK
  <2>3. \A t \in Task : ~Dropped(t) /\ ~Given(t)
    BY <1>1 DEF Dropped, Given
  <2>4. /\ status' = status /\ timeOut' = timeOut /\ lockCall' = lockCall
        /\ \A t \in Task : Given(t)' <=> t = w
    BY <1>1, <1>3 DEF schedVars, Given
  <2>5. \A n \in Mutex \cup Queue : IsInjective(waitingQueue'[n])
    BY <1>2, <1>5 DEF WaitInv
  <2>6. ASSUME NEW t \in Task, NEW n \in Mutex \cup Queue, t \in ToSet(waitingQueue'[n])
        PROVE  LinkInv(t, n)'
    <3>1. t # w /\ LinkInv(t, n)
      BY <1>9, <2>1, <2>6 DEF WaitInv
    <3> QED
      BY <2>1, <2>4, <3>1 DEF LinkInv
  <2>7. ASSUME NEW t \in Task, NEW n \in Mutex, status'[t] = "BLOCKED", waitingForMutexPtr'[t] = n
        PROVE  t \in ToSet(waitingQueue'[n])
    BY <2>1, <2>2, <2>3, <2>4, <2>7 DEF WaitInv
  <2>8. WaitInv'
    BY <2>5, <2>6, <2>7 DEF WaitInv
  <2>9. LockerInv'
    <3> SUFFICES ASSUME NEW t \in Task, t # w
                 PROVE  /\ waitingForMutexPtr'[t] # NoMutex =>
                             /\ lockCall'[t] = waitingForMutexPtr'[t]
                             /\ status'[t] = "BLOCKED" \/ timeOut'[t]
                        /\ lockCall'[t] # NoMutex /\ status'[t] \in Suspended =>
                             t \in ToSet(waitingQueue'[lockCall'[t]])
      BY <1>2, <2>2, <2>4 DEF LockerInv
    <3>1. lockCall[t] # NoMutex => lockCall[t] \in Mutex
      BY DEF TypeOK
    <3> QED
      BY <2>1, <2>3, <2>4, <3>1 DEF LockerInv
  <2> QED
    BY <2>8, <2>9
<1>11. TimeoutInv' /\ WakeInv' /\ RunInv'
  <2>1. TimeoutInv'
    BY <1>1, <1>2, <1>4, <1>6 DEF TimeoutInv, TypeOK, schedVars
  <2>2. WakeInv' /\ RunInv'
    BY <1>1, <1>2, <1>3, <1>4, <1>6, <1>9 DEF WakeInv, RunInv, TypeOK, Suspended, schedVars
  <2> QED
    BY <2>1, <2>2
<1>12. IdleInv'
  BY <1>1, <1>2, <1>3, <1>4 DEF IdleInv, GiveMutex, TypeOK, schedVars
<1>13. OwnInv'
  <2>1. \A n \in Mutex : /\ ownerPtr'[n] = IF n = m THEN w ELSE ownerPtr[n]
                         /\ lock'[n] = lock[n]
    BY <1>1, <1>3 DEF GiveMutex, TypeOK
  <2>2. \A t \in Task : ownedMutexList'[t] = IF t = w THEN ownedMutexList[t] \cup {m}
                                             ELSE IF t = runPtr THEN ownedMutexList[t] \ {m}
                                             ELSE ownedMutexList[t]
    BY <1>1, <1>3, <1>4 DEF GiveMutex, TypeOK
  <2> SUFFICES ASSUME NEW n \in Mutex, NEW t \in Task
               PROVE  /\ lock'[n] <=> ownerPtr'[n] # NoTask
                      /\ n \in ownedMutexList'[t] <=> ownerPtr'[n] = t
                      /\ t \in ToSet(waitingQueue'[n]) => lock'[n] /\ ownerPtr'[n] # t
    BY DEF OwnInv
  <2>3. CASE n = m
    <3>1. lock'[n] /\ ownerPtr'[n] = w /\ waitingQueue'[n] = rest
      BY <1>1, <1>5, <2>1, <2>3
    <3>0. m \in ownedMutexList[t] <=> t = runPtr
      BY <1>1 DEF OwnInv
    <3>2. m \in ownedMutexList'[t] <=> t = w
      BY <2>2, <3>0
    <3> QED
      BY <1>2, <2>3, <3>1, <3>2
  <2>4. CASE n # m
    <3>1. /\ lock'[n] = lock[n] /\ ownerPtr'[n] = ownerPtr[n]
          /\ waitingQueue'[n] = waitingQueue[n]
      BY <1>5, <2>1, <2>4
    <3>2. n \in ownedMutexList'[t] <=> n \in ownedMutexList[t]
      BY <2>2, <2>4
    <3> QED
      BY <3>1, <3>2 DEF OwnInv
  <2> QED
    BY <2>3, <2>4
<1> QED
  BY <1>7, <1>8, <1>10, <1>11, <1>12, <1>13

(* The steps that only move from one part of a section to the next. *)
LEMMA SectionMoveInv ==
    ASSUME IInv, UNCHANGED <<schedVars, mutexVars, timeoutVars, lockCall>>,
           \/ /\ section = "unlock" /\ wakePtr # NoTask
              /\ section' = "give" /\ chainPtr' = wakePtr /\ wakePtr' = wakePtr
           \/ /\ section = "unlock" /\ wakePtr = NoTask
              /\ section' = "open" /\ chainPtr' = NoTask /\ wakePtr' = NoTask
           \/ /\ section = "open"
              /\ section' = "tick" /\ chainPtr' = NoTask /\ wakePtr' = NoTask
    PROVE  IInv'
<1> USE DEF IInv
<1>1. TypeOK'
  BY DEF TypeOK, SchedTypeOK, schedVars, mutexVars, timeoutVars, Section
<1>2. ReadyInv'
  BY DEF ReadyInv, schedVars
<1>3. WaitInv' /\ LockerInv' /\ TimeoutInv' /\ WakeInv' /\ RunInv' /\ IdleInv' /\ OwnInv'
  BY DEF WaitInv, LinkInv, LockerInv, Dropped, Given, TimeoutInv, WakeInv, RunInv, IdleInv,
         OwnInv, schedVars, mutexVars, timeoutVars
<1> QED
  BY <1>1, <1>2, <1>3

(* An asleep or delayed task leaves the queue it may be in, its node is    *)
(* reset, and it becomes READY.                                            *)
MadeReady(w) ==
    /\ status' = [status EXCEPT ![w] = "READY"]
    /\ timeoutType' = [timeoutType EXCEPT ![w] = "none"]
    /\ waitingQueuePtr' = [waitingQueuePtr EXCEPT ![w] = NoMutex]
    /\ UNCHANGED <<waitingForMutexPtr, lockCall>>
    /\ \A t \in Task \ {w} : timeOut'[t] = timeOut[t]
    /\ waitingForMutexPtr[w] # NoMutex => timeOut'[w]
    /\ \A q \in Mutex \cup Queue :
         /\ IsInjective(waitingQueue'[q])
         /\ w \notin ToSet(waitingQueue'[q])
         /\ \A t \in Task \ {w} : t \in ToSet(waitingQueue'[q]) <=> t \in ToSet(waitingQueue[q])

LEMMA MadeReadyInv ==
    ASSUME TypeOK, WaitInv, LockerInv, TimeoutInv, NEW w \in Task, MadeReady(w),
           \A t \in Task \ {w} : ~Dropped(t) /\ ~Given(t)
    PROVE  WaitInv' /\ LockerInv' /\ TimeoutInv'
<1>1. /\ \A t \in Task \ {w} : /\ status'[t] = status[t] /\ timeoutType'[t] = timeoutType[t]
                               /\ waitingQueuePtr'[t] = waitingQueuePtr[t]
                               /\ timeOut'[t] = timeOut[t]
      /\ status'[w] = "READY" /\ timeoutType'[w] = "none" /\ waitingQueuePtr'[w] = NoMutex
  BY DEF TypeOK, SchedTypeOK, MadeReady
<1>2. /\ waitingForMutexPtr' = waitingForMutexPtr /\ lockCall' = lockCall
      /\ waitingForMutexPtr[w] # NoMutex => timeOut'[w]
  BY DEF MadeReady
<1>3. \A q \in Mutex \cup Queue :
         /\ IsInjective(waitingQueue'[q])
         /\ w \notin ToSet(waitingQueue'[q])
         /\ \A t \in Task \ {w} : t \in ToSet(waitingQueue'[q]) <=> t \in ToSet(waitingQueue[q])
  BY DEF MadeReady
<1>4. ASSUME NEW t \in Task, NEW q \in Mutex \cup Queue, t \in ToSet(waitingQueue'[q])
      PROVE  LinkInv(t, q)'
  <2>1. t # w /\ LinkInv(t, q)
    BY <1>3, <1>4 DEF WaitInv
  <2> QED
    BY <1>1, <1>2, <1>3, <2>1 DEF LinkInv
<1>5. \A t \in Task : \A m \in Mutex : status'[t] = "BLOCKED" /\ waitingForMutexPtr'[t] = m =>
                                          t \in ToSet(waitingQueue'[m])
  BY <1>1, <1>2, <1>3 DEF WaitInv
<1>6. WaitInv'
  BY <1>3, <1>4, <1>5 DEF WaitInv
<1>7. LockerInv'
  <2>1. ASSUME NEW t \in Task, t # w
        PROVE  /\ waitingForMutexPtr'[t] # NoMutex =>
                    lockCall'[t] = waitingForMutexPtr'[t] /\ (status'[t] = "BLOCKED" \/ timeOut'[t])
               /\ lockCall'[t] # NoMutex /\ status'[t] \in Suspended =>
                    t \in ToSet(waitingQueue'[lockCall'[t]])
    <3>1. lockCall[t] # NoMutex => lockCall[t] \in Mutex
      BY DEF TypeOK
    <3> QED
      BY <1>1, <1>2, <1>3, <2>1, <3>1 DEF LockerInv
  <2>2. /\ waitingForMutexPtr'[w] # NoMutex =>
             lockCall'[w] = waitingForMutexPtr'[w] /\ timeOut'[w]
        /\ status'[w] \notin Suspended
    BY <1>1, <1>2 DEF LockerInv, Suspended
  <2> QED
    BY <2>1, <2>2 DEF LockerInv
<1>8. TimeoutInv'
  BY <1>1 DEF TimeoutInv
<1> QED
  BY <1>6, <1>7, <1>8

LEMMA UnlockReadyInv == ASSUME IInv, UnlockReady PROVE IInv'
<1> USE DEF IInv
<1> DEFINE w == wakePtr
<1>1. /\ UNCHANGED <<priority, tcbSchLock, runPtr, schLock>>
      /\ UNCHANGED mutexVars /\ UNCHANGED timeoutVars /\ UNCHANGED lockCall
      /\ section = "give" /\ section' = "open" /\ chainPtr' = NoTask /\ wakePtr' = NoTask
      /\ ReadySwtch(w)
  BY DEF UnlockReady, Leave
<1>2. /\ w \in Task /\ status[w] = "BLOCKED"
      /\ \A q \in Mutex \cup Queue : w \notin ToSet(waitingQueue[q])
      /\ timeoutType[w] = "none" /\ waitingQueuePtr[w] = NoMutex
      /\ waitingForMutexPtr[w] = NoMutex
  BY <1>1 DEF WakeInv, TypeOK
<1>3. status' = [status EXCEPT ![w] = "READY"]
  BY <1>1 DEF ReadySwtch, ReadyNoSwtch
<1>4. SchedTypeOK'
  BY <1>1, <1>2, ReadySwtchType DEF TypeOK
<1>5. TypeOK'
  BY <1>1, <1>4 DEF TypeOK, mutexVars, timeoutVars, Section
<1>6. ReadyInv'
  BY <1>1, <1>2, <1>3, ReadyEnqInv DEF ReadySwtch, ReadyNoSwtch, TypeOK
<1>7. WaitInv' /\ LockerInv' /\ TimeoutInv'
  <2>1. /\ timeoutType' = [timeoutType EXCEPT ![w] = "none"]
        /\ waitingQueuePtr' = [waitingQueuePtr EXCEPT ![w] = NoMutex]
    BY <1>1, <1>2 DEF TypeOK, timeoutVars
  <2>2. \A t \in Task \ {w} : ~Dropped(t) /\ ~Given(t)
    BY <1>1 DEF Dropped, Given
  <2>3. MadeReady(w)
    BY <1>1, <1>2, <1>3, <2>1 DEF MadeReady, WaitInv, mutexVars, timeoutVars
  <2> QED
    BY <1>2, <2>2, <2>3, MadeReadyInv
<1>9. WakeInv' /\ IdleInv' /\ OwnInv'
  BY <1>1, <1>2, <1>3 DEF WakeInv, IdleInv, OwnInv, TypeOK, SchedTypeOK, mutexVars
<1>8. RunInv'
  <2>1. ~pendSV' => ~pendSV /\ (pendingCtxtSwtch => pendingCtxtSwtch')
    BY ReschedKeeps, <1>1 DEF ReadySwtch, ReadyNoSwtch, TypeOK
  <2> QED
    BY <1>1, <1>2, <1>3, <2>1 DEF RunInv, TypeOK, SchedTypeOK
<1> QED
  BY <1>5, <1>6, <1>7, <1>8, <1>9

(***************************************************************************)
(* Delays and timeouts.                                                    *)
(***************************************************************************)
LEMMA SleepDelayInv == ASSUME IInv, SleepDelay PROVE IInv'
<1> USE DEF IInv
<1>1. /\ UNCHANGED <<priority, tcbSchLock, readyQueue, readyBitmask, runPtr, schLock>>
      /\ UNCHANGED mutexVars /\ UNCHANGED <<waitingQueuePtr, lockCall>> /\ UNCHANGED sectionVars
      /\ section = "open" /\ runPtr \in Task /\ runPtr # Idle /\ status[runPtr] = "RUNNING"
      /\ status' = [status EXCEPT ![runPtr] = "SLEEPING_DELAY"]
      /\ timeoutType' = [timeoutType EXCEPT ![runPtr] = "TIME_EVENT"]
  BY DEF SleepDelay, Calling, Executing, TypeOK, SchedTypeOK
<1>2. pendSV' = TRUE /\ pendingCtxtSwtch' = FALSE
  BY DEF SleepDelay, PendCtxSwtch, PendCtxSwtchNow
<1>3. TypeOK'
  <2>1. SchedTypeOK'
    BY <1>1, <1>2 DEF TypeOK, SchedTypeOK, Status
  <2>2. timeoutType' \in [Task -> {"none", "BLOCKING", "TIME_EVENT"}]
    BY <1>1 DEF TypeOK
  <2>3. timeOut' \in [Task -> BOOLEAN]
    BY DEF SleepDelay, TypeOK
  <2> QED
    BY <1>1, <2>1, <2>2, <2>3 DEF TypeOK, mutexVars, sectionVars
<1>4. ReadyInv'
  BY <1>1, SuspendInv DEF TypeOK, Status
<1>5. WaitInv' /\ LockerInv' /\ TimeoutInv'
  <2>1. /\ status'[runPtr] = "SLEEPING_DELAY"
        /\ \A t \in Task \ {runPtr} : /\ status'[t] = status[t] /\ timeOut'[t] = timeOut[t]
                                      /\ timeoutType'[t] = timeoutType[t]
    BY <1>1 DEF SleepDelay, TypeOK, SchedTypeOK
  <2>2. /\ waitingQueuePtr' = waitingQueuePtr /\ waitingForMutexPtr' = waitingForMutexPtr
        /\ lockCall' = lockCall /\ waitingQueue' = waitingQueue
        /\ \A t \in Task : ~Dropped(t) /\ ~Given(t)
    BY <1>1 DEF mutexVars, Dropped, Given
  <2>3. waitingQueuePtr[runPtr] = NoMutex /\ waitingForMutexPtr[runPtr] = NoMutex
    BY <1>1 DEF TimeoutInv, LockerInv, Suspended, SleepDelay, Calling
  <2>4. ASSUME NEW t \in Task, NEW q \in Mutex \cup Queue, t \in ToSet(waitingQueue'[q])
        PROVE  LinkInv(t, q)'
    <3>1. LinkInv(t, q) /\ t # runPtr
      BY <1>1, <2>2, <2>4 DEF WaitInv, LinkInv, Asleep, Suspended
    <3> QED
      BY <2>1, <2>2, <3>1 DEF LinkInv
  <2>5. WaitInv'
    BY <2>1, <2>2, <2>4 DEF WaitInv
  <2>6. LockerInv'
    BY <2>1, <2>2, <2>3 DEF LockerInv, Suspended
  <2>7. TimeoutInv'
    <3>1. timeoutType'[runPtr] # "BLOCKING"
      BY <1>1 DEF TypeOK
    <3> QED
      BY <2>1, <2>2, <2>3, <3>1 DEF TimeoutInv
  <2> QED
    BY <2>5, <2>6, <2>7
<1>6. WakeInv' /\ RunInv' /\ IdleInv' /\ OwnInv'
  BY <1>1, <1>2 DEF WakeInv, RunInv, IdleInv, OwnInv, TypeOK, SchedTypeOK, mutexVars,
                    sectionVars
<1> QED
  BY <1>3, <1>4, <1>5, <1>6

(* The task of an expired node, which nothing else links, becomes READY. *)
LEMMA ReadyExpiredInv ==
    ASSUME IInv, NEW t \in Task, ReadyExpired(t), timeOut' \in [Task -> BOOLEAN],
           section # "lock", status[t] \in Suspended \cup {"SLEEPING_DELAY"},
           \A q \in Mutex \cup Queue : t \notin ToSet(waitingQueue[q]),
           \A u \in Task \ {t} : timeOut'[u] = timeOut[u],
           waitingForMutexPtr[t] # NoMutex => timeOut'[t],
           section \in {"tick", "ticked"} \/ (section = "expire" /\ wakePtr = t)
    PROVE  IInv'
<1> USE DEF IInv
<1>1. /\ UNCHANGED <<priority, tcbSchLock, runPtr, schLock, pendSV, pendingCtxtSwtch>>
      /\ UNCHANGED mutexVars /\ UNCHANGED lockCall
      /\ section' = "ticked" /\ chainPtr' = NoTask /\ wakePtr' = NoTask
      /\ status' = [status EXCEPT ![t] = "READY"]
      /\ timeoutType' = [timeoutType EXCEPT ![t] = "none"]
      /\ waitingQueuePtr' = [waitingQueuePtr EXCEPT ![t] = NoMutex]
      /\ ReadyEnq(t, priority[t])
  BY DEF ReadyExpired, NodeReset, Enter, swtchVars
<1>2. SchedTypeOK'
  <2>1. readyQueue' \in [Prio -> Seq(Task)] /\ readyBitmask' \in SUBSET Prio
    BY <1>1, ReadyEnqType DEF TypeOK, SchedTypeOK
  <2> QED
    BY <1>1, <2>1 DEF TypeOK, SchedTypeOK, Status
<1>3. TypeOK'
  BY <1>1, <1>2 DEF TypeOK, mutexVars, Section
<1>4. ReadyInv'
  BY <1>1, ReadyEnqInv DEF TypeOK, Suspended
<1>5. WaitInv' /\ LockerInv' /\ TimeoutInv'
  <2>1. \A u \in Task \ {t} : ~Dropped(u) /\ ~Given(u)
    BY DEF Dropped, Given
  <2>2. MadeReady(t)
    BY <1>1 DEF MadeReady, WaitInv, mutexVars
  <2> QED
    BY <2>1, <2>2, MadeReadyInv
<1>6. WakeInv' /\ RunInv' /\ IdleInv' /\ OwnInv'
  BY <1>1 DEF WakeInv, RunInv, IdleInv, OwnInv, TypeOK, SchedTypeOK, Suspended, mutexVars
<1> QED
  BY <1>3, <1>4, <1>5, <1>6

LEMMA ExpireDelayInv == ASSUME IInv, NEW t \in Task, ExpireDelay(t) PROVE IInv'
<1> USE DEF IInv
<1>1. status[t] = "SLEEPING_DELAY"
  BY DEF ExpireDelay, TimeoutInv
<1>2. \A q \in Mutex \cup Queue : t \notin ToSet(waitingQueue[q])
  BY <1>1, NotLinked DEF Asleep, Suspended
<1>3. timeOut' = timeOut /\ (waitingForMutexPtr[t] # NoMutex => timeOut[t])
  BY <1>1 DEF ExpireDelay, LockerInv
<1> QED
  BY <1>1, <1>2, <1>3, ReadyExpiredInv DEF ExpireDelay, TypeOK

LEMMA ExpireReadyInv == ASSUME IInv, ExpireReady PROVE IInv'
<1> USE DEF IInv
<1>1. /\ wakePtr \in Task /\ status[wakePtr] \in Suspended
      /\ \A q \in Mutex \cup Queue : wakePtr \notin ToSet(waitingQueue[q])
  BY DEF ExpireReady, WakeInv, TypeOK
<1>2. timeOut' = [timeOut EXCEPT ![wakePtr] = TRUE]
  BY DEF ExpireReady
<1>3. /\ timeOut' \in [Task -> BOOLEAN] /\ timeOut'[wakePtr]
      /\ \A u \in Task \ {wakePtr} : timeOut'[u] = timeOut[u]
  BY <1>1, <1>2 DEF TypeOK
<1> QED
  BY <1>1, <1>3, ReadyExpiredInv DEF ExpireReady

LEMMA ExpireWaitInv == ASSUME IInv, NEW t \in Task, ExpireWait(t) PROVE IInv'
<1> USE DEF IInv
<1> DEFINE m == waitingQueuePtr[t]
           rest == TCBQRem(waitingQueue[m], t)
<1>1. /\ UNCHANGED schedVars /\ UNCHANGED timeoutVars
      /\ UNCHANGED <<lock, ownerPtr, ownedMutexList, waitingForMutexPtr, lockCall>>
      /\ section \in {"tick", "ticked"} /\ section' = "expire" /\ wakePtr' = t
      /\ chainPtr' = TimeoutWaiter(t) /\ status[t] \in Suspended
      /\ waitingQueue' = [waitingQueue EXCEPT ![m] = rest]
  BY DEF ExpireWait, Enter, TimeoutInv
<1>2. \A n \in Mutex \cup Queue :
                       /\ waitingQueue'[n] \in Seq(Task) /\ IsInjective(waitingQueue'[n])
                       /\ ToSet(waitingQueue'[n]) \subseteq ToSet(waitingQueue[n])
                       /\ ToSet(waitingQueue[n]) \ {t} \subseteq ToSet(waitingQueue'[n])
                       /\ t \notin ToSet(waitingQueue'[n])
  <2> TAKE n \in Mutex \cup Queue
  <2>1. CASE n = m
    <3> DEFINE q == waitingQueue[n]
    <3>1. waitingQueue'[n] = TCBQRem(q, t) /\ q \in Seq(Task) /\ IsInjective(q)
      BY <1>1, <2>1 DEF TypeOK, WaitInv
    <3> HIDE DEF q
    <3>2. /\ TCBQRem(q, t) \in Seq(Task) /\ IsInjective(TCBQRem(q, t))
          /\ ToSet(TCBQRem(q, t)) \subseteq ToSet(q)
          /\ ToSet(q) \ {t} \subseteq ToSet(TCBQRem(q, t))
          /\ t \notin ToSet(TCBQRem(q, t))
      BY <3>1, TCBQRemLemma
    <3> QED
      BY <3>1, <3>2 DEF q
  <2>2. CASE n # m
    <3>1. waitingQueue'[n] = waitingQueue[n]
      BY <1>1, <2>2 DEF TypeOK
    <3> QED
      BY <2>2, <3>1 DEF WaitInv, LinkInv, ExpireWait, TypeOK
  <2> QED
    BY <2>1, <2>2
<1>3. waitingQueue' \in [Mutex \cup Queue -> Seq(Task)]
  BY <1>1, <1>2 DEF TypeOK
<1> HIDE DEF m, rest
<1>4. chainPtr' \in Task \cup {NoTask}
  <2>1. waitingForMutexPtr[t] # NoMutex => ownerPtr[waitingForMutexPtr[t]] \in Task \cup {NoTask}
    BY DEF TypeOK
  <2> QED
    BY <1>1, <2>1 DEF TimeoutWaiter, OwnerPrioChain
<1>5. TypeOK'
  BY <1>1, <1>3, <1>4 DEF TypeOK, SchedTypeOK, schedVars, timeoutVars, Section
<1>6. ReadyInv'
  BY <1>1 DEF ReadyInv, schedVars
<1>7. WaitInv' /\ LockerInv'
  <2>1. /\ status' = status /\ waitingQueuePtr' = waitingQueuePtr /\ lockCall' = lockCall
        /\ waitingForMutexPtr' = waitingForMutexPtr /\ timeoutType' = timeoutType
        /\ timeOut' = timeOut
    BY <1>1 DEF schedVars, timeoutVars
  <2>2. \A u \in Task : ~Dropped(u) /\ ~Given(u) /\ (Dropped(u)' <=> u = t)
    BY <1>1 DEF Dropped, Given
  <2>3. ASSUME NEW u \in Task, NEW n \in Mutex \cup Queue, u \in ToSet(waitingQueue'[n])
        PROVE  LinkInv(u, n)'
    <3>1. LinkInv(u, n)
      BY <1>2, <2>3 DEF WaitInv
    <3> QED
      BY <1>2, <2>1, <3>1 DEF LinkInv
  <2>4. WaitInv'
    BY <1>2, <2>1, <2>2, <2>3 DEF WaitInv
  <2>5. LockerInv'
    <3>1. \A u \in Task : lockCall[u] # NoMutex => lockCall[u] \in Mutex
      BY DEF TypeOK
    <3>2. ASSUME NEW u \in Task, u # t, lockCall[u] # NoMutex, status[u] \in Suspended
          PROVE  u \in ToSet(waitingQueue'[lockCall[u]])
      BY <1>2, <2>2, <3>1, <3>2 DEF LockerInv
    <3> QED
      BY <2>1, <2>2, <3>2 DEF LockerInv
  <2> QED
    BY <2>4, <2>5
<1>8. TimeoutInv' /\ WakeInv' /\ RunInv' /\ IdleInv' /\ OwnInv'
  BY <1>1, <1>2 DEF TimeoutInv, WakeInv, RunInv, IdleInv, OwnInv, schedVars, timeoutVars
<1> QED
  BY <1>5, <1>6, <1>7, <1>8

LEMMA TickEndInv == ASSUME IInv, TickEnd PROVE IInv'
<1> USE DEF IInv
<1>1. /\ UNCHANGED <<status, priority, tcbSchLock, readyQueue, readyBitmask, runPtr, schLock>>
      /\ UNCHANGED mutexVars /\ UNCHANGED timeoutVars /\ UNCHANGED lockCall
      /\ section \in {"tick", "ticked"} /\ section' = "open" /\ chainPtr' = NoTask
      /\ wakePtr' = NoTask /\ TickResched(section = "ticked")
  BY DEF TickEnd, Leave
<1>2. pendSV' \in BOOLEAN /\ pendingCtxtSwtch' \in BOOLEAN
  BY <1>1, ReschedType DEF TypeOK
<1>3. ~pendSV' => ~pendSV /\ (pendingCtxtSwtch => pendingCtxtSwtch')
  BY <1>1, ReschedKeeps DEF TypeOK
<1>4. TypeOK'
  BY <1>1, <1>2 DEF TypeOK, SchedTypeOK, mutexVars, timeoutVars, Section
<1>5. ReadyInv'
  BY <1>1 DEF ReadyInv
<1>6. WaitInv' /\ LockerInv' /\ TimeoutInv' /\ WakeInv' /\ RunInv' /\ IdleInv' /\ OwnInv'
  BY <1>1, <1>3 DEF WaitInv, LinkInv, LockerInv, Dropped, Given, TimeoutInv, WakeInv,
                    RunInv, IdleInv, OwnInv, mutexVars, timeoutVars
<1> QED
  BY <1>4, <1>5, <1>6

(***************************************************************************)
(* The scheduler's operations.                                             *)
(***************************************************************************)
LEMMA PendSVInv ==
    ASSUME IInv, PendSV, UNCHANGED <<mutexVars, timeoutVars, lockCall, sectionVars>>
    PROVE  IInv'
<1> USE DEF IInv
<1>1. /\ section = "open" /\ Swtch /\ UNCHANGED mutexVars /\ UNCHANGED timeoutVars
      /\ UNCHANGED lockCall /\ UNCHANGED sectionVars
  BY DEF PendSV
<1>2. /\ ReadyInv' /\ SchedTypeOK'
      /\ status[runPtr'] \in {"READY", "RUNNING"}
      /\ status'[runPtr'] = "RUNNING"
      /\ \A t \in Task : t # runPtr' =>
           status'[t] = IF status[t] = "RUNNING" THEN "READY" ELSE status[t]
  BY <1>1, SwtchInv, SwtchType DEF TypeOK
<1>3. \A t \in Task : /\ status'[t] \in {"READY", "RUNNING"} <=> status[t] \in {"READY", "RUNNING"}
                      /\ status'[t] = "BLOCKED" <=> status[t] = "BLOCKED"
                      /\ status'[t] = "SLEEPING_DELAY" <=> status[t] = "SLEEPING_DELAY"
  BY <1>2
<1>4. TypeOK'
  BY <1>1, <1>2 DEF TypeOK, mutexVars, timeoutVars, sectionVars
<1>5. WaitInv' /\ LockerInv' /\ TimeoutInv' /\ OwnInv'
  <2>1. Undisturbed
    BY <1>1, <1>2 DEF Undisturbed, WaitInv, Dropped, Given, mutexVars, sectionVars
  <2>2. OwnInv'
    BY <1>1 DEF OwnInv, mutexVars
  <2> QED
    BY <2>1, <2>2, UndisturbedInv
<1>6. WakeInv' /\ RunInv'
  BY <1>1, <1>2 DEF WakeInv, RunInv, sectionVars
<1>7. IdleInv'
  BY <1>1, <1>3 DEF IdleInv, Swtch, mutexVars
<1> QED
  BY <1>2, <1>4, <1>5, <1>6, <1>7

LEMMA YieldInv ==
    ASSUME IInv, Calling, Yield, UNCHANGED <<mutexVars, timeoutVars, lockCall, sectionVars>>
    PROVE  IInv'
<1> USE DEF IInv
<1>1. /\ section = "open" /\ ~pendSV /\ runPtr \in Task
      /\ UNCHANGED mutexVars /\ UNCHANGED timeoutVars /\ UNCHANGED lockCall
      /\ UNCHANGED sectionVars
  BY DEF Calling, Executing, TypeOK, SchedTypeOK
<1>2. /\ status[runPtr] = "RUNNING" /\ status' = [status EXCEPT ![runPtr] = "READY"]
      /\ UNCHANGED <<priority, tcbSchLock, runPtr, schLock>>
      /\ pendSV' \/ (schLock > 0 /\ pendingCtxtSwtch')
  BY DEF Yield, PendCtxSwtchNow, DeferCtxSwtch, TypeOK, SchedTypeOK
<1>3. ReadyInv' /\ SchedTypeOK'
  BY <1>1, <1>2, YieldType, ReadyEnqInv DEF Yield, TypeOK
<1>4. TypeOK'
  BY <1>1, <1>3 DEF TypeOK, mutexVars, timeoutVars, sectionVars
<1>5. WaitInv' /\ LockerInv' /\ TimeoutInv' /\ OwnInv' /\ IdleInv'
  <2>1. Undisturbed
    BY <1>1, <1>2 DEF Undisturbed, WaitInv, Dropped, Given, TypeOK, SchedTypeOK, mutexVars,
                      sectionVars
  <2>2. OwnInv' /\ IdleInv'
    BY <1>1, <1>2 DEF OwnInv, IdleInv, TypeOK, SchedTypeOK, mutexVars
  <2> QED
    BY <2>1, <2>2, UndisturbedInv
<1>6. WakeInv' /\ RunInv'
  BY <1>1, <1>2 DEF WakeInv, RunInv, TypeOK, SchedTypeOK, sectionVars
<1> QED
  BY <1>3, <1>4, <1>5, <1>6

LEMMA SchLockInv ==
    ASSUME IInv, Calling, SchLock \/ SchUnlock,
           UNCHANGED <<mutexVars, timeoutVars, lockCall, sectionVars>>
    PROVE  IInv'
<1> USE DEF IInv
<1>1. /\ section = "open" /\ ~pendSV /\ runPtr \in Task
      /\ UNCHANGED mutexVars /\ UNCHANGED timeoutVars /\ UNCHANGED lockCall
      /\ UNCHANGED sectionVars
      /\ UNCHANGED <<status, priority, readyQueue, readyBitmask, runPtr>>
  BY DEF Calling, Executing, TypeOK, SchedTypeOK, SchLock, SchUnlock
<1>2. SchedTypeOK'
  BY SchLockType DEF TypeOK
<1>3. TypeOK'
  BY <1>1, <1>2 DEF TypeOK, mutexVars, timeoutVars, sectionVars
<1>4. ReadyInv'
  BY <1>1 DEF ReadyInv
<1>5. WaitInv' /\ LockerInv' /\ TimeoutInv' /\ OwnInv' /\ IdleInv' /\ WakeInv'
  BY <1>1 DEF WaitInv, LinkInv, LockerInv, Dropped, Given, TimeoutInv, OwnInv, IdleInv,
              WakeInv, mutexVars, timeoutVars, sectionVars
<1>6. RunInv'
  <2>1. CASE SchLock
    BY <1>1, <2>1 DEF SchLock, RunInv, TypeOK, SchedTypeOK, sectionVars
  <2>2. CASE SchUnlock
    BY <1>1, <2>2 DEF SchUnlock, PendCtxSwtchNow, RunInv, TypeOK, SchedTypeOK, sectionVars,
                      swtchVars
  <2> QED
    BY <2>1, <2>2
<1> QED
  BY <1>3, <1>4, <1>5, <1>6

(***************************************************************************)
(* The invariant of the specification.                                     *)
(***************************************************************************)
LEMMA StutterInv == ASSUME IInv, UNCHANGED vars PROVE IInv'
<1> USE DEF IInv
<1>1. /\ UNCHANGED schedVars /\ UNCHANGED mutexVars /\ UNCHANGED timeoutVars
      /\ UNCHANGED lockCall /\ UNCHANGED sectionVars
  BY DEF vars
<1>2. TypeOK'
  BY <1>1 DEF TypeOK, SchedTypeOK, schedVars, mutexVars, timeoutVars, sectionVars
<1>3. /\ ReadyInv' /\ WaitInv' /\ LockerInv' /\ TimeoutInv'
      /\ WakeInv' /\ RunInv' /\ IdleInv' /\ OwnInv'
  BY <1>1 DEF ReadyInv, WaitInv, LinkInv, LockerInv, Dropped, Given, TimeoutInv, WakeInv,
              RunInv, IdleInv, OwnInv, schedVars, mutexVars, timeoutVars, sectionVars
<1> QED
  BY <1>2, <1>3

LEMMA NextInv == ASSUME IInv, [Next]_vars PROVE IInv'
<1>1. CASE Lock
  <2>1. ASSUME NEW m \in Mutex, LockFree(m) PROVE IInv'
    BY <2>1, LockFreeInv
  <2>2. ASSUME NEW m \in Mutex, NEW timed \in BOOLEAN, LockBlock(m, timed) PROVE IInv'
    BY <2>2, LockBlockInv
  <2> QED
    BY <1>1, <2>1, <2>2, LockPendInv, LockResumeExpiredInv, LockTimeoutInv, LockSuccessInv DEF
                                                                                               Lock
<1>2. CASE Unlock
  <2>1. ASSUME NEW m \in Mutex, UnlockFree(m) PROVE IInv'
    BY <2>1, UnlockFreeInv
  <2>2. ASSUME NEW m \in Mutex, UnlockHandOff(m) PROVE IInv'
    BY <2>2, UnlockHandOffInv
  <2>3. CASE UnlockUpdateNewOwner \/ UnlockDone
    BY <2>3, SectionMoveInv DEF UnlockUpdateNewOwner, UnlockDone, Enter, Leave
  <2> QED
    BY <1>2, <2>1, <2>2, <2>3, UnlockReadyInv DEF Unlock
<1>3. CASE SysTick
  <2>1. ASSUME NEW t \in Task, ExpireDelay(t) \/ ExpireWait(t) PROVE IInv'
    BY <2>1, ExpireDelayInv, ExpireWaitInv
  <2>2. CASE Tick
    BY <2>2, SectionMoveInv DEF Tick, Enter
  <2> QED
    BY <1>3, <2>1, <2>2, ExpireReadyInv, TickEndInv DEF SysTick
<1>4. CASE SchedStep
  BY <1>4, PendSVInv, YieldInv, SchLockInv DEF SchedStep, TaskCall
<1> QED
  BY <1>1, <1>2, <1>3, <1>4, SleepDelayInv, ChainStepInv, StutterInv DEF Next

(* Whatever the tasks, the owners and the tick do to status, queues,       *)
(* timeout nodes and ownership (kMutexLock, kMutexUnlock, kTickHandler,    *)
(* kTaskUpdateEffectivePrioChain, kSwtch), IInv holds after every step.    *)
THEOREM Invariance == Spec => []IInv
<1>1. IInv /\ [Next]_vars => IInv'
  BY NextInv
<1> QED
  BY InitInv, <1>1, PTL DEF Spec

(***************************************************************************)
(* What follows for the properties RK0Mutex states.                        *)
(***************************************************************************)

(* Every variable keeps its type: whatever the kernel's lists and counters *)
(* go through, a queue links tasks, and a lock depth is never negative.    *)
THEOREM TypeCorrect == Spec => []TypeOK
<1>1. IInv => TypeOK
  BY DEF IInv
<1> QED
  BY Invariance, <1>1, PTL

(* A sequence without repetition links an element once or not at all. *)
LEMMA LinkedOnce ==
    ASSUME NEW q \in Seq(Task), IsInjective(q), NEW t \in Task
    PROVE  Linked(q, t) = IF t \in ToSet(q) THEN 1 ELSE 0
<1> DEFINE L == {i \in DOMAIN q : q[i] = t}
<1>1. CASE t \in ToSet(q)
  <2>1. PICK i \in DOMAIN q : q[i] = t
    BY <1>1 DEF ToSet
  <2>2. L = {i}
    BY <2>1 DEF IsInjective
  <2>3. Cardinality({i}) = 1
    BY FS_Singleton
  <2> QED
    BY <1>1, <2>2, <2>3 DEF Linked
<1>2. CASE t \notin ToSet(q)
  <2>1. L = {}
    BY <1>2 DEF ToSet
  <2> QED
    BY <1>2, <2>1, FS_EmptySet DEF Linked
<1> QED
  BY <1>1, <1>2

(* Between two critical sections every task is linked once in the one      *)
(* queue its status names, or in none (kTCBQEnq, kTCBQEnqByPrio, kTCBQRem  *)
(* and kTCBQDeq, called by the task, an owner, the tick and the chain).    *)
THEOREM PlacementSafe == Spec => []Placement
<1>1. IInv => Placement
  <2> SUFFICES ASSUME IInv, section = "open", NEW t \in Task
               PROVE  /\ \A p \in Prio : Linked(readyQueue[p], t) =
                             IF status[t] = "READY" /\ priority[t] = p THEN 1 ELSE 0
                      /\ \A m \in Mutex : Linked(waitingQueue[m], t) =
                             IF status[t] = "BLOCKED" /\ waitingForMutexPtr[t] = m THEN 1 ELSE 0
    BY DEF Placement
  <2>1. ASSUME NEW p \in Prio
        PROVE  Linked(readyQueue[p], t) =
                 IF status[t] = "READY" /\ priority[t] = p THEN 1 ELSE 0
    <3>1. readyQueue[p] \in Seq(Task) /\ IsInjective(readyQueue[p])
      BY DEF IInv, TypeOK, SchedTypeOK, ReadyInv
    <3>2. t \in ToSet(readyQueue[p]) <=> status[t] = "READY" /\ priority[t] = p
      BY DEF IInv, ReadyInv
    <3> QED
      BY <3>1, <3>2, LinkedOnce
  <2>2. ASSUME NEW m \in Mutex
        PROVE  Linked(waitingQueue[m], t) =
                 IF status[t] = "BLOCKED" /\ waitingForMutexPtr[t] = m THEN 1 ELSE 0
    <3>1. waitingQueue[m] \in Seq(Task) /\ IsInjective(waitingQueue[m])
      BY DEF IInv, TypeOK, WaitInv
    <3>2. t \in ToSet(waitingQueue[m]) <=> status[t] = "BLOCKED" /\ waitingForMutexPtr[t] = m
      BY DEF IInv, WaitInv, LinkInv, WakeInv, Dropped
    <3> QED
      BY <3>1, <3>2, LinkedOnce
  <2> QED
    BY <2>1, <2>2
<1> QED
  BY Invariance, <1>1, PTL

(* kSwtch never finds an empty queue where the bitmask led it, so its      *)
(* K_PANIC is unreachable.                                                 *)
THEOREM DispatchSafe == Spec => []DispatchNeverNull
<1>1. IInv => DispatchNeverNull
  BY SwtchFindsTask DEF IInv, TypeOK, ReadyInv, IdleInv, DispatchNeverNull
<1> QED
  BY Invariance, <1>1, PTL

(* lock, ownerPtr and the owners' lists agree at every step of kMutexLock, *)
(* kMutexUnlock and a timeout, and no owner waits for what it owns.        *)
THEOREM OwnershipSafe == Spec => []OwnershipConsistent
<1>1. IInv => OwnershipConsistent
  <2> SUFFICES ASSUME IInv, NEW m \in Mutex
               PROVE  /\ lock[m] <=> ownerPtr[m] # NoTask
                      /\ \A t \in Task : m \in ownedMutexList[t] <=> ownerPtr[m] = t
                      /\ waitingQueue[m] # <<>> =>
                           lock[m] /\ ~Contains(waitingQueue[m], ownerPtr[m])
    BY DEF OwnershipConsistent
  <2>1. /\ waitingQueue[m] \in Seq(Task)
        /\ lock[m] <=> ownerPtr[m] # NoTask
        /\ \A t \in Task : /\ m \in ownedMutexList[t] <=> ownerPtr[m] = t
                           /\ t \in ToSet(waitingQueue[m]) => lock[m] /\ ownerPtr[m] # t
    BY DEF IInv, TypeOK, OwnInv
  <2>2. ASSUME waitingQueue[m] # <<>> PROVE lock[m]
    BY <2>1, <2>2, TailLemma
  <2>3. ~Contains(waitingQueue[m], ownerPtr[m])
    BY <2>1, InToSet
  <2> QED
    BY <2>1, <2>2, <2>3
<1> QED
  BY Invariance, <1>1, PTL

(* The processor is never left to a task that blocked or sleeps            *)
(* (kPendCtxSwtch and the deferral under the scheduler lock).              *)
THEOREM RunnerSafe == Spec => []RunnerIsRunnable
<1>1. IInv => RunnerIsRunnable
  BY DEF IInv, RunInv, RunnerIsRunnable
<1> QED
  BY Invariance, <1>1, PTL

(* The executing task's timeout node is in no list, so kTimeoutNodeAdd     *)
(* never panics on an armed node.                                          *)
THEOREM TimeoutNodeSafe == Spec => []TimeoutNodeFree
<1>1. IInv => TimeoutNodeFree
  <2> SUFFICES ASSUME IInv, section = "open", ~pendSV
               PROVE  timeoutType[runPtr] = "none" /\ waitingQueuePtr[runPtr] = NoMutex
    BY DEF TimeoutNodeFree
  <2>1. runPtr \in Task /\ status[runPtr] \in {"READY", "RUNNING"}
    BY DEF IInv, RunInv, TypeOK, SchedTypeOK
  <2>2. timeoutType[runPtr] \in {"none", "BLOCKING", "TIME_EVENT"}
    BY <2>1 DEF IInv, TypeOK
  <2> QED
    BY <2>1, <2>2 DEF IInv, TimeoutInv, Suspended
<1> QED
  BY Invariance, <1>1, PTL

(***************************************************************************)
(* Who is served first: the waiting queues stay in the order of priorities *)
(* that change, a mutex is handed to the best waiter, and only a better    *)
(* task preempts.                                                          *)
(***************************************************************************)

(* Queues of tasks that are in the order of their priorities stay so. *)
LEMMA WaiterSorted ==
    ASSUME NEW q \in Seq(Task), NEW t \in Task, NEW prio \in [Task -> Prio], Sorted(q, prio)
    PROVE  /\ Sorted(TCBQEnqByPrio(q, t, prio), prio)
           /\ Sorted(TCBQRem(q, t), prio)
<1>1. \A u \in Task : prio[u] \in Nat
  BY PrioNat
<1> QED
  BY <1>1, EnqSorted, RemSorted

(***************************************************************************)
(* The waiting queues, inside the critical sections as well.               *)
(***************************************************************************)
OrderInv == \A m \in Mutex : Sorted(waitingQueue[m], priority)

LEMMA OrderInitial == Init => OrderInv
  BY DEF Init, OrderInv, Sorted

LEMMA OrderSame ==
    ASSUME OrderInv, UNCHANGED <<waitingQueue, priority>>
    PROVE  OrderInv'
  BY DEF OrderInv

LEMMA LockBlockOrder ==
    ASSUME IInv, OrderInv, NEW m \in Mutex, NEW timed \in BOOLEAN, LockBlock(m, timed)
    PROVE  OrderInv'
<1>1. /\ UNCHANGED priority /\ runPtr \in Task
      /\ waitingQueue' = [waitingQueue EXCEPT ![m] = TCBQEnqByPrio(@, runPtr, priority)]
  BY DEF LockBlock, IInv, TypeOK, SchedTypeOK
<1>2. Sorted(TCBQEnqByPrio(waitingQueue[m], runPtr, priority), priority)
  BY <1>1, WaiterSorted DEF OrderInv, IInv, TypeOK, SchedTypeOK
<1> QED
  BY <1>1, <1>2 DEF OrderInv, IInv, TypeOK

LEMMA UnlockHandOffOrder ==
    ASSUME IInv, OrderInv, NEW m \in Mutex, UnlockHandOff(m)
    PROVE  OrderInv'
<1>1. /\ UNCHANGED priority /\ waitingQueue[m] # <<>>
      /\ waitingQueue' = [waitingQueue EXCEPT ![m] = Tail(@)]
  BY DEF UnlockHandOff, schedVars
<1>2. Sorted(Tail(waitingQueue[m]), priority)
  BY <1>1, TailSorted DEF OrderInv, IInv, TypeOK
<1> QED
  BY <1>1, <1>2 DEF OrderInv, IInv, TypeOK

LEMMA ExpireWaitOrder ==
    ASSUME IInv, OrderInv, NEW t \in Task, ExpireWait(t)
    PROVE  OrderInv'
<1> DEFINE m == waitingQueuePtr[t]
<1>1. /\ UNCHANGED priority
      /\ waitingQueue' = [waitingQueue EXCEPT ![m] = TCBQRem(@, t)]
  BY DEF ExpireWait, schedVars
<1>2. m \in Mutex => Sorted(TCBQRem(waitingQueue[m], t), priority)
  BY WaiterSorted DEF OrderInv, IInv, TypeOK, SchedTypeOK
<1> HIDE DEF m
<1> QED
  BY <1>1, <1>2 DEF OrderInv, IInv, TypeOK

(* A task whose priority changes is in one queue at most, and that is the  *)
(* one it is moved in (kTaskRequeueWaiterByPrio_).                         *)
LEMMA ChainOrder ==
    ASSUME IInv, OrderInv, ChainStep
    PROVE  OrderInv'
<1>1. CASE UNCHANGED <<schedVars, waitingQueue>>
  BY <1>1, OrderSame DEF schedVars
<1>2. CASE ~ UNCHANGED <<schedVars, waitingQueue>>
  <2>1. PICK t \in Task : t = chainPtr
    BY DEF ChainStep, IInv, TypeOK
  <2>2. PICK p \in Prio : p = EffectivePrio(t)
    BY EffectivePrioType DEF IInv
  <2> DEFINE new == [priority EXCEPT ![t] = p]
             n == waitingQueuePtr[t]
  <2>3. priority' = new /\ Requeue(t, new)
    BY <1>2, <2>1, <2>2 DEF ChainStep, UpdateEffectivePrio
  <2>4. new \in [Task -> Prio] /\ \A u \in Task \ {t} : new[u] = priority[u]
    BY DEF IInv, TypeOK, SchedTypeOK
  <2>5. waitingQueue \in [Mutex \cup Queue -> Seq(Task)]
    BY DEF IInv, TypeOK
  <2>6. \A m \in Mutex : t \in ToSet(waitingQueue[m]) => m = n
    BY DEF IInv, WaitInv, LinkInv
  <2> HIDE DEF new, n
  <2>7. ASSUME NEW m \in Mutex, t \notin ToSet(waitingQueue[m])
        PROVE  Sorted(waitingQueue[m], new)
    <3>1. \A u \in ToSet(waitingQueue[m]) : new[u] = priority[u]
      BY <2>4, <2>5, <2>7, InToSet
    <3> QED
      BY <2>5, <3>1, SameOrder DEF OrderInv
  <2>8. CASE n # NoMutex /\ Contains(waitingQueue[n], t) /\ Len(waitingQueue[n]) > 1
    <3> DEFINE rest == TCBQRem(waitingQueue[n], t)
               q == TCBQEnqByPrio(rest, t, new)
    <3>1. n \in Mutex \cup Queue
      BY <2>8 DEF n, IInv, TypeOK
    <3>2. waitingQueue' = [waitingQueue EXCEPT ![n] = q]
      BY <2>3, <2>8 DEF Requeue, n
    <3> HIDE DEF q
    <3>8. ASSUME n \in Queue, NEW m \in Mutex PROVE Sorted(waitingQueue'[m], new)
      <4>1. m # n
        BY <3>8
      <4> QED
        BY <2>5, <2>6, <2>7, <3>2, <4>1
    <3> USE DEF q
    <3>3. /\ rest \in Seq(Task) /\ t \notin ToSet(rest)
          /\ ToSet(rest) \subseteq ToSet(waitingQueue[n])
      BY <2>5, <3>1, TCBQRemLemma DEF IInv, WaitInv
    <3>4. ASSUME n \in Mutex, NEW m \in Mutex PROVE Sorted(waitingQueue'[m], new)
      <4>1. Sorted(rest, priority)
        BY <2>5, <3>4, WaiterSorted DEF OrderInv, IInv, TypeOK, SchedTypeOK
      <4> HIDE DEF rest
      <4>2. \A u \in ToSet(rest) : new[u] = priority[u]
        BY <2>4, <3>3, InToSet
      <4>3. Sorted(rest, new)
        BY <3>3, <4>1, <4>2, SameOrder
      <4>4. Sorted(q, new)
        BY <2>4, <3>3, <4>3, WaiterSorted
      <4> HIDE DEF q
      <4> QED
        BY <2>5, <2>6, <2>7, <3>2, <4>4
    <3> QED
      BY <2>3, <3>1, <3>4, <3>8 DEF OrderInv
  <2>9. CASE ~(n # NoMutex /\ Contains(waitingQueue[n], t) /\ Len(waitingQueue[n]) > 1)
    <3>1. waitingQueue' = waitingQueue
      BY <2>3, <2>9 DEF Requeue, n
    <3>2. ASSUME NEW m \in Mutex PROVE Sorted(waitingQueue[m], new)
      <4>1. CASE t \notin ToSet(waitingQueue[m])
        BY <2>7, <4>1
      <4>2. CASE t \in ToSet(waitingQueue[m])
        <5>1. m = n /\ Contains(waitingQueue[m], t)
          BY <2>5, <2>6, <4>2, InToSet
        <5>2. Len(waitingQueue[m]) \in Nat /\ ~(Len(waitingQueue[m]) > 1)
          BY <2>5, <2>9, <5>1, LenProperties
        <5> QED
          BY <5>2 DEF Sorted
      <4> QED
        BY <4>1, <4>2
    <3> QED
      BY <2>3, <3>1, <3>2 DEF OrderInv
  <2> QED
    BY <2>8, <2>9
<1> QED
  BY <1>1, <1>2

LEMMA OrderStep ==
    ASSUME IInv, OrderInv, [Next]_vars
    PROVE  OrderInv'
<1>1. CASE Lock
  <2>1. CASE \E m \in Mutex : LockFree(m)
    BY <2>1, OrderSame DEF LockFree, schedVars
  <2>2. CASE LockPend \/ LockResumeExpired \/ LockTimeout \/ LockSuccess
    BY <2>2, OrderSame DEF LockPend, LockResumeExpired, LockTimeout, LockSuccess, schedVars,
                           mutexVars
  <2> QED
    BY <1>1, <2>1, <2>2, LockBlockOrder DEF Lock
<1>2. CASE Unlock
  <2>1. CASE \E m \in Mutex : UnlockFree(m)
    BY <2>1, OrderSame DEF UnlockFree, schedVars
  <2>2. CASE UnlockUpdateNewOwner \/ UnlockReady \/ UnlockDone
    BY <2>2, OrderSame DEF UnlockUpdateNewOwner, UnlockReady, UnlockDone, schedVars, mutexVars
  <2> QED
    BY <1>2, <2>1, <2>2, UnlockHandOffOrder DEF Unlock
<1>3. CASE SysTick
  <2>1. CASE \E t \in Task : ExpireDelay(t)
    BY <2>1, OrderSame DEF ExpireDelay, ReadyExpired, mutexVars
  <2>2. CASE Tick \/ ExpireReady \/ TickEnd
    BY <2>2, OrderSame DEF Tick, ExpireReady, TickEnd, ReadyExpired, schedVars, mutexVars
  <2> QED
    BY <1>3, <2>1, <2>2, ExpireWaitOrder DEF SysTick
<1>4. CASE SleepDelay
  BY <1>4, OrderSame DEF SleepDelay, mutexVars
<1>5. CASE SchedStep
  BY <1>5, OrderSame DEF SchedStep, PendSV, TaskCall, Swtch, Yield, SchLock, SchUnlock, mutexVars
<1>6. CASE UNCHANGED vars
  BY <1>6, OrderSame DEF vars, schedVars, mutexVars
<1> QED
  BY <1>1, <1>2, <1>3, <1>4, <1>5, <1>6, ChainOrder DEF Next

(* The waiting queues stay sorted, beside IInv, in every reachable state.  *)
THEOREM OrderInvariance == Spec => [](IInv /\ OrderInv)
<1>1. IInv /\ OrderInv /\ [Next]_vars => (IInv /\ OrderInv)'
  BY NextInv, OrderStep
<1> QED
  BY InitInv, OrderInitial, <1>1, PTL DEF Spec

(* Every waiting queue is in the order of its tasks' priorities of now,    *)
(* through lock, unlock, expiry and every pass of                          *)
(* kTaskUpdateEffectivePrioChain.                                          *)
THEOREM WaitersInOrder == Spec => []WaitersSorted
<1>1. IInv /\ OrderInv => WaitersSorted
  <2> SUFFICES ASSUME IInv, OrderInv, NEW m \in Mutex
               PROVE  \A i, j \in DOMAIN waitingQueue[m] :
                        i < j => priority[waitingQueue[m][i]] <= priority[waitingQueue[m][j]]
    BY DEF WaitersSorted
  <2>1. DOMAIN waitingQueue[m] = 1 .. Len(waitingQueue[m])
    BY LenProperties DEF IInv, TypeOK
  <2> QED
    BY <2>1 DEF OrderInv, Sorted
<1> QED
  BY OrderInvariance, <1>1, PTL

(***************************************************************************)
(* Priority inheritance.  Between two passes of the chain only few tasks   *)
(* may have a priority that is not the one their waiters call for: the     *)
(* task the chain is at and, while a mutex is handed over, its new owner.  *)
(***************************************************************************)
Pending == {chainPtr} \cup (IF section = "unlock" THEN {wakePtr} ELSE {})

(* The waiters of the PI mutexes t owns. *)
Heirs(t) == {u \in Task : \E m \in Inheriting : ownerPtr[m] = t /\ u \in ToSet(waitingQueue[m])}

(* The least priority t needs is its own or the one of a waiter. *)
Needs(t, p) == /\ p <= Nominal[t]
               /\ \A u \in Heirs(t) : p <= priority[u]
               /\ p = Nominal[t] \/ \E u \in Heirs(t) : p = priority[u]

InheritInv ==
    /\ section \in {"open", "tick", "ticked"} => chainPtr = NoTask
    /\ \A t \in Task : t \in Pending \/ Needs(t, priority[t])

(* kTaskCalcEffectivePrio_ looks at the heads of the queues only. *)
LEMMA EffectivePrioNeeded ==
    ASSUME IInv, OrderInv, NEW t \in Task
    PROVE  Needs(t, EffectivePrio(t))
<1> DEFINE O == {n \in ownedMutexList[t] \cap Inheriting : waitingQueue[n] # <<>>}
           P == {Nominal[t]} \cup {priority[Head(waitingQueue[m])] : m \in O}
<1>1. \A m \in Mutex : /\ waitingQueue[m] \in Seq(Task)
                       /\ m \in ownedMutexList[t] <=> ownerPtr[m] = t
  BY DEF IInv, TypeOK, OwnInv
<1>2. ASSUME NEW m \in O
      PROVE  /\ m \in Inheriting /\ ownerPtr[m] = t
             /\ Head(waitingQueue[m]) \in ToSet(waitingQueue[m])
             /\ Head(waitingQueue[m]) \in Task
  BY <1>1, TailLemma
<1>3. P \in SUBSET Nat /\ P # {}
  <2>1. \A u \in Task : priority[u] \in Nat /\ Nominal[u] \in Nat
    BY PrioNat DEF IInv, TypeOK, SchedTypeOK
  <2> QED
    BY <1>2, <2>1
<1>4. EffectivePrio(t) = Min(P)
  BY DEF EffectivePrio, OwnedMutexPipPrio
<1>5. Min(P) \in P /\ \A x \in P : Min(P) <= x
  BY <1>3, MinOfNats
<1> DEFINE p == Min(P)
<1> HIDE DEF p
<1>6. p \in Nat /\ p \in P /\ \A x \in P : p <= x
  BY <1>3, <1>5 DEF p
<1>7. ASSUME NEW u \in Heirs(t) PROVE p <= priority[u]
  <2>1. PICK m \in Inheriting : ownerPtr[m] = t /\ u \in ToSet(waitingQueue[m])
    BY DEF Heirs
  <2> DEFINE q == waitingQueue[m]
  <2>2. m \in Mutex /\ q \in Seq(Task) /\ Sorted(q, priority)
    BY <1>1 DEF OrderInv
  <2>3. PICK i \in 1 .. Len(q) : q[i] = u
    BY <2>1, <2>2, LenProperties DEF ToSet
  <2>4. q # <<>> /\ Head(q) = q[1] /\ 1 \in 1 .. Len(q)
    BY <2>2, <2>3
  <2>5. m \in O
    BY <1>1, <2>1, <2>2, <2>4
  <2> HIDE DEF O
  <2>6. priority[q[1]] <= priority[u]
    <3>1. CASE i = 1
      <4>1. priority[u] \in Nat
        BY PrioNat DEF Heirs, IInv, TypeOK, SchedTypeOK
      <4> QED
        BY <2>3, <3>1, <4>1
    <3>2. CASE i # 1
      BY <2>2, <2>3, <2>4, <3>2 DEF Sorted
    <3> QED
      BY <3>1, <3>2
  <2>7. p <= priority[q[1]] /\ priority[q[1]] \in Nat /\ priority[u] \in Nat
    <3>1. priority[q[1]] \in P
      BY <2>4, <2>5
    <3> QED
      BY <1>3, <1>6, <3>1, PrioNat DEF Heirs, IInv, TypeOK, SchedTypeOK
  <2> QED
    BY <1>6, <2>6, <2>7
<1>8. p <= Nominal[t]
  BY <1>6
<1>9. p = Nominal[t] \/ \E u \in Heirs(t) : p = priority[u]
  <2> SUFFICES ASSUME p # Nominal[t] PROVE \E u \in Heirs(t) : p = priority[u]
    OBVIOUS
  <2>1. PICK m \in O : p = priority[Head(waitingQueue[m])]
    BY <1>6
  <2> HIDE DEF O
  <2>2. Head(waitingQueue[m]) \in Heirs(t)
    BY <1>2 DEF Heirs
  <2> QED
    BY <2>1, <2>2
<1> QED
  BY <1>4, <1>7, <1>8, <1>9 DEF Needs, p

LEMMA InheritInitial == Init => InheritInv
<1> SUFFICES ASSUME Init, NEW t \in Task PROVE Needs(t, priority[t])
  BY DEF InheritInv, Init
<1>1. Heirs(t) = {}
  BY ToSetEmpty DEF Heirs, Init
<1>2. priority[t] = Nominal[t] /\ Nominal[t] \in Nat
  BY PrioNat DEF Init, SchedInit
<1> QED
  BY <1>1, <1>2 DEF Needs

(* Where neither priorities nor waiters nor owners change, the tasks in    *)
(* order stay so.                                                          *)
LEMMA InheritSame ==
    ASSUME InheritInv, UNCHANGED <<priority, waitingQueue, ownerPtr>>,
           Pending \cap Task \subseteq Pending',
           section' \in {"open", "tick", "ticked"} => chainPtr' = NoTask
    PROVE  InheritInv'
<1>1. \A t \in Task : Heirs(t)' = Heirs(t)
  BY DEF Heirs
<1> QED
  BY <1>1 DEF InheritInv, Needs

(* What changes the waiters of one mutex leaves the owners of others be. *)
LEMMA InheritBut ==
    ASSUME IInv, InheritInv, NEW m \in Mutex, UNCHANGED priority,
           \A n \in Mutex \ {m} : /\ ToSet(waitingQueue'[n]) = ToSet(waitingQueue[n])
                                  /\ ownerPtr'[n] = ownerPtr[n],
           Pending \cap Task \subseteq Pending',
           section' \in {"open", "tick", "ticked"} => chainPtr' = NoTask,
           m \in Inheriting => {ownerPtr[m], ownerPtr'[m]} \cap Task \subseteq Pending'
    PROVE  InheritInv'
<1> SUFFICES ASSUME NEW t \in Task, t \notin Pending' PROVE Needs(t, priority[t])'
  BY DEF InheritInv
<1>1. t \notin Pending /\ Needs(t, priority[t])
  BY DEF InheritInv
<1>2. ASSUME NEW n \in Inheriting, NEW u \in Task
      PROVE  ownerPtr'[n] = t /\ u \in ToSet(waitingQueue'[n])
               <=> ownerPtr[n] = t /\ u \in ToSet(waitingQueue[n])
  <2>1. n \in Mutex
    OBVIOUS
  <2>2. CASE n = m
    BY <2>2
  <2>3. CASE n # m
    BY <2>1, <2>3
  <2> QED
    BY <2>2, <2>3
<1>3. Heirs(t)' = Heirs(t)
  BY <1>2 DEF Heirs
<1> QED
  BY <1>1, <1>3 DEF Needs

LEMMA LockBlockInherit ==
    ASSUME IInv, InheritInv, NEW m \in Mutex, NEW timed \in BOOLEAN, LockBlock(m, timed)
    PROVE  InheritInv'
<1>1. /\ UNCHANGED <<priority, ownerPtr>> /\ section = "open" /\ section' = "lock"
      /\ waitingQueue' = [waitingQueue EXCEPT ![m] = TCBQEnqByPrio(@, runPtr, priority)]
      /\ chainPtr' = OwnerPrioChain(m, ownerPtr[m])
  BY DEF LockBlock, Enter, Calling, Executing
<1>2. \A n \in Mutex \ {m} : waitingQueue'[n] = waitingQueue[n]
  BY <1>1 DEF IInv, TypeOK
<1>3. m \in Inheriting => ownerPtr[m] \in Pending'
  BY <1>1 DEF OwnerPrioChain, Pending
<1>4. Pending \cap Task \subseteq Pending'
  BY <1>1 DEF Pending, InheritInv
<1> QED
  BY <1>1, <1>2, <1>3, <1>4, InheritBut

LEMMA UnlockHandOffInherit ==
    ASSUME IInv, InheritInv, NEW m \in Mutex, UnlockHandOff(m)
    PROVE  InheritInv'
<1> DEFINE w == Head(waitingQueue[m])
<1>1. /\ UNCHANGED priority /\ section = "open" /\ ownerPtr[m] = runPtr
      /\ waitingQueue' = [waitingQueue EXCEPT ![m] = Tail(@)]
      /\ ownerPtr' = [ownerPtr EXCEPT ![m] = w]
      /\ m \in Inheriting => section' = "unlock" /\ chainPtr' = runPtr /\ wakePtr' = w
      /\ m \notin Inheriting => section' = "give" /\ chainPtr' = NoTask
  BY DEF UnlockHandOff, Enter, Calling, Executing, GiveMutex, schedVars
<1>2. \A n \in Mutex \ {m} : waitingQueue'[n] = waitingQueue[n] /\ ownerPtr'[n] = ownerPtr[n]
  BY <1>1 DEF IInv, TypeOK
<1>3. m \in Inheriting => {ownerPtr[m], ownerPtr'[m]} \subseteq Pending'
  BY <1>1 DEF Pending, IInv, TypeOK
<1>4. Pending \cap Task \subseteq Pending'
  BY <1>1 DEF Pending, InheritInv
<1> QED
  BY <1>1, <1>2, <1>3, <1>4, InheritBut

LEMMA ExpireWaitInherit ==
    ASSUME IInv, InheritInv, NEW t \in Task, ExpireWait(t)
    PROVE  InheritInv'
<1> DEFINE m == waitingQueuePtr[t]
<1>1. /\ UNCHANGED <<priority, ownerPtr>> /\ section \in {"tick", "ticked"} /\ section' = "expire"
      /\ waitingQueue' = [waitingQueue EXCEPT ![m] = TCBQRem(@, t)]
      /\ chainPtr' = TimeoutWaiter(t)
  BY DEF ExpireWait, Enter, schedVars
<1>2. Pending \cap Task \subseteq Pending'
  BY <1>1 DEF Pending, InheritInv
<1>3. CASE m \in Mutex /\ t \in ToSet(waitingQueue[m])
  <2>1. waitingForMutexPtr[t] = m
    BY <1>3 DEF IInv, WaitInv, LinkInv
  <2>2. \A n \in Mutex \ {m} : waitingQueue'[n] = waitingQueue[n]
    BY <1>1 DEF IInv, TypeOK
  <2>3. m \in Inheriting => ownerPtr[m] \in Pending'
    BY <1>1, <1>3, <2>1 DEF TimeoutWaiter, OwnerPrioChain, Pending
  <2> QED
    BY <1>1, <1>2, <1>3, <2>2, <2>3, InheritBut
<1>4. CASE ~(m \in Mutex /\ t \in ToSet(waitingQueue[m]))
  <2>1. ASSUME NEW n \in Mutex PROVE ToSet(waitingQueue'[n]) = ToSet(waitingQueue[n])
    <3>1. CASE n = m
      <4>1. /\ waitingQueue[n] \in Seq(Task) /\ IsInjective(waitingQueue[n])
            /\ t \notin ToSet(waitingQueue[n])
        BY <1>4, <3>1 DEF IInv, TypeOK, WaitInv
      <4>2. waitingQueue'[n] = TCBQRem(waitingQueue[n], t)
        BY <1>1, <3>1 DEF IInv, TypeOK
      <4> DEFINE r == TCBQRem(waitingQueue[n], t)
      <4>3. /\ ToSet(r) \subseteq ToSet(waitingQueue[n])
            /\ ToSet(waitingQueue[n]) \ {t} \subseteq ToSet(r)
        BY <4>1, TCBQRemLemma
      <4> HIDE DEF r
      <4>4. ToSet(r) = ToSet(waitingQueue[n])
        BY <4>1, <4>3
      <4> QED
        BY <4>2, <4>4 DEF r
    <3>2. CASE n # m
      BY <1>1, <3>2 DEF IInv, TypeOK
    <3> QED
      BY <3>1, <3>2
  <2> SUFFICES ASSUME NEW u \in Task, u \notin Pending' PROVE Needs(u, priority[u])'
    BY <1>1 DEF InheritInv
  <2>2. Needs(u, priority[u])
    BY <1>2 DEF InheritInv
  <2>3. Heirs(u)' = Heirs(u)
    BY <1>1, <2>1 DEF Heirs
  <2> QED
    BY <1>1, <2>2, <2>3 DEF Needs
<1> QED
  BY <1>3, <1>4

(* One pass of the chain settles its task; if that changed the priority,   *)
(* the one task it matters to is the owner of the mutex it waits for, and  *)
(* there the chain goes on.                                                *)
LEMMA ChainInherit ==
    ASSUME IInv, OrderInv, InheritInv, ChainStep
    PROVE  InheritInv'
<1>1. PICK t \in Task : t = chainPtr
  BY DEF ChainStep, IInv, TypeOK
<1>2. PICK p \in Prio : p = EffectivePrio(t)
  BY EffectivePrioType DEF IInv
<1>3. /\ UNCHANGED <<ownerPtr, waitingForMutexPtr, section, wakePtr, status>>
      /\ chainPtr' = NextInChain(t, p)
      /\ priority' = [priority EXCEPT ![t] = p]
      /\ section \notin {"open", "tick", "ticked"}
  <2>1. priority = [priority EXCEPT ![t] = priority[t]]
    BY DEF IInv, TypeOK, SchedTypeOK
  <2>2. /\ UNCHANGED <<ownerPtr, waitingForMutexPtr, section, wakePtr, status>>
        /\ chainPtr' = NextInChain(t, p)
        /\ section \notin {"open", "tick", "ticked"}
    BY <1>1, <1>2 DEF ChainStep, InheritInv, schedVars
  <2> QED
    BY <1>1, <1>2, <2>1, <2>2 DEF ChainStep, UpdateEffectivePrio, schedVars
<1>4. \A m \in Mutex : ToSet(waitingQueue'[m]) = ToSet(waitingQueue[m])
  <2>1. CASE UNCHANGED waitingQueue
    BY <2>1
  <2>2. CASE Requeue(t, [priority EXCEPT ![t] = p])
    <3>1. [priority EXCEPT ![t] = p] \in [Task -> Prio]
      BY DEF IInv, TypeOK, SchedTypeOK
    <3> QED
      BY <2>2, <3>1, RequeueLemma DEF IInv, WaitInv
  <2> QED
    BY <1>1, <1>2, <2>1, <2>2 DEF ChainStep
<1>5. \A u \in Task : Heirs(u)' = Heirs(u)
  BY <1>3, <1>4 DEF Heirs
<1>6. /\ priority'[t] = p
      /\ \A u \in Task \ {t} : priority'[u] = priority[u]
  BY <1>3 DEF IInv, TypeOK, SchedTypeOK
<1>7. ASSUME NEW u \in Task PROVE t \notin Heirs(t)
  BY DEF Heirs, IInv, OwnInv
<1>8. Needs(t, priority[t])'
  <2>1. Needs(t, p)
    BY <1>2, EffectivePrioNeeded
  <2>2. \A u \in Heirs(t) : priority'[u] = priority[u]
    BY <1>6, <1>7 DEF Heirs
  <2> QED
    BY <1>5, <1>6, <2>1, <2>2 DEF Needs
<1>9. ASSUME NEW u \in Task, u # t, u \notin Pending'
      PROVE  Needs(u, priority[u])'
  <2>1. Needs(u, priority[u])
    BY <1>1, <1>3, <1>9 DEF Pending, InheritInv
  <2>2. CASE p = priority[t]
    <3>1. \A v \in Task : priority'[v] = priority[v]
      BY <1>6, <2>2
    <3> QED
      BY <1>5, <2>1, <3>1 DEF Needs, Heirs
  <2>3. CASE p # priority[t]
    <3>1. t \notin Heirs(u)
      <4> SUFFICES ASSUME NEW m \in Inheriting, ownerPtr[m] = u, t \in ToSet(waitingQueue[m])
                   PROVE  u \in Pending'
        BY <1>9 DEF Heirs
      <4>1. status[t] = "BLOCKED" /\ waitingForMutexPtr[t] = m
        BY DEF IInv, WaitInv, LinkInv
      <4>2. chainPtr' = u
        BY <1>3, <2>3, <4>1 DEF NextInChain
      <4> QED
        BY <4>2 DEF Pending
    <3>2. \A v \in Heirs(u) : priority'[v] = priority[v]
      BY <1>6, <3>1 DEF Heirs
    <3>3. priority'[u] = priority[u]
      BY <1>6, <1>9
    <3> QED
      BY <1>5, <2>1, <3>2, <3>3 DEF Needs
  <2> QED
    BY <2>2, <2>3
<1> QED
  BY <1>3, <1>8, <1>9 DEF InheritInv

LEMMA InheritStep ==
    ASSUME IInv, OrderInv, InheritInv, [Next]_vars
    PROVE  InheritInv'
<1> USE DEF Enter, Leave
<1>1. CASE Lock
  <2>1. ASSUME NEW m \in Mutex, LockFree(m) PROVE InheritInv'
    <3>1. /\ UNCHANGED <<priority, waitingQueue, section, chainPtr, wakePtr>>
          /\ ownerPtr' = [ownerPtr EXCEPT ![m] = runPtr] /\ ~lock[m]
      BY <2>1 DEF LockFree, schedVars, sectionVars
    <3>2. \A t \in Task : t \notin ToSet(waitingQueue[m])
      BY <3>1 DEF IInv, OwnInv
    <3>3. \A n \in Mutex \ {m} : ownerPtr'[n] = ownerPtr[n]
      BY <3>1 DEF IInv, TypeOK
    <3>4. \A t \in Task : Heirs(t)' = Heirs(t)
      BY <3>1, <3>2, <3>3 DEF Heirs
    <3> QED
      BY <3>1, <3>4 DEF InheritInv, Needs, Pending
  <2>2. CASE LockPend \/ LockTimeout \/ LockSuccess
    BY <2>2, InheritSame DEF LockPend, LockTimeout, LockSuccess, schedVars, mutexVars, sectionVars,
                             Pending, InheritInv
  <2>3. CASE LockResumeExpired
    BY <2>3, InheritSame DEF LockResumeExpired, Executing, schedVars, mutexVars, Pending, InheritInv
  <2> QED
    BY <1>1, <2>1, <2>2, <2>3, LockBlockInherit DEF Lock
<1>2. CASE Unlock
  <2>1. ASSUME NEW m \in Mutex, UnlockFree(m) PROVE InheritInv'
    <3>1. /\ UNCHANGED <<priority, waitingQueue>> /\ section = "open" /\ section' = "unlock"
          /\ ownerPtr' = [ownerPtr EXCEPT ![m] = NoTask] /\ waitingQueue[m] = <<>>
      BY <2>1 DEF UnlockFree, schedVars, Calling, Executing
    <3>2. \A n \in Mutex \ {m} : ownerPtr'[n] = ownerPtr[n]
      BY <3>1 DEF IInv, TypeOK
    <3>3. \A t \in Task : Heirs(t)' = Heirs(t)
      BY <3>1, <3>2, ToSetEmpty DEF Heirs
    <3>4. Pending \cap Task = {}
      BY <3>1 DEF Pending, InheritInv
    <3> QED
      BY <3>1, <3>3, <3>4 DEF InheritInv, Needs
  <2>2. CASE UnlockUpdateNewOwner \/ UnlockReady \/ UnlockDone
    BY <2>2, InheritSame DEF UnlockUpdateNewOwner, UnlockReady, UnlockDone, schedVars, mutexVars,
                             Pending
  <2> QED
    BY <1>2, <2>1, <2>2, UnlockHandOffInherit DEF Unlock
<1>3. CASE SysTick
  <2>1. CASE \E t \in Task : ExpireDelay(t)
    BY <2>1, InheritSame DEF ExpireDelay, ReadyExpired, mutexVars, Pending, InheritInv
  <2>2. CASE Tick \/ ExpireReady \/ TickEnd
    BY <2>2, InheritSame DEF Tick, ExpireReady, TickEnd, ReadyExpired, schedVars, mutexVars,
                             Pending, InheritInv
  <2> QED
    BY <1>3, <2>1, <2>2, ExpireWaitInherit DEF SysTick
<1>4. CASE SleepDelay
  BY <1>4, InheritSame DEF SleepDelay, mutexVars, sectionVars, Pending, InheritInv
<1>5. CASE SchedStep
  BY <1>5, InheritSame DEF SchedStep, PendSV, TaskCall, Swtch, Yield, SchLock, SchUnlock, mutexVars,
                           sectionVars, Pending, InheritInv
<1>6. CASE UNCHANGED vars
  BY <1>6, InheritSame DEF vars, schedVars, mutexVars, sectionVars, Pending, InheritInv
<1> QED
  BY <1>1, <1>2, <1>3, <1>4, <1>5, <1>6, ChainInherit DEF Next

(* Those t delays are its heirs. *)
LEMMA HeirsDelayed ==
    ASSUME IInv, section = "open", NEW t \in Task
    PROVE  Delays(t) = Heirs(t)
<1>1. ASSUME NEW u \in Task PROVE u \in Delays(t) <=> u \in Heirs(t)
  BY DEF Delays, Heirs, Dropped, IInv, WaitInv, LinkInv
<1> QED
  BY <1>1 DEF Delays, Heirs

(* Served(t) holds t and is closed under Delays. *)
LEMMA ServedClosed ==
    ASSUME NEW t \in Task
    PROVE  /\ Served(t) \subseteq Task
           /\ t \in Served(t)
           /\ \A u \in Served(t) : Delays(u) \subseteq Served(t)
           /\ \A S \in SUBSET Task :
                t \in S /\ (\A v \in S : Delays(v) \subseteq S) => Served(t) \subseteq S
  BY DEF Served, Delays

(* Among finitely many tasks of which each delays another there is a cycle *)
(* (one that serves fewest others is served by one it delays).             *)
LEMMA CycleExists ==
    ASSUME NEW X \in SUBSET Task, X # {}, \A u \in X : \E w \in Delays(u) : w \in X
    PROVE  \E u \in X : \E w \in Delays(u) : u \in Served(w)
<1> DEFINE size(u) == Cardinality(Served(u))
           N == {size(u) : u \in X}
<1>1. \A u \in Task : IsFiniteSet(Served(u)) /\ size(u) \in Nat
  BY ServedClosed, FS_Subset, FS_CardinalityType
<1>2. N \in SUBSET Nat /\ N # {}
  BY <1>1
<1>3. PICK u \in X : \A v \in X : size(u) <= size(v)
  <2>1. Min(N) \in N /\ \A x \in N : Min(N) <= x
    BY <1>2, MinOfNats
  <2>2. PICK u \in X : size(u) = Min(N)
    BY <2>1
  <2>3. ASSUME NEW v \in X PROVE size(u) <= size(v)
    <3>1. size(v) \in N
      OBVIOUS
    <3> QED
      BY <2>1, <2>2, <3>1
  <2> QED
    BY <2>3
<1>4. PICK w \in Delays(u) : w \in X
  OBVIOUS
<1>5. Served(w) \subseteq Served(u)
  <2>1. w \in Served(u)
    BY <1>4, ServedClosed
  <2> QED
    BY <1>4, <2>1, ServedClosed
<1>6. Served(w) = Served(u)
  <2> SUFFICES ASSUME Served(w) # Served(u) PROVE FALSE
    OBVIOUS
  <2>1. size(w) < size(u)
    <3>1. u \in Task /\ w \in Task
      BY <1>3, <1>4
    <3>2. IsFiniteSet(Served(u)) /\ Served(w) \in SUBSET Served(u)
      BY <1>1, <1>5, <3>1
    <3>3. /\ Cardinality(Served(w)) <= Cardinality(Served(u))
          /\ Cardinality(Served(u)) = Cardinality(Served(w)) => Served(u) = Served(w)
      BY <3>2, FS_Subset
    <3>4. size(w) \in Nat /\ size(u) \in Nat /\ size(w) <= size(u) /\ size(u) # size(w)
      BY <1>1, <3>1, <3>3
    <3> HIDE DEF size
    <3> QED
      BY <3>4
  <2> HIDE DEF size
  <2> QED
    BY <1>1, <1>3, <1>4, <2>1
<1>7. u \in Served(w)
  BY <1>6, ServedClosed
<1> QED
  BY <1>4, <1>7

(* Transitive and exact inheritance follows from each task's being right   *)
(* about its own waiters.                                                  *)
LEMMA InheritedExactly ==
    ASSUME IInv, InheritInv, section = "open", NEW t \in Task
    PROVE  LET best == Min({Nominal[u] : u \in Served(t)})
           IN  priority[t] <= best /\ (DeadlockFeeds(t) \/ priority[t] = best)
<1> DEFINE N == {Nominal[u] : u \in Served(t)}
           best == Min(N)
<1>1. ASSUME NEW u \in Task
      PROVE  /\ priority[u] \in Nat /\ Nominal[u] \in Nat
             /\ priority[u] <= Nominal[u]
             /\ \A w \in Delays(u) : w \in Task /\ priority[u] <= priority[w]
             /\ priority[u] = Nominal[u] \/ \E w \in Delays(u) : priority[u] = priority[w]
  <2>1. Needs(u, priority[u])
    BY DEF Pending, InheritInv
  <2>2. Delays(u) = Heirs(u) /\ Delays(u) \subseteq Task
    BY HeirsDelayed DEF Heirs
  <2> QED
    BY <2>1, <2>2, PrioNat DEF Needs, IInv, TypeOK, SchedTypeOK
<1>2. Served(t) \subseteq {u \in Task : priority[t] <= priority[u]}
  <2> DEFINE S == {u \in Task : priority[t] <= priority[u]}
  <2>1. t \in S
    BY <1>1
  <2>2. ASSUME NEW v \in S, NEW w \in Delays(v) PROVE w \in S
    BY <1>1
  <2> HIDE DEF S
  <2>3. S \in SUBSET Task
    BY DEF S
  <2>4. \A v \in S : Delays(v) \subseteq S
    BY <2>2
  <2> QED
    <3>1. \A X \in SUBSET Task : t \in X /\ (\A v \in X : Delays(v) \subseteq X) =>
                                   Served(t) \subseteq X
      BY ServedClosed
    <3>2. Served(t) \subseteq S
      BY <2>1, <2>3, <2>4, <3>1
    <3> QED
      BY <3>2 DEF S
<1>3. N \in SUBSET Nat /\ N # {}
  BY <1>1, ServedClosed
<1>4. best \in N /\ \A x \in N : best <= x
  BY <1>3, MinOfNats
<1> HIDE DEF best
<1>5. best \in Nat /\ priority[t] <= best
  <2>1. PICK u \in Served(t) : best = Nominal[u]
    BY <1>4
  <2>2. u \in Task /\ priority[t] <= priority[u] /\ priority[u] <= Nominal[u]
    BY <1>1, <1>2
  <2> QED
    BY <1>1, <2>1, <2>2
<1>6. ASSUME priority[t] # best PROVE DeadlockFeeds(t)
  <2> DEFINE X == {u \in Served(t) : priority[u] = priority[t]}
  <2>1. X \in SUBSET Task /\ X # {} /\ X \subseteq Served(t)
    BY ServedClosed
  <2>2. ASSUME NEW u \in X PROVE \E w \in Delays(u) : w \in X
    <3>1. u \in Task /\ u \in Served(t) /\ priority[u] = priority[t]
      BY ServedClosed
    <3>2. priority[u] # Nominal[u]
      <4>1. best <= Nominal[u] /\ Nominal[u] \in Nat
        BY <1>1, <1>4, <3>1
      <4> QED
        BY <1>1, <1>5, <1>6, <3>1, <4>1
    <3>3. PICK w \in Delays(u) : priority[u] = priority[w]
      BY <1>1, <3>1, <3>2
    <3>4. w \in Served(t)
      BY <3>1, <3>3, ServedClosed
    <3> QED
      BY <3>1, <3>3, <3>4
  <2> HIDE DEF X
  <2>3. PICK u \in X : \E w \in Delays(u) : u \in Served(w)
    BY <2>1, <2>2, CycleExists
  <2> QED
    BY <2>1, <2>3 DEF DeadlockFeeds
<1> QED
  BY <1>5, <1>6 DEF best

(* Priority inheritance is transitive and exact, whatever the tasks, the   *)
(* mutexes and the length of the chains: the loop over the owners leaves   *)
(* nobody with too weak a priority, and unlocking and giving up a wait     *)
(* leave nobody with too strong a one, but in a deadlock.                  *)
THEOREM InheritanceExact == Spec => []PriorityInherited
<1>1. InheritInv /\ IInv /\ OrderInv /\ [Next]_vars => InheritInv'
  BY InheritStep
<1>2. IInv /\ InheritInv => PriorityInherited
  BY InheritedExactly DEF PriorityInherited
<1> QED
  BY OrderInvariance, InheritInitial, <1>1, <1>2, PTL DEF Spec

(***************************************************************************)
(* The hand-off.                                                           *)
(***************************************************************************)
HandOff ==
    \A m \in Mutex :
        ownerPtr[m] # NoTask /\ ownerPtr'[m] \notin {ownerPtr[m], NoTask} =>
            /\ ownerPtr[m] = runPtr
            /\ Contains(waitingQueue[m], ownerPtr'[m])
            /\ \A t \in ToSet(waitingQueue[m]) : priority[ownerPtr'[m]] <= priority[t]

(* The head of a queue in order beats whoever is in it. *)
LEMMA HeadIsBest ==
    ASSUME NEW q \in Seq(Task), q # <<>>, NEW prio \in [Task -> Prio], Sorted(q, prio)
    PROVE  Contains(q, Head(q)) /\ \A t \in ToSet(q) : prio[Head(q)] <= prio[t]
<1>1. /\ Len(q) \in Nat \ {0} /\ Head(q) = q[1] /\ 1 \in 1 .. Len(q)
      /\ \A i \in 1 .. Len(q) : q[i] \in Task
  BY HeadTailProperties, LenProperties, EmptySeq
<1>2. ASSUME NEW t \in ToSet(q) PROVE prio[Head(q)] <= prio[t]
  <2>1. PICK i \in 1 .. Len(q) : t = q[i]
    BY InToSet
  <2>2. CASE i = 1
    <3>1. prio[q[1]] \in Nat
      BY <1>1, PrioNat
    <3> QED
      BY <1>1, <2>1, <2>2, <3>1
  <2>3. CASE i # 1
    <3>1. 1 < i
      BY <1>1, <2>3
    <3> QED
      BY <1>1, <2>1, <3>1 DEF Sorted
  <2> QED
    BY <2>2, <2>3
<1>3. Contains(q, Head(q))
  BY <1>1, InToSet
<1> QED
  BY <1>2, <1>3

LEMMA HandOffStep ==
    ASSUME IInv, OrderInv, [Next]_vars
    PROVE  HandOff
<1>1. ASSUME UNCHANGED ownerPtr PROVE HandOff
  BY <1>1 DEF HandOff
<1>2. ASSUME NEW m \in Mutex, LockFree(m) PROVE HandOff
  BY <1>2 DEF LockFree, HandOff, IInv, TypeOK, OwnInv
<1>3. ASSUME NEW m \in Mutex, UnlockFree(m) PROVE HandOff
  BY <1>3 DEF UnlockFree, HandOff, IInv, TypeOK
<1>4. ASSUME NEW m \in Mutex, UnlockHandOff(m) PROVE HandOff
  <2>1. /\ ownerPtr[m] = runPtr /\ waitingQueue[m] # <<>>
        /\ ownerPtr' = [ownerPtr EXCEPT ![m] = Head(waitingQueue[m])]
    BY <1>4 DEF UnlockHandOff, GiveMutex
  <2>2. /\ Contains(waitingQueue[m], Head(waitingQueue[m]))
        /\ \A t \in ToSet(waitingQueue[m]) : priority[Head(waitingQueue[m])] <= priority[t]
    BY <2>1, HeadIsBest DEF OrderInv, IInv, TypeOK, SchedTypeOK
  <2> QED
    BY <2>1, <2>2 DEF HandOff, IInv, TypeOK
<1>5. CASE Lock
  <2>1. CASE \E m \in Mutex, timed \in BOOLEAN : LockBlock(m, timed)
    BY <1>1, <2>1 DEF LockBlock
  <2>2. CASE LockPend \/ LockResumeExpired \/ LockTimeout \/ LockSuccess
    BY <1>1, <2>2 DEF LockPend, LockResumeExpired, LockTimeout, LockSuccess, mutexVars
  <2> QED
    BY <1>2, <1>5, <2>1, <2>2 DEF Lock
<1>6. CASE Unlock
  <2>1. CASE UnlockUpdateNewOwner \/ UnlockReady \/ UnlockDone
    BY <1>1, <2>1 DEF UnlockUpdateNewOwner, UnlockReady, UnlockDone, mutexVars
  <2> QED
    BY <1>3, <1>4, <1>6, <2>1 DEF Unlock
<1>7. CASE SysTick
  <2>1. CASE \E t \in Task : ExpireDelay(t) \/ ExpireWait(t)
    BY <1>1, <2>1 DEF ExpireDelay, ReadyExpired, ExpireWait, mutexVars
  <2>2. CASE Tick \/ ExpireReady \/ TickEnd
    BY <1>1, <2>2 DEF Tick, ExpireReady, TickEnd, ReadyExpired, mutexVars
  <2> QED
    BY <1>7, <2>1, <2>2 DEF SysTick
<1>8. CASE SleepDelay \/ ChainStep \/ SchedStep \/ UNCHANGED vars
  BY <1>1, <1>8 DEF SleepDelay, ChainStep, SchedStep, vars, mutexVars
<1> QED
  BY <1>5, <1>6, <1>7, <1>8 DEF Next

(* kMutexUnlock hands a mutex to a waiter no other waiter beats, and no    *)
(* other step of the kernel moves a mutex from one task to another.        *)
THEOREM HandOffSafe == Spec => HandOffToBest
<1>1. IInv /\ OrderInv /\ [Next]_vars => HandOff
  BY HandOffStep
<1>2. HandOff <=>
        \A m \in Mutex :
          ownerPtr[m] # NoTask /\ ownerPtr'[m] \notin {ownerPtr[m], NoTask} =>
            /\ ownerPtr[m] = runPtr
            /\ Contains(waitingQueue[m], ownerPtr'[m])
            /\ \A t \in ToSet(waitingQueue[m]) : priority[ownerPtr'[m]] <= priority[t]
  BY DEF HandOff
<1> QED
  BY <1>1, <1>2, OrderInvariance, PTL DEF Spec, HandOffToBest

(***************************************************************************)
(* Preemption.                                                             *)
(***************************************************************************)

(* A switch is pending for a task that could go on only if it may be       *)
(* preempted; locking the scheduler is for preemptible tasks.              *)
PreemptInv ==
    /\ pendSV /\ status[runPtr] = "RUNNING" => runPtr \in Preemptible /\ schLock = 0
    /\ schLock > 0 => runPtr \in Preemptible
    /\ \A t \in Task : tcbSchLock[t] > 0 => t \in Preemptible

(* What the decisions to switch leave true of the runner and its locks. *)
LEMMA ReschedPreempt ==
    ASSUME NEW st, NEW p, NEW b, SchedTypeOK, PreemptInv,
           UNCHANGED <<runPtr, schLock, tcbSchLock>>,
           status'[runPtr] = "RUNNING" => status[runPtr] = "RUNNING",
           \/ DeferCtxSwtch \/ UNCHANGED swtchVars
           \/ ReschedTask(p) \/ ReschedRunning(p) \/ TickResched(b)
           \/ PendCtxSwtch(st) /\ status'[runPtr] # "RUNNING"
    PROVE  PreemptInv'
<1>1. status'[runPtr] = "RUNNING" /\ pendSV' => runPtr \in Preemptible /\ schLock = 0
  <2> SUFFICES ASSUME status'[runPtr] = "RUNNING", pendSV'
               PROVE  runPtr \in Preemptible /\ schLock = 0
    OBVIOUS
  <2>1. status[runPtr] = "RUNNING" /\ (schLock > 0 \/ schLock = 0)
    BY DEF SchedTypeOK
  <2>2. CASE DeferCtxSwtch \/ UNCHANGED swtchVars
    BY <2>1, <2>2 DEF DeferCtxSwtch, swtchVars, PreemptInv
  <2>3. CASE ReschedTask(p)
    BY <2>1, <2>3 DEF ReschedTask, DeferCtxSwtch, swtchVars, PreemptInv
  <2>4. CASE ReschedRunning(p)
    BY Zenon, <2>1, <2>4 DEF ReschedRunning, PendCtxSwtch, DeferCtxSwtch, swtchVars, PreemptInv
  <2>5. CASE TickResched(b)
    BY Zenon, <2>1, <2>5 DEF TickResched, PendCtxSwtch, DeferCtxSwtch, swtchVars, PreemptInv
  <2> QED
    BY <2>2, <2>3, <2>4, <2>5
<1> QED
  BY <1>1 DEF PreemptInv

LEMMA PreemptInitial == Init => PreemptInv
  BY DEF Init, SchedInit, PreemptInv

LEMMA PreemptSched ==
    ASSUME IInv, PreemptInv, SchedStep
    PROVE  PreemptInv'
<1> USE DEF PreemptInv
<1>1. SchedTypeOK /\ runPtr \in Task /\ tcbSchLock \in [Task -> Nat] /\ schLock \in Nat
  BY DEF IInv, TypeOK, SchedTypeOK
<1>2. CASE PendSV
  <2>1. runPtr' \in Task
    BY <1>1, <1>2, SwtchType DEF PendSV, SchedTypeOK
  <2>2. /\ tcbSchLock' = [tcbSchLock EXCEPT ![runPtr] = schLock]
        /\ schLock' = IF runPtr' = runPtr THEN schLock ELSE tcbSchLock[runPtr']
        /\ pendSV' = FALSE
    BY <1>2 DEF PendSV, Swtch
  <2> QED
    BY <1>1, <2>1, <2>2
<1>3. CASE Yield
  <2>1. status'[runPtr] # "RUNNING" /\ UNCHANGED <<runPtr, schLock, tcbSchLock>>
    BY <1>1, <1>3 DEF Yield, SchedTypeOK
  <2> QED
    BY <2>1
<1>4. CASE SchLock /\ Calling
  BY <1>1, <1>4 DEF SchLock, Calling, Executing
<1>5. CASE SchUnlock /\ Calling
  <2>1. /\ schLock > 0 /\ schLock' = schLock - 1 /\ UNCHANGED <<runPtr, status>> /\ ~pendSV
        /\ tcbSchLock' = [tcbSchLock EXCEPT ![runPtr] = schLock - 1]
    BY <1>5 DEF SchUnlock, Calling, Executing
  <2>2. pendSV' => schLock = 1
    BY <1>5, <2>1 DEF SchUnlock, swtchVars
  <2> QED
    BY <1>1, <2>1, <2>2
<1> QED
  BY <1>2, <1>3, <1>4, <1>5 DEF SchedStep, TaskCall

LEMMA PreemptStep ==
    ASSUME IInv, PreemptInv, [Next]_vars
    PROVE  PreemptInv'
<1>1. SchedTypeOK /\ runPtr \in Task
  BY DEF IInv, TypeOK, SchedTypeOK
<1>2. ASSUME UNCHANGED <<runPtr, schLock, tcbSchLock, swtchVars>>,
             status'[runPtr] = "RUNNING" => status[runPtr] = "RUNNING"
      PROVE  PreemptInv'
  BY <1>2 DEF swtchVars, PreemptInv
<1>3. CASE Lock
  <2>1. CASE \E m \in Mutex, timed \in BOOLEAN : LockBlock(m, timed)
    <3>1. UNCHANGED <<runPtr, schLock, tcbSchLock, swtchVars>> /\ status'[runPtr] = "BLOCKED"
      BY <1>1, <2>1 DEF LockBlock, SchedTypeOK
    <3> QED
      BY <1>2, <3>1
  <2>2. CASE LockPend
    <3>1. /\ UNCHANGED <<runPtr, schLock, tcbSchLock, status>> /\ status[runPtr] # "RUNNING"
          /\ PendCtxSwtch(status[runPtr])
      BY <2>2 DEF LockPend, IInv, RunInv
    <3> QED
      BY <1>1, <3>1, ReschedPreempt
  <2>3. CASE \E m \in Mutex : LockFree(m)
    BY <1>2, <2>3 DEF LockFree, schedVars, swtchVars
  <2>4. CASE LockResumeExpired \/ LockTimeout \/ LockSuccess
    BY <1>2, <2>4 DEF LockResumeExpired, LockTimeout, LockSuccess, schedVars, swtchVars
  <2> QED
    BY <1>3, <2>1, <2>2, <2>3, <2>4 DEF Lock
<1>4. CASE Unlock
  <2>1. CASE UnlockReady
    <3>1. /\ UNCHANGED <<runPtr, schLock, tcbSchLock>> /\ ReschedTask(priority[wakePtr])
          /\ status' = [status EXCEPT ![wakePtr] = "READY"]
      BY <2>1 DEF UnlockReady, ReadySwtch, ReadyNoSwtch
    <3>2. status'[runPtr] = "RUNNING" => status[runPtr] = "RUNNING"
      BY <1>1, <3>1 DEF SchedTypeOK
    <3> QED
      BY <1>1, <3>1, <3>2, ReschedPreempt
  <2>2. CASE \E m \in Mutex : UnlockFree(m) \/ UnlockHandOff(m)
    BY <1>2, <2>2 DEF UnlockFree, UnlockHandOff, schedVars, swtchVars
  <2>3. CASE UnlockUpdateNewOwner \/ UnlockDone
    BY <1>2, <2>3 DEF UnlockUpdateNewOwner, UnlockDone, schedVars, swtchVars
  <2> QED
    BY <1>4, <2>1, <2>2, <2>3 DEF Unlock
<1>5. CASE SysTick
  <2>1. ASSUME NEW t \in Task, ReadyExpired(t) PROVE PreemptInv'
    <3>1. /\ UNCHANGED <<runPtr, schLock, tcbSchLock, swtchVars>>
          /\ status' = [status EXCEPT ![t] = "READY"]
      BY <2>1 DEF ReadyExpired
    <3> QED
      BY <1>1, <1>2, <3>1 DEF SchedTypeOK
  <2>2. CASE \E t \in Task : ExpireDelay(t)
    BY <2>1, <2>2 DEF ExpireDelay
  <2>3. CASE ExpireReady
    <3>1. wakePtr \in Task
      BY <2>3 DEF ExpireReady, IInv, WakeInv, TypeOK
    <3> QED
      BY <2>1, <2>3, <3>1 DEF ExpireReady
  <2>4. CASE Tick \/ \E t \in Task : ExpireWait(t)
    BY <1>2, <2>4 DEF Tick, ExpireWait, schedVars, swtchVars
  <2>5. CASE TickEnd
    BY <1>1, <2>5, ReschedPreempt DEF TickEnd
  <2> QED
    BY <1>5, <2>2, <2>3, <2>4, <2>5 DEF SysTick
<1>6. CASE SleepDelay
  <2>1. /\ UNCHANGED <<runPtr, schLock, tcbSchLock>> /\ status'[runPtr] # "RUNNING"
        /\ PendCtxSwtch("SLEEPING_DELAY")
    BY <1>1, <1>6 DEF SleepDelay, SchedTypeOK
  <2> QED
    BY <1>1, <2>1, ReschedPreempt
<1>7. CASE ChainStep
  <2>1. CASE UNCHANGED schedVars
    BY <1>2, <2>1 DEF schedVars, swtchVars
  <2>2. CASE ~ UNCHANGED schedVars
    <3>1. PICK t \in Task, p \in Prio :
                 /\ UpdateEffectivePrio(t, p)
                 /\ UNCHANGED <<status, tcbSchLock, runPtr, schLock>>
      BY <1>7, <2>2, EffectivePrioType DEF ChainStep, IInv, TypeOK
    <3>2. UNCHANGED swtchVars \/ ReschedTask(p) \/ ReschedRunning(p)
      BY <3>1 DEF UpdateEffectivePrio, swtchVars
    <3> QED
      BY <1>1, <3>1, <3>2, ReschedPreempt
  <2> QED
    BY <2>1, <2>2
<1>8. CASE UNCHANGED vars
  BY <1>2, <1>8 DEF vars, schedVars, swtchVars
<1> QED
  BY <1>3, <1>4, <1>5, <1>6, <1>7, <1>8, PreemptSched DEF Next

(* kSwtch takes the processor from a RUNNING task only for a better one:   *)
(* the task is put back in front of its level first.                       *)
LEMMA SwtchTakesBetter ==
    ASSUME SchedTypeOK, ReadyInv, Swtch, status[runPtr] = "RUNNING", runPtr' # runPtr
    PROVE  priority[runPtr'] < priority[runPtr]
<1> DEFINE pr == priority[runPtr]
           p  == NextTaskPrio(SwtchBitmask)
<1>1. /\ runPtr \in Task /\ pr \in Prio /\ readyQueue \in [Prio -> Seq(Task)]
      /\ readyQueue[pr] \in Seq(Task)
  BY DEF SchedTypeOK
<1>2. SwtchQueue[pr] # <<>> /\ Head(SwtchQueue[pr]) = runPtr
  <2> DEFINE r == readyQueue[pr]
             c == Cons(runPtr, r)
  <2>1. c # <<>> /\ Head(c) = runPtr
    <3> HIDE DEF r
    <3>1. r \in Seq(Task)
      BY <1>1 DEF r
    <3> QED
      BY <1>1, <3>1, ConsLemma
  <2>2. SwtchQueue[pr] = c
    BY <1>1 DEF SwtchQueue
  <2> HIDE DEF c
  <2> QED
    BY <2>1, <2>2
<1>3. /\ \A r \in Prio : \A t \in Task :
           t \in ToSet(SwtchQueue[r]) => priority[t] = r
      /\ SwtchBitmask = {r \in Prio : r < BitmaskLimit /\ SwtchQueue[r] # <<>>}
  BY SwtchQueueInv
<1>4. p \in Prio /\ SwtchQueue \in [Prio -> Seq(Task)]
  BY SwtchQueueType, NextTaskPrioType
<1>5. pr \in Nat /\ pr <= IdlePrio /\ p \in Nat /\ p <= IdlePrio
  BY <1>1, <1>4 DEF Prio
<1>6. p <= pr
  <2>1. CASE pr < BitmaskLimit
    <3>1. pr \in SwtchBitmask /\ SwtchBitmask \in SUBSET Nat
      BY <1>1, <1>2, <1>3, <2>1, PrioNat
    <3> QED
      BY <3>1, MinOfNats DEF NextTaskPrio
  <2>2. CASE ~(pr < BitmaskLimit)
    BY <1>5, <2>2
  <2> QED
    BY <2>1, <2>2
<1>7. SwtchQueue[p] # <<>> /\ runPtr' = Head(SwtchQueue[p])
  BY DEF Swtch
<1> HIDE DEF p
<1>8. p # pr
  BY <1>2, <1>7
<1>9. runPtr' \in Task /\ runPtr' \in ToSet(SwtchQueue[p])
  BY <1>4, <1>7, TailLemma
<1>10. priority[runPtr'] = p
  BY <1>3, <1>4, <1>9
<1> QED
  BY <1>5, <1>6, <1>8, <1>10

Preempts ==
    status[runPtr] = "RUNNING" /\ runPtr' # runPtr =>
        /\ runPtr \in Preemptible
        /\ schLock = 0
        /\ priority[runPtr'] < priority[runPtr]

LEMMA PreemptsStep ==
    ASSUME IInv, PreemptInv, [Next]_vars
    PROVE  Preempts
<1>1. CASE PendSV
  BY <1>1, SwtchTakesBetter DEF PendSV, Preempts, PreemptInv, IInv, TypeOK
<1>2. ASSUME UNCHANGED runPtr PROVE Preempts
  BY <1>2 DEF Preempts
<1>3. CASE Lock
  BY <1>2, <1>3 DEF Lock, LockFree, LockBlock, LockPend, LockResumeExpired, LockTimeout,
                    LockSuccess, schedVars
<1>4. CASE Unlock
  BY <1>2, <1>4 DEF Unlock, UnlockFree, UnlockHandOff, UnlockUpdateNewOwner, UnlockReady,
                    UnlockDone, schedVars
<1>5. CASE SysTick
  BY <1>2, <1>5 DEF SysTick, Tick, ExpireReady, TickEnd, ExpireDelay, ExpireWait,
                    ReadyExpired, schedVars
<1>6. CASE SleepDelay \/ ChainStep \/ UNCHANGED vars
  BY <1>2, <1>6 DEF SleepDelay, ChainStep, vars, schedVars
<1>7. CASE TaskCall
  BY <1>2, <1>7 DEF TaskCall, Yield, SchLock, SchUnlock
<1> QED
  BY <1>1, <1>3, <1>4, <1>5, <1>6, <1>7 DEF Next, SchedStep

(* A task that wants to go on keeps the processor: PendSV takes it only    *)
(* for a better task, from a task that may be preempted and holds no       *)
(* scheduler lock.                                                         *)
THEOREM PreemptionSafe == Spec => PreemptedOnlyByBetter
<1>1. IInv /\ PreemptInv /\ [Next]_vars => (IInv /\ PreemptInv)'
  BY NextInv, PreemptStep
<1>2. IInv /\ PreemptInv /\ [Next]_vars => Preempts
  BY PreemptsStep
<1>3. Preempts <=>
        (status[runPtr] = "RUNNING" /\ runPtr' # runPtr =>
           /\ runPtr \in Preemptible
           /\ schLock = 0
           /\ priority[runPtr'] < priority[runPtr])
  BY DEF Preempts
<1> QED
  BY InitInv, PreemptInitial, <1>1, <1>2, <1>3, PTL DEF Spec, PreemptedOnlyByBetter

(***************************************************************************)
(* No preemption is lost.                                                  *)
(***************************************************************************)

(* Nobody ready beats the runner but with the switch deferred.  The tick   *)
(* decides at its end, a task that blocks at the end of its section.       *)
Owed == \E t \in Task : status[t] = "READY" /\ priority[t] < priority[runPtr]
Deferred == schLock > 0 /\ pendingCtxtSwtch

OwedInv ==
    section \notin {"lock", "expire", "ticked"} /\ runPtr \in Preemptible /\ ~pendSV /\ Owed =>
        Deferred

LEMMA OwedInitial == Init => OwedInv
<1> SUFFICES ASSUME Init, NEW t \in Task PROVE ~(priority[t] < priority[runPtr])
  BY DEF OwedInv, Owed
<1>1. priority = Nominal /\ runPtr \in Task /\ \A u \in Task : Nominal[runPtr] <= Nominal[u]
  BY SchedInitTop DEF Init, SchedInit
<1>2. \A u \in Task : Nominal[u] \in Nat
  BY PrioNat
<1> QED
  BY <1>1, <1>2

(* Nothing the runner could be owed has changed. *)
LEMMA OwedKept ==
    ASSUME SchedTypeOK, OwedInv, UNCHANGED <<runPtr, priority>>,
           section \notin {"lock", "expire", "ticked"},
           \A t \in Task : status'[t] = "READY" => status[t] = "READY",
           ~pendSV' => ~pendSV, Deferred => Deferred' \/ pendSV'
    PROVE  OwedInv'
<1>1. Owed' => Owed
  BY DEF Owed
<1> QED
  BY Zenon, <1>1 DEF OwedInv

(* A decision that finds the runner beaten asks for the switch. *)
LEMMA ReschedAnswers ==
    ASSUME NEW p \in Nat, SchedTypeOK, ReschedTask(p), runPtr \in Preemptible,
           priority[runPtr] > p, UNCHANGED schLock
    PROVE  pendSV' \/ Deferred'
<1>1. schLock = 0 \/ schLock > 0
  BY DEF SchedTypeOK
<1> QED
  BY <1>1 DEF ReschedTask, PendCtxSwtchNow, DeferCtxSwtch, Deferred, SchedTypeOK

LEMMA PendAnswers ==
    ASSUME NEW st, SchedTypeOK, PendCtxSwtch(st), UNCHANGED schLock
    PROVE  pendSV' \/ Deferred'
  BY DEF PendCtxSwtch, PendCtxSwtchNow, DeferCtxSwtch, Deferred, SchedTypeOK

(* The levels of the ready tasks are in the mask, or no better than idle's. *)
LEMMA NextIsBest ==
    ASSUME SchedTypeOK, ReadyInv, NEW t \in Task, status[t] = "READY"
    PROVE  NextTaskPrio(readyBitmask) <= priority[t]
<1>1. priority[t] \in Prio /\ readyQueue[priority[t]] \in Seq(Task)
  BY DEF SchedTypeOK
<1>2. readyQueue[priority[t]] # <<>>
  BY <1>1, ToSetEmpty DEF ReadyInv
<1>3. readyBitmask \in SUBSET Prio /\ NextTaskPrio(readyBitmask) \in Prio
  BY NextTaskPrioType DEF SchedTypeOK
<1>4. CASE priority[t] < BitmaskLimit
  <2>1. priority[t] \in readyBitmask /\ readyBitmask \in SUBSET Nat
    BY <1>1, <1>2, <1>3, <1>4, PrioNat DEF ReadyInv
  <2> QED
    BY <2>1, MinOfNats DEF NextTaskPrio
<1>5. CASE ~(priority[t] < BitmaskLimit)
  BY <1>1, <1>3, <1>5 DEF Prio
<1> QED
  BY <1>4, <1>5

(* The dispatched task is the best one there is. *)
LEMMA SwtchTakesBest ==
    ASSUME SchedTypeOK, ReadyInv, Swtch, NEW t \in Task, status'[t] = "READY"
    PROVE  ~(priority'[t] < priority'[runPtr'])
<1> DEFINE p == NextTaskPrio(SwtchBitmask)
<1>1. /\ \A r \in Prio : \A u \in Task :
           u \in ToSet(SwtchQueue[r]) <=> priority[u] = r /\ status[u] \in {"READY", "RUNNING"}
      /\ SwtchBitmask = {r \in Prio : r < BitmaskLimit /\ SwtchQueue[r] # <<>>}
  BY SwtchQueueInv
<1>2. p \in Prio /\ SwtchQueue \in [Prio -> Seq(Task)] /\ SwtchBitmask \in SUBSET Prio
  BY SwtchQueueType, NextTaskPrioType
<1>3. SwtchQueue[p] # <<>> /\ runPtr' = Head(SwtchQueue[p]) /\ UNCHANGED priority
  BY DEF Swtch
<1>4. priority[runPtr'] = p
  <2> HIDE DEF p
  <2>1. runPtr' \in Task /\ runPtr' \in ToSet(SwtchQueue[p])
    BY <1>2, <1>3, TailLemma
  <2> QED
    BY <1>1, <1>2, <2>1
<1>5. status[t] \in {"READY", "RUNNING"}
  <2>1. t # runPtr'
    BY SwtchInv
  <2> QED
    BY <2>1, SwtchInv
<1>6. priority[t] \in Prio /\ SwtchQueue[priority[t]] # <<>>
  <2>1. priority[t] \in Prio
    BY DEF SchedTypeOK
  <2> QED
    BY <1>1, <1>2, <1>5, <2>1, ToSetEmpty
<1>7. p <= priority[t]
  <2>1. CASE priority[t] < BitmaskLimit
    <3>1. priority[t] \in SwtchBitmask /\ SwtchBitmask \in SUBSET Nat
      BY <1>1, <1>2, <1>6, <2>1, PrioNat
    <3> QED
      BY <3>1, MinOfNats DEF NextTaskPrio
  <2>2. CASE ~(priority[t] < BitmaskLimit)
    <3> HIDE DEF p
    <3> QED
      BY <1>2, <1>6, <2>2 DEF Prio
  <2> QED
    BY <2>1, <2>2
<1> HIDE DEF p
<1> QED
  BY <1>2, <1>3, <1>4, <1>6, <1>7 DEF Prio

(* A pass of the priority chain: a ready task that now beats the runner,   *)
(* or a runner that now falls behind, is noticed.                          *)
LEMMA ChainOwed ==
    ASSUME IInv, OwedInv, ChainStep
    PROVE  OwedInv'
<1> SUFFICES ASSUME section \notin {"lock", "expire", "ticked"}, runPtr \in Preemptible,
                    ~pendSV', Owed'
             PROVE  Deferred'
  BY DEF OwedInv, ChainStep, schedVars, UpdateEffectivePrio
<1>0. SchedTypeOK /\ ReadyInv /\ runPtr \in Task
  BY DEF IInv, TypeOK, SchedTypeOK
<1>1. CASE UNCHANGED schedVars
  BY <1>1, Zenon DEF OwedInv, Owed, Deferred, schedVars
<1>2. CASE ~ UNCHANGED schedVars
  <2>1. PICK t \in Task : t = chainPtr
    BY DEF ChainStep, IInv, TypeOK
  <2>2. PICK p \in Prio : p = EffectivePrio(t)
    BY EffectivePrioType DEF IInv
  <2>3. /\ UpdateEffectivePrio(t, p)
        /\ UNCHANGED <<status, tcbSchLock, runPtr, schLock, section>>
    BY <1>2, <2>1, <2>2 DEF ChainStep
  <2>4. /\ p \in Nat /\ priority'[t] = p
        /\ \A u \in Task : priority[u] \in Nat /\ (u # t => priority'[u] = priority[u])
    BY <2>3, PrioNat DEF UpdateEffectivePrio, IInv, TypeOK, SchedTypeOK
  <2>5. PICK u \in Task : status[u] = "READY" /\ priority'[u] < priority'[runPtr]
    BY <2>3 DEF Owed
  <2>6. UNCHANGED swtchVars \/ ReschedTask(p) \/ ReschedRunning(p)
    BY <2>3 DEF UpdateEffectivePrio, swtchVars
  <2>7. ~pendSV /\ (pendingCtxtSwtch => pendingCtxtSwtch')
    BY <1>0, <2>6, ReschedKeeps
  <2>8. \/ status[runPtr] = "RUNNING"
        \/ status[runPtr] = "READY" /\ Deferred
    BY <2>7 DEF IInv, RunInv, Deferred
  <2>9. Deferred => Deferred'
    BY <2>3, <2>7 DEF Deferred
  <2>10. CASE status[runPtr] = "RUNNING" /\ t = runPtr
    <3>1. ReschedRunning(p)
      BY <2>3, <2>10 DEF UpdateEffectivePrio
    <3>2. priority[u] < p /\ u # t
      BY <2>4, <2>5, <2>10
    <3>3. NextTaskPrio(readyBitmask) < p
      <4>1. NextTaskPrio(readyBitmask) \in Nat /\ NextTaskPrio(readyBitmask) <= priority[u]
        BY <1>0, <2>5, NextIsBest, NextTaskPrioType, PrioNat DEF SchedTypeOK
      <4> QED
        BY <2>4, <3>2, <4>1
    <3>4. PendCtxSwtch("RUNNING")
      BY <2>10, <3>1, <3>3 DEF ReschedRunning
    <3> QED
      BY <1>0, <2>3, <3>4, PendAnswers
  <2>11. CASE status[runPtr] = "RUNNING" /\ t # runPtr
    <3>1. priority'[runPtr] = priority[runPtr]
      BY <1>0, <2>4, <2>11
    <3>2. CASE u # t
      <4>1. Owed
        BY <2>4, <2>5, <3>1, <3>2 DEF Owed
      <4> QED
        BY <2>7, <2>9, <4>1 DEF OwedInv
    <3>3. CASE u = t
      <4>1. status[t] = "READY" /\ priority[runPtr] > p
        BY <1>0, <2>4, <2>5, <3>1, <3>3
      <4>2. ReschedTask(p)
        BY <2>3, <2>11, <4>1 DEF UpdateEffectivePrio
      <4> QED
        BY <1>0, <2>3, <2>4, <4>1, <4>2, ReschedAnswers
    <3> QED
      BY <3>2, <3>3
  <2> QED
    BY <2>8, <2>9, <2>10, <2>11
<1> QED
  BY <1>1, <1>2

LEMMA UnlockReadyOwed ==
    ASSUME IInv, OwedInv, UnlockReady
    PROVE  OwedInv'
<1> SUFFICES ASSUME runPtr \in Preemptible, ~pendSV', Owed' PROVE Deferred'
  BY DEF OwedInv, UnlockReady
<1>1. SchedTypeOK /\ wakePtr \in Task /\ \A u \in Task : priority[u] \in Nat
  BY PrioNat DEF UnlockReady, IInv, WakeInv, TypeOK, SchedTypeOK
<1>2. /\ UNCHANGED <<priority, runPtr, schLock>> /\ ReschedTask(priority[wakePtr])
      /\ status' = [status EXCEPT ![wakePtr] = "READY"] /\ section = "give"
  BY DEF UnlockReady, ReadySwtch, ReadyNoSwtch
<1>3. ~pendSV /\ (pendingCtxtSwtch => pendingCtxtSwtch')
  BY <1>1, <1>2, ReschedKeeps
<1>4. PICK u \in Task : status'[u] = "READY" /\ priority[u] < priority[runPtr]
  BY <1>2 DEF Owed
<1>5. CASE u = wakePtr
  <2>1. priority[runPtr] > priority[wakePtr]
    BY <1>1, <1>4, <1>5 DEF SchedTypeOK
  <2> QED
    BY <1>1, <1>2, <2>1, ReschedAnswers
<1>6. CASE u # wakePtr
  <2>1. Owed
    BY <1>1, <1>2, <1>4, <1>6 DEF Owed, SchedTypeOK
  <2>2. Deferred
    BY <1>2, <1>3, <2>1 DEF OwedInv
  <2> QED
    BY <1>2, <1>3, <2>2 DEF Deferred
<1> QED
  BY <1>5, <1>6

LEMMA TickEndOwed ==
    ASSUME IInv, OwedInv, TickEnd
    PROVE  OwedInv'
<1> SUFFICES ASSUME runPtr \in Preemptible, ~pendSV', Owed' PROVE Deferred'
  BY DEF OwedInv, TickEnd
<1>1. SchedTypeOK /\ UNCHANGED <<status, priority, runPtr, schLock>>
  BY DEF TickEnd, IInv, TypeOK
<1>2. TickResched(section = "ticked") /\ section \in {"tick", "ticked"}
  BY DEF TickEnd
<1>3. ~pendSV /\ (pendingCtxtSwtch => pendingCtxtSwtch')
  BY <1>1, <1>2, ReschedKeeps
<1>4. CASE section = "ticked"
  <2>1. PendCtxSwtch(status[runPtr])
    BY <1>2, <1>4 DEF TickResched
  <2> QED
    BY <1>1, <2>1, PendAnswers
<1>5. CASE section = "tick"
  <2>1. Owed
    BY <1>1 DEF Owed
  <2>2. Deferred
    BY <1>3, <1>5, <2>1 DEF OwedInv
  <2> QED
    BY <1>1, <1>3, <2>2 DEF Deferred
<1> QED
  BY <1>2, <1>4, <1>5

LEMMA SchedOwed ==
    ASSUME IInv, OwedInv, SchedStep
    PROVE  OwedInv'
<1>1. SchedTypeOK /\ ReadyInv /\ schLock \in Nat
  BY DEF IInv, TypeOK, SchedTypeOK
<1>2. CASE PendSV
  <2>1. ~ Owed'
    BY <1>1, <1>2, SwtchTakesBest DEF PendSV, Owed
  <2> QED
    BY <2>1 DEF OwedInv
<1>3. CASE Yield
  <2>1. UNCHANGED schLock /\ IF schLock = 0 THEN PendCtxSwtchNow ELSE DeferCtxSwtch
    BY <1>3 DEF Yield
  <2>2. pendSV' \/ Deferred'
    BY <1>1, <2>1 DEF PendCtxSwtchNow, DeferCtxSwtch, Deferred
  <2> QED
    BY <2>2, Zenon DEF OwedInv
<1>4. CASE SchLock /\ Calling
  <2>1. UNCHANGED <<status, priority, runPtr, pendSV>> /\ section = "open"
    BY <1>4 DEF SchLock, Calling, Executing
  <2>2. Deferred => Deferred'
    BY <1>1, <1>4 DEF SchLock, Deferred
  <2> QED
    BY <1>1, <2>1, <2>2, OwedKept
<1>5. CASE SchUnlock /\ Calling
  <2>1. UNCHANGED <<status, priority, runPtr>> /\ section = "open" /\ ~pendSV
    BY <1>5 DEF SchUnlock, Calling, Executing
  <2>2. ASSUME Deferred PROVE Deferred' \/ pendSV'
    <3>1. CASE schLock = 1
      BY <1>5, <2>2, <3>1 DEF SchUnlock, Deferred, PendCtxSwtchNow
    <3>2. CASE schLock # 1
      <4>1. schLock' > 0
        BY <1>1, <1>5, <2>2, <3>2 DEF SchUnlock, Deferred
      <4>2. UNCHANGED pendingCtxtSwtch
        BY <1>5, <3>2 DEF SchUnlock, swtchVars
      <4> QED
        BY <2>2, <4>1, <4>2 DEF Deferred
    <3> QED
      BY <3>1, <3>2
  <2> QED
    BY <1>1, <2>1, <2>2, OwedKept
<1> QED
  BY <1>2, <1>3, <1>4, <1>5 DEF SchedStep, TaskCall

LEMMA OwedStep ==
    ASSUME IInv, OwedInv, [Next]_vars
    PROVE  OwedInv'
<1>0. SchedTypeOK /\ runPtr \in Task
  BY DEF IInv, TypeOK, SchedTypeOK
<1>1. ASSUME UNCHANGED schedVars, section \notin {"lock", "expire", "ticked"}
      PROVE  OwedInv'
  BY <1>0, <1>1, OwedKept DEF schedVars, Deferred
<1>2. CASE Lock
  <2>1. CASE \E m \in Mutex, timed \in BOOLEAN : LockBlock(m, timed)
    BY <2>1 DEF LockBlock, Enter, OwedInv
  <2>2. CASE LockPend
    <3>1. PendCtxSwtch(status[runPtr]) /\ status[runPtr] = "BLOCKED"
      BY <2>2 DEF LockPend, IInv, RunInv
    <3>2. pendSV'
      BY <3>1 DEF PendCtxSwtch, PendCtxSwtchNow
    <3> QED
      BY <3>2, Zenon DEF OwedInv
  <2>3. CASE \E m \in Mutex : LockFree(m)
    BY <1>1, <2>3 DEF LockFree, Calling, Executing
  <2>4. CASE LockResumeExpired \/ LockTimeout \/ LockSuccess
    BY <1>1, <2>4 DEF LockResumeExpired, LockTimeout, LockSuccess, Executing
  <2> QED
    BY <1>2, <2>1, <2>2, <2>3, <2>4 DEF Lock
<1>3. CASE Unlock
  <2>1. CASE \E m \in Mutex : UnlockFree(m) \/ UnlockHandOff(m)
    BY <1>1, <2>1 DEF UnlockFree, UnlockHandOff, Calling, Executing
  <2>2. CASE UnlockUpdateNewOwner \/ UnlockDone
    BY <1>1, <2>2 DEF UnlockUpdateNewOwner, UnlockDone
  <2> QED
    BY <1>3, <2>1, <2>2, UnlockReadyOwed DEF Unlock
<1>4. CASE SysTick
  <2>1. CASE \E t \in Task : ExpireDelay(t) \/ ExpireWait(t)
    BY <2>1 DEF ExpireDelay, ReadyExpired, ExpireWait, Enter, OwedInv
  <2>2. CASE ExpireReady
    BY <2>2 DEF ExpireReady, ReadyExpired, Enter, OwedInv
  <2>3. CASE Tick
    BY <1>1, <2>3 DEF Tick
  <2> QED
    BY <1>4, <2>1, <2>2, <2>3, TickEndOwed DEF SysTick
<1>5. CASE SleepDelay
  <2>1. PendCtxSwtch("SLEEPING_DELAY")
    BY <1>5 DEF SleepDelay
  <2>2. pendSV'
    BY <2>1 DEF PendCtxSwtch, PendCtxSwtchNow
  <2> QED
    BY <2>2, Zenon DEF OwedInv
<1>6. CASE UNCHANGED vars
  <2>1. UNCHANGED schedVars /\ UNCHANGED section
    BY <1>6 DEF vars, sectionVars
  <2> QED
    BY <1>1, <2>1 DEF OwedInv
<1> QED
  BY <1>2, <1>3, <1>4, <1>5, <1>6, ChainOwed, SchedOwed DEF Next

(* Whenever a preemptible task executes while a better one is ready, the   *)
(* switch is pending, or waits for the last kSchUnlock: no path through    *)
(* unlock, tick, priority chain or yield forgets it.                       *)
THEOREM PreemptionNotLost == Spec => []NoLostPreemption
<1>1. IInv /\ OwedInv /\ [Next]_vars => (IInv /\ OwedInv)'
  BY NextInv, OwedStep
<1>2. OwedInv => NoLostPreemption
  BY DEF OwedInv, Owed, Deferred, NoLostPreemption
<1> QED
  BY InitInv, OwedInitial, <1>1, <1>2, PTL DEF Spec

(***************************************************************************)
(* kMutexLock tells the truth, and RK0Mutex implements RK0Lock.            *)
(***************************************************************************)

(* What LockOutcomeTruthful needs inside the critical sections as well, of *)
(* one task: its answer is settled when it leaves its queue.               *)
AnswerInv(t) ==
    /\ status[t] # "SLEEPING"
    /\ lockCall[t] = NoMutex => status[t] # "BLOCKED" /\ ~timeOut[t]
    /\ lockCall[t] # NoMutex /\ status[t] # "BLOCKED" =>
         (timeOut[t] <=> ownerPtr[lockCall[t]] # t)
    /\ \A m \in Mutex : t \in ToSet(waitingQueue[m]) => lockCall[t] = m /\ ~timeOut[t]
    /\ status[t] = "BLOCKED" =>
         Dropped(t) \/ Given(t) \/ t \in ToSet(waitingQueue[lockCall[t]])
    /\ Dropped(t) => ownerPtr[lockCall[t]] # t
    /\ Given(t) => ownerPtr[lockCall[t]] = t /\ ~timeOut[t]

ExpiredInv == section = "expired" => lockCall[runPtr] # NoMutex /\ timeOut[runPtr]

CallInv == ExpiredInv /\ \A t \in Task : AnswerInv(t)

(* The state of RK0Lock, as ImplementsLock reads it off the code's. *)
call == [t \in Task |-> CallOf(t)]
promiseVars == <<ownerPtr, lockCall, call>>

LEMMA CallOfCases ==
    ASSUME IInv, NEW t \in Task
    PROVE  /\ lockCall[t] = NoMutex => CallOf(t) = "idle"
           /\ lockCall[t] # NoMutex =>
                /\ t \in ToSet(waitingQueue[lockCall[t]]) <=> CallOf(t) = "waiting"
                /\ t \notin ToSet(waitingQueue[lockCall[t]]) =>
                     CallOf(t) = IF timeOut[t] \/ Dropped(t) THEN "expired" ELSE "granted"
<1>1. CASE lockCall[t] = NoMutex
  BY <1>1 DEF CallOf
<1>2. CASE lockCall[t] # NoMutex
  <2>1. waitingQueue[lockCall[t]] \in Seq(Task)
    BY <1>2 DEF IInv, TypeOK
  <2>2. t \in ToSet(waitingQueue[lockCall[t]]) <=> Contains(waitingQueue[lockCall[t]], t)
    BY <2>1, InToSet
  <2> QED
    BY <1>2, <2>2 DEF CallOf, Dropped
<1> QED
  BY <1>1, <1>2

LEMMA CallOfCasesNext ==
    ASSUME IInv', NEW t \in Task
    PROVE  /\ lockCall'[t] = NoMutex => CallOf(t)' = "idle"
           /\ lockCall'[t] # NoMutex =>
                /\ t \in ToSet(waitingQueue'[lockCall'[t]]) => CallOf(t)' = "waiting"
                /\ t \notin ToSet(waitingQueue'[lockCall'[t]]) =>
                     CallOf(t)' = IF timeOut'[t] \/ Dropped(t)' THEN "expired" ELSE "granted"
<1>1. CASE lockCall'[t] = NoMutex
  BY <1>1 DEF CallOf
<1>2. CASE lockCall'[t] # NoMutex
  <2>1. waitingQueue'[lockCall'[t]] \in Seq(Task)
    BY <1>2 DEF IInv, TypeOK
  <2>2. t \in ToSet(waitingQueue'[lockCall'[t]]) <=> Contains(waitingQueue'[lockCall'[t]], t)
    BY <2>1, InToSet
  <2> QED
    BY <1>2, <2>2 DEF CallOf, Dropped
<1> QED
  BY <1>1, <1>2

LEMMA CallInitial == Init => CallInv
<1> SUFFICES ASSUME Init
             PROVE  CallInv
  OBVIOUS
<1>1. section = "open"
  BY DEF Init
<1>2. ASSUME NEW t \in Task
      PROVE  /\ lockCall[t] = NoMutex /\ status[t] \in {"READY", "RUNNING"} /\ ~timeOut[t]
             /\ \A m \in Mutex : t \notin ToSet(waitingQueue[m])
  BY ToSetEmpty DEF Init, SchedInit
<1> QED
  BY <1>1, <1>2 DEF CallInv, ExpiredInv, AnswerInv, Dropped, Given

(***************************************************************************)
(* The steps RK0Lock does not see.                                         *)
(***************************************************************************)
CallAside ==
    /\ UNCHANGED <<lockCall, timeOut, ownerPtr>>
    /\ \A t \in Task : /\ (status'[t] = "BLOCKED") <=> (status[t] = "BLOCKED")
                       /\ (status'[t] = "SLEEPING") <=> (status[t] = "SLEEPING")
                       /\ Dropped(t)' <=> Dropped(t)
                       /\ Given(t)' <=> Given(t)
    /\ \A m \in Mutex : ToSet(waitingQueue'[m]) = ToSet(waitingQueue[m])

LEMMA AsideKeeps ==
    ASSUME IInv, CallInv, CallAside, NEW t \in Task
    PROVE  AnswerInv(t)'
<1>1. AnswerInv(t) /\ lockCall[t] \in Mutex \cup {NoMutex}
  BY DEF CallInv, IInv, TypeOK
<1>2. status[t] = "BLOCKED" => lockCall[t] \in Mutex
  BY <1>1 DEF AnswerInv
<1>3. (status'[t] = "BLOCKED") <=> (status[t] = "BLOCKED")
  BY DEF CallAside
<1> QED
  BY <1>1, <1>2, <1>3 DEF AnswerInv, CallAside

(* CallOf depends on nothing else, so the promise sees a stutter. *)
LEMMA SameCallOf ==
    ASSUME IInv, IInv', NEW t \in Task, lockCall'[t] = lockCall[t],
           lockCall[t] # NoMutex =>
             /\ t \in ToSet(waitingQueue'[lockCall[t]]) <=> t \in ToSet(waitingQueue[lockCall[t]])
             /\ (timeOut'[t] \/ Dropped(t)') <=> (timeOut[t] \/ Dropped(t))
    PROVE  CallOf(t)' = CallOf(t)
<1>1. CASE lockCall[t] = NoMutex
  BY <1>1 DEF CallOf
<1>2. CASE lockCall[t] # NoMutex
  <2>1. /\ waitingQueue[lockCall[t]] \in Seq(Task)
        /\ waitingQueue'[lockCall[t]] \in Seq(Task)
    BY <1>2 DEF IInv, TypeOK
  <2>2. /\ t \in ToSet(waitingQueue[lockCall[t]]) <=> Contains(waitingQueue[lockCall[t]], t)
        /\ t \in ToSet(waitingQueue'[lockCall[t]]) <=> Contains(waitingQueue'[lockCall[t]], t)
    BY <2>1, InToSet
  <2> QED
    BY <1>2, <2>2 DEF CallOf, Dropped
<1> QED
  BY <1>1, <1>2

LEMMA AsideUnseen ==
    ASSUME IInv, IInv', CallAside
    PROVE  UNCHANGED promiseVars
<1>1. ASSUME NEW t \in Task PROVE CallOf(t)' = CallOf(t)
  <2>1. lockCall[t] \in Mutex \cup {NoMutex}
    BY DEF IInv, TypeOK
  <2> QED
    BY <2>1, SameCallOf DEF CallAside
<1> QED
  BY <1>1 DEF promiseVars, call, CallAside

LEMMA CallMoves ==
    ASSUME NEW t \in Task, NEW c, CallOf(t)' = c,
           \A u \in Task \ {t} : CallOf(u)' = CallOf(u)
    PROVE  call' = [call EXCEPT ![t] = c]
  BY DEF call

(* A step of the code is one of RK0Lock, or none. *)
PromiseStep == Promise!AbsNext \/ UNCHANGED promiseVars

LEMMA AsideStep ==
    ASSUME IInv, IInv', CallInv, CallAside, ExpiredInv'
    PROVE  CallInv' /\ PromiseStep
  BY AsideKeeps, AsideUnseen DEF CallInv, PromiseStep

LEMMA WaitingIsQueue ==
    ASSUME IInv, CallInv, NEW m \in Mutex
    PROVE  Promise!Waiting(m) = ToSet(waitingQueue[m])
<1>1. ASSUME NEW t \in Task
      PROVE  (CallOf(t) = "waiting" /\ lockCall[t] = m) <=> t \in ToSet(waitingQueue[m])
  BY CallOfCases DEF CallInv, AnswerInv
<1>2. ToSet(waitingQueue[m]) \subseteq Task
  BY InToSet DEF IInv, TypeOK
<1> QED
  BY <1>1, <1>2 DEF Promise!Waiting

(* The caller of a service is in no queue, and its last answer is given.   *)
LEMMA CallerIdle ==
    ASSUME IInv, CallInv, Calling
    PROVE  /\ section = "open" /\ runPtr \in Task /\ lockCall[runPtr] = NoMutex
           /\ status[runPtr] # "BLOCKED" /\ ~timeOut[runPtr]
           /\ \A m \in Mutex : runPtr \notin ToSet(waitingQueue[m])
           /\ CallOf(runPtr) = "idle"
           /\ \A t \in Task : ~Dropped(t) /\ ~Given(t)
<1>1. section = "open" /\ runPtr \in Task /\ lockCall[runPtr] = NoMutex
  BY DEF Calling, Executing, IInv, TypeOK, SchedTypeOK
<1>2. AnswerInv(runPtr)
  BY <1>1 DEF CallInv
<1>3. CallOf(runPtr) = "idle"
  BY <1>1, CallOfCases
<1> QED
  BY <1>1, <1>2, <1>3 DEF AnswerInv, Dropped, Given

(***************************************************************************)
(* kMutexLock.                                                             *)
(***************************************************************************)
LEMMA LockFreeStep ==
    ASSUME IInv, IInv', CallInv, NEW m \in Mutex, LockFree(m)
    PROVE  CallInv' /\ PromiseStep
<1>1. /\ Calling /\ UNCHANGED <<lockCall, waitingQueue>>
      /\ UNCHANGED schedVars /\ UNCHANGED timeoutVars /\ UNCHANGED sectionVars
      /\ ownerPtr' = [ownerPtr EXCEPT ![m] = runPtr] /\ ~lock[m]
  BY DEF LockFree
<1>2. status' = status /\ timeOut' = timeOut /\ section' = section /\ wakePtr' = wakePtr
  BY <1>1 DEF schedVars, timeoutVars, sectionVars
<1>3. section = "open" /\ runPtr \in Task /\ lockCall[runPtr] = NoMutex
  BY <1>1, CallerIdle
<1>4. ownerPtr[m] = NoTask /\ NoTask \notin Task
  BY <1>1 DEF IInv, OwnInv
<1>5. ASSUME NEW t \in Task PROVE AnswerInv(t)'
  <2>1. lockCall[t] # NoMutex => (ownerPtr'[lockCall[t]] # t <=> ownerPtr[lockCall[t]] # t)
    BY <1>1, <1>3, <1>4 DEF IInv, TypeOK
  <2>2. AnswerInv(t)
    BY DEF CallInv
  <2> QED
    BY <1>1, <1>2, <1>3, <2>1, <2>2 DEF AnswerInv, Dropped, Given
<1>6. ExpiredInv'
  BY <1>2, <1>3 DEF ExpiredInv
<1>7. Promise!Take(runPtr, m)
  <2>1. \A t \in Task : CallOf(t)' = CallOf(t)
    BY <1>1, <1>2 DEF CallOf
  <2>2. CallOf(runPtr) = "idle"
    BY <1>1, CallerIdle
  <2> QED
    BY <1>1, <1>3, <1>4, <2>1, <2>2 DEF Promise!Take
<1> QED
  BY <1>3, <1>5, <1>6, <1>7 DEF CallInv, PromiseStep, Promise!AbsNext

LEMMA LockBlockStep ==
    ASSUME IInv, IInv', CallInv, NEW m \in Mutex, NEW timed \in BOOLEAN, LockBlock(m, timed)
    PROVE  CallInv' /\ PromiseStep
<1> DEFINE q == TCBQEnqByPrio(waitingQueue[m], runPtr, priority)
<1>1. /\ Calling /\ UNCHANGED ownerPtr
      /\ section' = "lock"
      /\ ownerPtr[m] \notin {runPtr, NoTask}
      /\ lockCall' = [lockCall EXCEPT ![runPtr] = m]
      /\ status' = [status EXCEPT ![runPtr] = "BLOCKED"]
      /\ timeOut' = [timeOut EXCEPT ![runPtr] = IF timed THEN FALSE ELSE @]
      /\ waitingQueue' = [waitingQueue EXCEPT ![m] = q]
  BY DEF LockBlock, Enter
<1>2. /\ runPtr \in Task /\ ~timeOut[runPtr] /\ CallOf(runPtr) = "idle"
      /\ \A n \in Mutex : runPtr \notin ToSet(waitingQueue[n])
      /\ \A t \in Task : ~Dropped(t) /\ ~Given(t)
  BY <1>1, CallerIdle
<1>3. ToSet(q) = ToSet(waitingQueue[m]) \cup {runPtr}
  <2>1. waitingQueue[m] \in Seq(Task)
    BY DEF IInv, TypeOK
  <2> QED
    BY <1>2, <2>1, TCBQEnqLemma
<1> HIDE DEF q
<1>4. \A n \in Mutex : ToSet(waitingQueue'[n]) = IF n = m THEN ToSet(waitingQueue[n]) \cup {runPtr}
                                                 ELSE ToSet(waitingQueue[n])
  BY <1>1, <1>3 DEF IInv, TypeOK
<1>5. /\ lockCall'[runPtr] = m /\ status'[runPtr] = "BLOCKED" /\ ~timeOut'[runPtr]
      /\ runPtr \in ToSet(waitingQueue'[m])
  <2>1. lockCall'[runPtr] = m /\ status'[runPtr] = "BLOCKED"
    BY <1>1, <1>2 DEF IInv, TypeOK, SchedTypeOK
  <2>2. ~timeOut'[runPtr]
    BY <1>1, <1>2 DEF IInv, TypeOK
  <2> QED
    BY <1>4, <2>1, <2>2
<1>6. \A t \in Task \ {runPtr} :
         lockCall'[t] = lockCall[t] /\ status'[t] = status[t] /\ timeOut'[t] = timeOut[t]
  BY <1>1 DEF IInv, TypeOK, SchedTypeOK
<1>7. \A t \in Task : ~Dropped(t)' /\ ~Given(t)'
  BY <1>1 DEF Dropped, Given
<1>8. ASSUME NEW t \in Task PROVE AnswerInv(t)'
  <2>1. CASE t = runPtr
    BY <1>2, <1>4, <1>5, <1>7, <2>1, MutexAssumption DEF AnswerInv
  <2>2. CASE t # runPtr
    <3>1. AnswerInv(t) /\ lockCall[t] \in Mutex \cup {NoMutex}
      BY DEF CallInv, IInv, TypeOK
    <3>2. /\ lockCall'[t] = lockCall[t] /\ status'[t] = status[t] /\ timeOut'[t] = timeOut[t]
          /\ ~Dropped(t) /\ ~Given(t) /\ ~Dropped(t)' /\ ~Given(t)' /\ ownerPtr' = ownerPtr
      BY <1>1, <1>2, <1>6, <1>7, <2>2
    <3>3. \A n \in Mutex : t \in ToSet(waitingQueue'[n]) <=> t \in ToSet(waitingQueue[n])
      BY <1>4, <2>2
    <3>4. status[t] = "BLOCKED" => lockCall[t] \in Mutex
      BY <3>1 DEF AnswerInv
    <3> QED
      BY <3>1, <3>2, <3>3, <3>4 DEF AnswerInv
  <2> QED
    BY <2>1, <2>2
<1>9. ExpiredInv'
  BY <1>1 DEF ExpiredInv
<1>10. Promise!Wait(runPtr, m)
  <2>0. PICK r \in Task : r = runPtr
    BY <1>2
  <2>1. CallOf(r)' = "waiting"
    BY <1>5, <2>0, CallOfCasesNext
  <2>2. ASSUME NEW u \in Task \ {r} PROVE CallOf(u)' = CallOf(u)
    <3>1. lockCall[u] \in Mutex \cup {NoMutex}
      BY DEF IInv, TypeOK
    <3>2. u \in Task /\ lockCall'[u] = lockCall[u] /\ timeOut'[u] = timeOut[u] /\ u # runPtr
      BY <1>6, <2>0
    <3>3. ~Dropped(u) /\ ~Dropped(u)'
      BY <1>2, <1>7
    <3>4. ASSUME lockCall[u] # NoMutex
          PROVE  u \in ToSet(waitingQueue'[lockCall[u]]) <=> u \in ToSet(waitingQueue[lockCall[u]])
      BY <1>4, <3>1, <3>2, <3>4
    <3> QED
      BY <3>2, <3>3, <3>4, SameCallOf
  <2>3. call' = [call EXCEPT ![r] = "waiting"]
    BY <2>1, <2>2, CallMoves
  <2> QED
    BY <1>1, <1>2, <2>0, <2>3 DEF Promise!Wait, call
<1> QED
  BY <1>2, <1>8, <1>9, <1>10 DEF CallInv, PromiseStep, Promise!AbsNext

(* The blocked caller executes again: it is in no queue any more. *)
LEMMA ResumedFacts ==
    ASSUME IInv, CallInv, lockCall[runPtr] # NoMutex,
           section = "expired" \/ Executing
    PROVE  /\ runPtr \in Task /\ status[runPtr] # "BLOCKED"
           /\ \A m \in Mutex : runPtr \notin ToSet(waitingQueue[m])
           /\ \A t \in Task : ~Dropped(t) /\ ~Given(t)
           /\ CallOf(runPtr) = IF timeOut[runPtr] THEN "expired" ELSE "granted"
<1>1. runPtr \in Task /\ lockCall[runPtr] \in Mutex
  BY DEF IInv, TypeOK, SchedTypeOK
<1>2. status[runPtr] # "BLOCKED"
  BY DEF IInv, RunInv, Executing
<1>3. \A m \in Mutex : runPtr \notin ToSet(waitingQueue[m])
  BY <1>1, <1>2 DEF IInv, WaitInv, LinkInv
<1>4. \A t \in Task : ~Dropped(t) /\ ~Given(t)
  BY DEF Executing, Dropped, Given
<1> QED
  BY <1>1, <1>2, <1>3, <1>4, CallOfCases

(* The answer is given, and the call ends. *)
LEMMA ReturnStep ==
    ASSUME IInv, IInv', CallInv, lockCall[runPtr] # NoMutex,
           section = "expired" \/ Executing, section' = "open",
           UNCHANGED <<status, waitingQueue, ownerPtr>>,
           lockCall' = [lockCall EXCEPT ![runPtr] = NoMutex],
           timeOut' = [timeOut EXCEPT ![runPtr] = FALSE]
    PROVE  CallInv' /\ PromiseStep
<1>1. /\ runPtr \in Task /\ status[runPtr] # "BLOCKED"
      /\ \A m \in Mutex : runPtr \notin ToSet(waitingQueue[m])
      /\ \A t \in Task : ~Dropped(t) /\ ~Given(t)
      /\ CallOf(runPtr) \in {"expired", "granted"}
  BY ResumedFacts
<1>2. \A t \in Task : ~Dropped(t)' /\ ~Given(t)'
  BY DEF Dropped, Given
<1>3. lockCall'[runPtr] = NoMutex /\ ~timeOut'[runPtr]
  BY <1>1 DEF IInv, TypeOK
<1>4. \A t \in Task \ {runPtr} : lockCall'[t] = lockCall[t] /\ timeOut'[t] = timeOut[t]
  BY DEF IInv, TypeOK
<1>5. ASSUME NEW t \in Task PROVE AnswerInv(t)'
  <2>1. CASE t = runPtr
    BY <1>1, <1>2, <1>3, <2>1 DEF CallInv, AnswerInv
  <2>2. CASE t # runPtr
    <3>1. AnswerInv(t)
      BY DEF CallInv
    <3> QED
      BY <1>1, <1>2, <1>4, <2>2, <3>1 DEF AnswerInv
  <2> QED
    BY <2>1, <2>2
<1>6. ExpiredInv'
  BY DEF ExpiredInv
<1>7. Promise!Return(runPtr, CallOf(runPtr))
  <2>0. PICK r \in Task : r = runPtr
    BY <1>1
  <2>1. CallOf(r)' = "idle"
    BY <1>3, <2>0, CallOfCasesNext
  <2>2. ASSUME NEW u \in Task \ {r} PROVE CallOf(u)' = CallOf(u)
    <3>1. u \in Task /\ lockCall'[u] = lockCall[u] /\ timeOut'[u] = timeOut[u]
      BY <1>4, <2>0
    <3>2. ~Dropped(u) /\ ~Dropped(u)'
      BY <1>1, <1>2
    <3> QED
      BY <3>1, <3>2, SameCallOf
  <2>3. call' = [call EXCEPT ![r] = "idle"]
    BY <2>1, <2>2, CallMoves
  <2> QED
    BY <1>1, <2>0, <2>3 DEF Promise!Return, call
<1> QED
  BY <1>1, <1>5, <1>6, <1>7 DEF CallInv, PromiseStep, Promise!AbsNext

LEMMA LockTimeoutStep ==
    ASSUME IInv, IInv', CallInv, LockTimeout
    PROVE  CallInv' /\ PromiseStep
  BY ReturnStep DEF LockTimeout, Leave, schedVars, CallInv, ExpiredInv

LEMMA LockSuccessStep ==
    ASSUME IInv, IInv', CallInv, LockSuccess
    PROVE  CallInv' /\ PromiseStep
<1>1. /\ Executing /\ lockCall[runPtr] # NoMutex /\ ~timeOut[runPtr]
      /\ UNCHANGED timeOut /\ section' = "open"
      /\ UNCHANGED <<status, waitingQueue, ownerPtr>>
      /\ lockCall' = [lockCall EXCEPT ![runPtr] = NoMutex]
  BY DEF LockSuccess, Executing, schedVars, mutexVars, sectionVars
<1>2. timeOut' = [timeOut EXCEPT ![runPtr] = FALSE]
  BY <1>1 DEF IInv, TypeOK, SchedTypeOK
<1> QED
  BY <1>1, <1>2, ReturnStep

(***************************************************************************)
(* kMutexUnlock.                                                           *)
(***************************************************************************)
LEMMA UnlockFreeStep ==
    ASSUME IInv, IInv', CallInv, NEW m \in Mutex, UnlockFree(m)
    PROVE  CallInv' /\ PromiseStep
<1>1. /\ Calling /\ ownerPtr[m] = runPtr /\ waitingQueue[m] = <<>>
      /\ ownerPtr' = [ownerPtr EXCEPT ![m] = NoTask]
      /\ section' = "unlock" /\ wakePtr' = NoTask
      /\ UNCHANGED <<status, timeOut, waitingQueue, lockCall>>
  BY DEF UnlockFree, Enter, schedVars, timeoutVars
<1>2. /\ runPtr \in Task /\ lockCall[runPtr] = NoMutex /\ CallOf(runPtr) = "idle"
      /\ \A t \in Task : ~Dropped(t) /\ ~Given(t)
  BY <1>1, CallerIdle
<1>3. \A t \in Task : ~Dropped(t)' /\ ~Given(t)'
  BY <1>1 DEF Dropped, Given
<1>4. ASSUME NEW t \in Task PROVE AnswerInv(t)'
  <2>1. lockCall[t] # NoMutex => (ownerPtr'[lockCall[t]] # t <=> ownerPtr[lockCall[t]] # t)
    BY <1>1, <1>2 DEF IInv, TypeOK
  <2>2. AnswerInv(t)
    BY DEF CallInv
  <2> QED
    BY <1>1, <1>2, <1>3, <2>1, <2>2 DEF AnswerInv
<1>5. ExpiredInv'
  BY <1>1 DEF ExpiredInv
<1>6. Promise!Release(runPtr, m)
  <2>1. Promise!Waiting(m) = {}
    BY <1>1, WaitingIsQueue, ToSetEmpty
  <2>2. \A t \in Task : CallOf(t)' = CallOf(t)
    BY <1>1, <1>2, <1>3, SameCallOf
  <2> QED
    BY <1>1, <1>2, <2>1, <2>2 DEF Promise!Release
<1> QED
  BY <1>2, <1>4, <1>5, <1>6 DEF CallInv, PromiseStep, Promise!AbsNext

LEMMA UnlockHandOffStep ==
    ASSUME IInv, IInv', CallInv, NEW m \in Mutex, UnlockHandOff(m)
    PROVE  CallInv' /\ PromiseStep
<1>1. waitingQueue[m] \in Seq(Task) /\ IsInjective(waitingQueue[m]) /\ waitingQueue[m] # <<>>
  BY DEF UnlockHandOff, IInv, TypeOK, WaitInv
<1>2. PICK w \in Task : w = Head(waitingQueue[m])
  BY <1>1, TailLemma
<1>3. /\ Calling /\ ownerPtr[m] = runPtr
      /\ ownerPtr' = [ownerPtr EXCEPT ![m] = w]
      /\ section' \in {"unlock", "give"} /\ wakePtr' = w
      /\ waitingQueue' = [waitingQueue EXCEPT ![m] = Tail(@)]
      /\ UNCHANGED <<status, timeOut, lockCall>>
  BY <1>2 DEF UnlockHandOff, GiveMutex, Enter, schedVars
<1>4. /\ runPtr \in Task /\ lockCall[runPtr] = NoMutex /\ CallOf(runPtr) = "idle"
      /\ \A t \in Task : ~Dropped(t) /\ ~Given(t)
      /\ \A n \in Mutex : runPtr \notin ToSet(waitingQueue[n])
  BY <1>3, CallerIdle
<1>5. \A t \in Task : /\ ~Dropped(t)'
                      /\ Given(t)' <=> t = w
  BY <1>3 DEF Dropped, Given
<1>6. /\ w \in ToSet(waitingQueue[m]) /\ ToSet(waitingQueue'[m]) = ToSet(waitingQueue[m]) \ {w}
      /\ \A n \in Mutex \ {m} : waitingQueue'[n] = waitingQueue[n]
  <2>1. waitingQueue'[m] = Tail(waitingQueue[m])
    BY <1>3 DEF IInv, TypeOK
  <2>2. /\ ToSet(waitingQueue[m]) = ToSet(Tail(waitingQueue[m])) \cup {w}
        /\ w \notin ToSet(Tail(waitingQueue[m]))
    BY <1>1, <1>2, TailLemma
  <2> QED
    BY <1>3, <2>1, <2>2 DEF IInv, TypeOK
<1>7. /\ lockCall[w] = m /\ ~timeOut[w] /\ status[w] = "BLOCKED" /\ w # runPtr
      /\ \A n \in Mutex : w \notin ToSet(waitingQueue'[n])
      /\ CallOf(w) = "waiting"
  <2>1. lockCall[w] = m /\ ~timeOut[w] /\ \A n \in Mutex \ {m} : w \notin ToSet(waitingQueue[n])
    BY <1>6 DEF CallInv, AnswerInv
  <2>2. status[w] = "BLOCKED"
    BY <1>6 DEF IInv, WaitInv, LinkInv
  <2>3. CallOf(w) = "waiting"
    BY <1>6, <2>1, CallOfCases
  <2> QED
    BY <1>4, <1>6, <2>1, <2>2, <2>3
<1>8. ownerPtr'[m] = w /\ \A n \in Mutex \ {m} : ownerPtr'[n] = ownerPtr[n]
  BY <1>3 DEF IInv, TypeOK
<1>9. ASSUME NEW t \in Task PROVE AnswerInv(t)'
  <2>1. CASE t = w
    BY <1>3, <1>5, <1>7, <1>8, <2>1 DEF AnswerInv
  <2>2. CASE t # w
    <3>1. AnswerInv(t) /\ lockCall[t] \in Mutex \cup {NoMutex}
      BY DEF CallInv, IInv, TypeOK
    <3>2. \A n \in Mutex : t \in ToSet(waitingQueue'[n]) <=> t \in ToSet(waitingQueue[n])
      BY <1>6, <2>2
    <3>3. lockCall[t] # NoMutex => (ownerPtr'[lockCall[t]] # t <=> ownerPtr[lockCall[t]] # t)
      BY <1>3, <1>4, <1>8, <2>2, <3>1
    <3>4. status[t] = "BLOCKED" => lockCall[t] \in Mutex
      BY <3>1 DEF AnswerInv
    <3> QED
      BY <1>3, <1>4, <1>5, <2>2, <3>1, <3>2, <3>3, <3>4 DEF AnswerInv
  <2> QED
    BY <2>1, <2>2
<1>10. ExpiredInv'
  BY <1>3 DEF ExpiredInv
<1>11. Promise!Give(runPtr, m)
  <2>1. CallOf(w)' = "granted"
    BY <1>3, <1>5, <1>7, CallOfCasesNext
  <2>2. ASSUME NEW u \in Task \ {w} PROVE CallOf(u)' = CallOf(u)
    <3>1. u \in Task /\ lockCall[u] \in Mutex \cup {NoMutex}
      BY DEF IInv, TypeOK
    <3>2. ASSUME lockCall[u] # NoMutex
          PROVE  u \in ToSet(waitingQueue'[lockCall[u]]) <=> u \in ToSet(waitingQueue[lockCall[u]])
      BY <1>6, <3>1, <3>2
    <3> QED
      BY <1>3, <1>4, <1>5, <3>1, <3>2, SameCallOf
  <2>3. call' = [call EXCEPT ![w] = "granted"]
    BY <2>1, <2>2, CallMoves
  <2>4. w \in Promise!Waiting(m)
    BY <1>6, WaitingIsQueue
  <2> QED
    BY <1>3, <1>4, <2>3, <2>4 DEF Promise!Give, call
<1> QED
  BY <1>4, <1>9, <1>10, <1>11 DEF CallInv, PromiseStep, Promise!AbsNext

(* The new owner becomes READY.  RK0Lock saw it become the owner before.   *)
LEMMA UnlockReadyStep ==
    ASSUME IInv, IInv', CallInv, UnlockReady
    PROVE  CallInv' /\ PromiseStep
<1>1. /\ section = "give" /\ section' = "open"
      /\ status' = [status EXCEPT ![wakePtr] = "READY"]
      /\ UNCHANGED <<timeOut, lockCall, ownerPtr, waitingQueue>>
  BY DEF UnlockReady, Leave, ReadySwtch, ReadyNoSwtch, mutexVars, timeoutVars
<1>2. /\ wakePtr \in Task /\ status[wakePtr] = "BLOCKED"
      /\ \A m \in Mutex : wakePtr \notin ToSet(waitingQueue[m])
  BY <1>1 DEF IInv, WakeInv, TypeOK
<1>3. \A t \in Task : /\ ~Dropped(t) /\ ~Dropped(t)' /\ ~Given(t)'
                      /\ Given(t) <=> t = wakePtr
  BY <1>1 DEF Dropped, Given
<1>4. ASSUME NEW t \in Task PROVE AnswerInv(t)'
  <2>1. AnswerInv(t)
    BY DEF CallInv
  <2>2. status'[t] = IF t = wakePtr THEN "READY" ELSE status[t]
    BY <1>1, <1>2 DEF IInv, TypeOK, SchedTypeOK
  <2> QED
    BY <1>1, <1>2, <1>3, <2>1, <2>2 DEF AnswerInv
<1>5. ExpiredInv'
  BY <1>1 DEF ExpiredInv
<1>6. UNCHANGED promiseVars
  <2>1. \A t \in Task : CallOf(t)' = CallOf(t)
    BY <1>1, <1>3, SameCallOf
  <2> QED
    BY <1>1, <2>1 DEF promiseVars, call
<1> QED
  BY <1>4, <1>5, <1>6 DEF CallInv, PromiseStep

(***************************************************************************)
(* Delays and timeouts.                                                    *)
(***************************************************************************)
LEMMA SleepDelayStep ==
    ASSUME IInv, IInv', CallInv, SleepDelay
    PROVE  CallInv' /\ PromiseStep
<1>1. /\ Calling
      /\ status' = [status EXCEPT ![runPtr] = "SLEEPING_DELAY"]
      /\ timeOut' = [timeOut EXCEPT ![runPtr] = FALSE]
      /\ UNCHANGED <<lockCall, ownerPtr, waitingQueue, section, wakePtr>>
  BY DEF SleepDelay, mutexVars, sectionVars
<1>2. /\ runPtr \in Task /\ status[runPtr] # "BLOCKED" /\ ~timeOut[runPtr] /\ section = "open"
      /\ lockCall[runPtr] = NoMutex
  BY <1>1, CallerIdle
<1>3. timeOut' = timeOut
  BY <1>1, <1>2 DEF IInv, TypeOK
<1>4. \A t \in Task : /\ (status'[t] = "BLOCKED") <=> (status[t] = "BLOCKED")
                      /\ (status'[t] = "SLEEPING") <=> (status[t] = "SLEEPING")
  BY <1>1, <1>2 DEF IInv, TypeOK, SchedTypeOK, CallInv, AnswerInv
<1>5. CallAside /\ ExpiredInv'
  BY <1>1, <1>2, <1>3, <1>4 DEF CallAside, ExpiredInv, Dropped, Given
<1> QED
  BY <1>5, AsideStep

LEMMA ExpireDelayStep ==
    ASSUME IInv, IInv', CallInv, NEW t \in Task, ExpireDelay(t)
    PROVE  CallInv' /\ PromiseStep
<1>1. /\ section \in {"tick", "ticked"} /\ section' = "ticked" /\ status[t] = "SLEEPING_DELAY"
      /\ status' = [status EXCEPT ![t] = "READY"]
      /\ UNCHANGED <<timeOut, lockCall, ownerPtr, waitingQueue>>
  BY DEF ExpireDelay, ReadyExpired, Enter, mutexVars, IInv, TimeoutInv
<1>2. \A u \in Task : (status'[u] = "BLOCKED") <=> (status[u] = "BLOCKED")
  BY <1>1 DEF IInv, TypeOK, SchedTypeOK
<1>3. CallAside /\ ExpiredInv'
  BY <1>1, <1>2 DEF CallAside, ExpiredInv, Dropped, Given
<1> QED
  BY <1>3, AsideStep

(* A waiter the tick takes out of its queue does not own the mutex, and    *)
(* cannot be given it any more.                                            *)
LEMMA ExpireWaitStep ==
    ASSUME IInv, IInv', CallInv, NEW t \in Task, ExpireWait(t)
    PROVE  CallInv' /\ PromiseStep
<1>1. /\ section \in {"tick", "ticked"} /\ section' = "expire" /\ wakePtr' = t
      /\ status[t] = "BLOCKED"
      /\ waitingQueue' = [waitingQueue EXCEPT ![waitingQueuePtr[t]] = TCBQRem(@, t)]
      /\ UNCHANGED <<status, timeOut, lockCall, ownerPtr>>
  BY DEF ExpireWait, Enter, schedVars, timeoutVars, IInv, TimeoutInv, Suspended, CallInv,
         AnswerInv
<1>2. \A u \in Task : /\ ~Dropped(u) /\ ~Given(u) /\ ~Given(u)'
                      /\ Dropped(u)' <=> u = t
  BY <1>1 DEF Dropped, Given
<1>3. PICK m \in Mutex : lockCall[t] = m /\ t \in ToSet(waitingQueue[m])
  <2>1. AnswerInv(t) /\ lockCall[t] \in Mutex \cup {NoMutex}
    BY DEF CallInv, IInv, TypeOK
  <2> QED
    BY <1>1, <1>2, <2>1 DEF AnswerInv
<1>4. /\ waitingQueuePtr[t] = m /\ ownerPtr[m] # t
      /\ waitingQueue[m] \in Seq(Task) /\ IsInjective(waitingQueue[m])
  BY <1>3 DEF IInv, WaitInv, LinkInv, OwnInv, TypeOK
<1>5. /\ ToSet(waitingQueue'[m]) = ToSet(waitingQueue[m]) \ {t}
      /\ \A n \in Mutex \ {m} : waitingQueue'[n] = waitingQueue[n]
  <2>1. waitingQueue'[m] = TCBQRem(waitingQueue[m], t)
    BY <1>1, <1>4 DEF IInv, TypeOK
  <2> DEFINE q == waitingQueue[m]
             rest == TCBQRem(q, t)
  <2>2. ToSet(rest) = ToSet(q) \ {t}
    <3>1. ToSet(rest) \subseteq ToSet(q) /\ ToSet(q) \ {t} \subseteq ToSet(rest)
      BY <1>4, TCBQRemLemma
    <3>2. t \notin ToSet(rest)
      BY <1>4, TCBQRemLemma
    <3> HIDE DEF q, rest
    <3> QED
      BY <3>1, <3>2
  <2> QED
    BY <1>1, <1>4, <2>1, <2>2 DEF IInv, TypeOK
<1>6. /\ ~timeOut[t] /\ CallOf(t) = "waiting"
      /\ \A n \in Mutex : t \notin ToSet(waitingQueue'[n])
  <2>1. ~timeOut[t] /\ \A n \in Mutex \ {m} : t \notin ToSet(waitingQueue[n])
    BY <1>3 DEF CallInv, AnswerInv
  <2>2. CallOf(t) = "waiting"
    BY <1>3, CallOfCases
  <2> QED
    BY <1>5, <2>1, <2>2
<1>7. ASSUME NEW u \in Task PROVE AnswerInv(u)'
  <2>1. CASE u = t
    BY <1>1, <1>2, <1>3, <1>4, <1>6, <2>1 DEF AnswerInv
  <2>2. CASE u # t
    <3>1. AnswerInv(u) /\ lockCall[u] \in Mutex \cup {NoMutex}
      BY DEF CallInv, IInv, TypeOK
    <3>2. \A n \in Mutex : u \in ToSet(waitingQueue'[n]) <=> u \in ToSet(waitingQueue[n])
      BY <1>5, <2>2
    <3>3. status[u] = "BLOCKED" => lockCall[u] \in Mutex
      BY <3>1 DEF AnswerInv
    <3> QED
      BY <1>1, <1>2, <2>2, <3>1, <3>2, <3>3 DEF AnswerInv
  <2> QED
    BY <2>1, <2>2
<1>8. ExpiredInv'
  BY <1>1 DEF ExpiredInv
<1>9. Promise!GiveUp(t)
  <2>1. CallOf(t)' = "expired"
    BY <1>1, <1>2, <1>3, <1>6, CallOfCasesNext
  <2>2. ASSUME NEW u \in Task \ {t} PROVE CallOf(u)' = CallOf(u)
    <3>1. u \in Task /\ lockCall[u] \in Mutex \cup {NoMutex}
      BY DEF IInv, TypeOK
    <3>2. ASSUME lockCall[u] # NoMutex
          PROVE  u \in ToSet(waitingQueue'[lockCall[u]]) <=> u \in ToSet(waitingQueue[lockCall[u]])
      BY <1>5, <3>1, <3>2
    <3> QED
      BY <1>1, <1>2, <3>1, <3>2, SameCallOf
  <2>3. call' = [call EXCEPT ![t] = "expired"]
    BY <2>1, <2>2, CallMoves
  <2> QED
    BY <1>1, <1>6, <2>3 DEF Promise!GiveUp, call
<1> QED
  BY <1>7, <1>8, <1>9 DEF CallInv, PromiseStep, Promise!AbsNext

(* It becomes READY, with its answer in timeOut. *)
LEMMA ExpireReadyStep ==
    ASSUME IInv, IInv', CallInv, ExpireReady
    PROVE  CallInv' /\ PromiseStep
<1>1. /\ section = "expire" /\ section' = "ticked"
      /\ status' = [status EXCEPT ![wakePtr] = "READY"]
      /\ timeOut' = [timeOut EXCEPT ![wakePtr] = TRUE]
      /\ UNCHANGED <<lockCall, ownerPtr, waitingQueue>>
  BY DEF ExpireReady, ReadyExpired, Enter, mutexVars
<1>2. /\ wakePtr \in Task /\ status[wakePtr] = "BLOCKED"
      /\ \A m \in Mutex : wakePtr \notin ToSet(waitingQueue[m])
  BY <1>1 DEF IInv, WakeInv, TypeOK, Suspended, CallInv, AnswerInv
<1>3. \A t \in Task : /\ ~Given(t) /\ ~Dropped(t)' /\ ~Given(t)'
                      /\ Dropped(t) <=> t = wakePtr
  BY <1>1 DEF Dropped, Given
<1>4. \A t \in Task : /\ status'[t] = IF t = wakePtr THEN "READY" ELSE status[t]
                      /\ timeOut'[t] = IF t = wakePtr THEN TRUE ELSE timeOut[t]
  BY <1>1, <1>2 DEF IInv, TypeOK, SchedTypeOK
<1>5. ASSUME NEW t \in Task PROVE AnswerInv(t)'
  <2>1. AnswerInv(t)
    BY DEF CallInv
  <2>2. CASE t = wakePtr
    <3>1. status'[t] = "READY" /\ timeOut'[t]
      BY <1>4, <2>2
    <3>2. lockCall[t] # NoMutex /\ ownerPtr[lockCall[t]] # t
      BY <1>2, <1>3, <2>1, <2>2 DEF AnswerInv
    <3> QED
      BY <1>1, <1>2, <1>3, <2>2, <3>1, <3>2 DEF AnswerInv
  <2>3. CASE t # wakePtr
    <3>1. status'[t] = status[t] /\ timeOut'[t] = timeOut[t]
      BY <1>4, <2>3
    <3> QED
      BY <1>1, <1>3, <2>1, <2>3, <3>1 DEF AnswerInv
  <2> QED
    BY <2>2, <2>3
<1>6. ExpiredInv'
  BY <1>1 DEF ExpiredInv
<1>7. UNCHANGED promiseVars
  <2>1. ASSUME NEW t \in Task PROVE CallOf(t)' = CallOf(t)
    <3>1. (timeOut'[t] \/ Dropped(t)') <=> (timeOut[t] \/ Dropped(t))
      <4>1. CASE t = wakePtr
        BY <1>3, <1>4, <4>1
      <4>2. CASE t # wakePtr
        BY <1>3, <1>4, <4>2
      <4> QED
        BY <4>1, <4>2
    <3> QED
      BY <1>1, <3>1, SameCallOf
  <2> QED
    BY <1>1, <2>1 DEF promiseVars, call
<1> QED
  BY <1>5, <1>6, <1>7 DEF CallInv, PromiseStep

(***************************************************************************)
(* The other steps.                                                        *)
(***************************************************************************)
LEMMA LockPendStep ==
    ASSUME IInv, IInv', CallInv, LockPend
    PROVE  CallInv' /\ PromiseStep
<1>1. CallAside /\ ExpiredInv'
  BY DEF LockPend, Leave, mutexVars, timeoutVars, CallAside, ExpiredInv, Dropped, Given
<1> QED
  BY <1>1, AsideStep

LEMMA LockResumeExpiredStep ==
    ASSUME IInv, IInv', CallInv, LockResumeExpired
    PROVE  CallInv' /\ PromiseStep
<1>1. CallAside /\ ExpiredInv'
  BY DEF LockResumeExpired, Executing, Enter, schedVars, mutexVars, timeoutVars, CallAside,
         ExpiredInv, Dropped, Given
<1> QED
  BY <1>1, AsideStep

LEMMA UnlockMoveStep ==
    ASSUME IInv, IInv', CallInv, UnlockUpdateNewOwner \/ UnlockDone
    PROVE  CallInv' /\ PromiseStep
<1>1. CallAside /\ ExpiredInv'
  BY DEF UnlockUpdateNewOwner, UnlockDone, Enter, Leave, schedVars, mutexVars, timeoutVars,
         CallAside, ExpiredInv, Dropped, Given
<1> QED
  BY <1>1, AsideStep

LEMMA TickMoveStep ==
    ASSUME IInv, IInv', CallInv, Tick \/ TickEnd
    PROVE  CallInv' /\ PromiseStep
<1>1. /\ UNCHANGED <<status, timeOut, lockCall, ownerPtr, waitingQueue>>
      /\ section \in {"open", "tick", "ticked"} /\ section' \in {"open", "tick"}
  BY DEF Tick, TickEnd, Enter, Leave, schedVars, mutexVars, timeoutVars
<1>2. CallAside /\ ExpiredInv'
  BY <1>1 DEF CallAside, ExpiredInv, Dropped, Given
<1> QED
  BY <1>2, AsideStep

LEMMA ChainStepStep ==
    ASSUME IInv, IInv', CallInv, ChainStep
    PROVE  CallInv' /\ PromiseStep
<1>1. UNCHANGED <<ownerPtr, timeOut, lockCall, section, wakePtr, status, runPtr>>
  BY DEF ChainStep, timeoutVars, schedVars
<1>2. \A m \in Mutex : ToSet(waitingQueue'[m]) = ToSet(waitingQueue[m])
  <2>1. CASE UNCHANGED waitingQueue
    BY <2>1
  <2>2. ASSUME Requeue(chainPtr, [priority EXCEPT ![chainPtr] = EffectivePrio(chainPtr)]),
               chainPtr \in Task
        PROVE  \A m \in Mutex : ToSet(waitingQueue'[m]) = ToSet(waitingQueue[m])
    <3>1. EffectivePrio(chainPtr) \in Prio
      BY <2>2, EffectivePrioType DEF IInv
    <3>2. [priority EXCEPT ![chainPtr] = EffectivePrio(chainPtr)] \in [Task -> Prio]
      BY <3>1 DEF IInv, TypeOK, SchedTypeOK
    <3> QED
      BY <2>2, <3>2, RequeueLemma DEF IInv, WaitInv
  <2>3. chainPtr \in Task
    BY DEF ChainStep, IInv, TypeOK
  <2> QED
    BY <2>1, <2>2, <2>3 DEF ChainStep
<1>3. CallAside /\ ExpiredInv'
  BY <1>1, <1>2 DEF CallAside, CallInv, ExpiredInv, Dropped, Given
<1> QED
  BY <1>3, AsideStep

LEMMA SchedStepStep ==
    ASSUME IInv, IInv', CallInv, SchedStep
    PROVE  CallInv' /\ PromiseStep
<1>1. /\ UNCHANGED <<timeOut, lockCall, ownerPtr, waitingQueue, section, wakePtr>>
      /\ section = "open"
  BY DEF SchedStep, PendSV, TaskCall, Calling, Executing, mutexVars, timeoutVars, sectionVars
<1>2. \A t \in Task : /\ (status'[t] = "BLOCKED") <=> (status[t] = "BLOCKED")
                      /\ (status'[t] = "SLEEPING") <=> (status[t] = "SLEEPING")
  <2>1. CASE PendSV
    BY <2>1, SwtchInv DEF PendSV, IInv, TypeOK
  <2>2. CASE Yield
    BY <2>2 DEF Yield, IInv, TypeOK, SchedTypeOK
  <2>3. CASE SchLock \/ SchUnlock
    BY <2>3 DEF SchLock, SchUnlock
  <2> QED
    BY <2>1, <2>2, <2>3 DEF SchedStep, TaskCall
<1>3. CallAside /\ ExpiredInv'
  BY <1>1, <1>2 DEF CallAside, ExpiredInv, Dropped, Given
<1> QED
  BY <1>3, AsideStep

LEMMA StutterStep ==
    ASSUME IInv, IInv', CallInv, UNCHANGED vars
    PROVE  CallInv' /\ PromiseStep
<1>1. CallAside /\ ExpiredInv'
  BY DEF vars, schedVars, mutexVars, timeoutVars, sectionVars, CallAside, CallInv, ExpiredInv,
         Dropped, Given
<1> QED
  BY <1>1, AsideStep

LEMMA CallStep ==
    ASSUME IInv, CallInv, [Next]_vars
    PROVE  CallInv' /\ PromiseStep
<1>1. IInv'
  BY NextInv
<1>2. CASE Lock
  BY <1>1, <1>2, LockFreeStep, LockBlockStep, LockPendStep, LockResumeExpiredStep,
     LockTimeoutStep, LockSuccessStep DEF Lock
<1>3. CASE Unlock
  BY <1>1, <1>3, UnlockFreeStep, UnlockHandOffStep, UnlockMoveStep, UnlockReadyStep DEF Unlock
<1>4. CASE SysTick
  BY <1>1, <1>4, TickMoveStep, ExpireDelayStep, ExpireWaitStep, ExpireReadyStep DEF SysTick
<1> QED
  BY <1>1, <1>2, <1>3, <1>4, SleepDelayStep, ChainStepStep, SchedStepStep, StutterStep DEF Next

(* What a lock call is about to answer is settled at every step of lock,   *)
(* unlock, tick and priority chain.                                        *)
THEOREM CallInvariance == Spec => [](IInv /\ CallInv)
<1>1. IInv /\ CallInv /\ [Next]_vars => (IInv /\ CallInv)'
  BY NextInv, CallStep
<1> QED
  BY InitInv, CallInitial, <1>1, PTL DEF Spec

(* The answer of kMutexLock is true: success exactly to the owner, and no  *)
(* timeout flag of one call reaches the next.                              *)
THEOREM LockTruthful == Spec => []LockOutcomeTruthful
<1>1. IInv /\ CallInv => LockOutcomeTruthful
  BY DEF CallInv, AnswerInv, LockOutcomeTruthful
<1> QED
  BY CallInvariance, <1>1, PTL

(* The mutexes of kmutex.c, with the scheduler, the tick and inheritance,  *)
(* keep the promises of RK0Lock.                                           *)
THEOREM LockImplements == Spec => ImplementsLock
<1>1. Init => Promise!AbsInit
  <2> SUFFICES ASSUME Init PROVE Promise!AbsInit
    OBVIOUS
  <2>1. \A t \in Task : CallOf(t) = "idle"
    BY DEF Init, CallOf
  <2> QED
    BY <2>1 DEF Init, Promise!AbsInit
<1>2. IInv /\ CallInv /\ [Next]_vars => [Promise!AbsNext]_(Promise!absVars)
  BY CallStep DEF PromiseStep, promiseVars, call, Promise!absVars
<1> QED
  BY <1>1, <1>2, CallInvariance, PTL DEF Spec, ImplementsLock, Promise!AbsSpec

(***************************************************************************)
(* RK0Wait: semaphores, sleep queues and condition variables.              *)
(***************************************************************************)
USE WaitAssumption

(* What a call of several critical sections notes, by the kind of call.    *)
DoneFlow == [at : {"none", "panic"}]
WakeFlow == [at : {"wakelock", "wake", "wakeunlock"}, q : SleepQ, chosen : Task \cup {NoTask},
             left : Nat, due : SUBSET Task]
CondFlow == [at : {"release", "sleep", "relock", "leave"}, q : SleepQ, m : Mutex,
             timed : BOOLEAN, expired : BOOLEAN]
Flow == DoneFlow \cup WakeFlow \cup CondFlow

WaitVarsOK ==
    /\ value \in [Sema -> Nat]
    /\ \A s \in Sema : value[s] <= MaxValue[s]
    /\ waitCall \in [Task -> Queue \cup {NoQueue}]
    /\ flow \in [Task -> Flow]

(* The step a note is at tells its kind. *)
LEMMA FlowKind ==
    ASSUME NEW f \in Flow
    PROVE  /\ f.at \in {"none", "panic"} => f \in DoneFlow
           /\ f.at \in {"wakelock", "wake", "wakeunlock"} =>
                /\ f \in WakeFlow /\ f.q \in SleepQ /\ f.q \in Queue
                /\ f.left \in Nat /\ f.chosen \in Task \cup {NoTask}
           /\ f.at \in {"release", "sleep", "relock", "leave"} =>
                /\ f \in CondFlow /\ f.q \in SleepQ /\ f.q \in Queue /\ f.m \in Mutex
                /\ f.timed \in BOOLEAN /\ f.expired \in BOOLEAN
  BY DEF Flow, DoneFlow, WakeFlow, CondFlow

LEMMA FlowGoes ==
    ASSUME NEW f \in Flow
    PROVE  /\ f \in WakeFlow => \A s \in {"wakelock", "wake", "wakeunlock"} :
                [f EXCEPT !.at = s] \in WakeFlow /\ [f EXCEPT !.at = s].at = s
           /\ f \in CondFlow => \A s \in {"release", "sleep", "relock", "leave"} :
                [f EXCEPT !.at = s] \in CondFlow /\ [f EXCEPT !.at = s].at = s
  BY DEF WakeFlow, CondFlow

(* A task taken from those a flush has still to wake changes nothing else. *)
LEMMA NotDueFlow ==
    ASSUME flow \in [Task -> Flow], NEW t \in Task
    PROVE  /\ NotDue(flow, t) \in [Task -> Flow]
           /\ \A u \in Task : /\ NotDue(flow, t)[u].at = flow[u].at
                              /\ NotDue(flow, t)[u].q = flow[u].q
                              /\ flow[u] \notin WakeFlow => NotDue(flow, t)[u] = flow[u]
<1>1. ASSUME NEW u \in Task
      PROVE  /\ NotDue(flow, t)[u] \in Flow
             /\ NotDue(flow, t)[u].at = flow[u].at
             /\ NotDue(flow, t)[u].q = flow[u].q
             /\ flow[u] \notin WakeFlow => NotDue(flow, t)[u] = flow[u]
  <2>1. CASE flow[u] \in WakeFlow
    <3>1. [flow[u] EXCEPT !.due = @ \ {t}] \in WakeFlow
      BY <2>1 DEF WakeFlow
    <3>2. NotDue(flow, t)[u] = [flow[u] EXCEPT !.due = @ \ {t}]
      BY <2>1 DEF NotDue, WakeFlow
    <3> QED
      BY <2>1, <3>1, <3>2 DEF Flow, WakeFlow
  <2>2. CASE flow[u] \in DoneFlow \cup CondFlow
    <3>1. "due" \notin DOMAIN flow[u]
      BY <2>2 DEF DoneFlow, CondFlow
    <3>2. NotDue(flow, t)[u] = flow[u]
      BY <3>1 DEF NotDue
    <3>3. flow[u] \notin WakeFlow
      BY <3>1 DEF WakeFlow
    <3> QED
      BY <2>2, <3>2 DEF Flow
  <2> QED
    BY <2>1, <2>2 DEF Flow
<1> QED
  BY <1>1 DEF NotDue

(***************************************************************************)
(* Waits for a semaphore or in a sleep queue.                              *)
(***************************************************************************)

(* A task is in one call at most; in one, it is suspended until the answer *)
(* is settled, in the queue of the call, and only the tick sets timeOut.   *)
(* A task kSleepQueueUnready put to sleep is in a sleep queue.             *)
PendInv(t) ==
    /\ lockCall[t] = NoMutex \/ waitCall[t] = NoQueue
    /\ lockCall[t] = NoMutex /\ waitCall[t] = NoQueue => ~timeOut[t]
    /\ status[t] \in Suspended /\ lockCall[t] = NoMutex =>
         /\ waitCall[t] # NoQueue
         /\ ~timeOut[t]
         /\ Dropped(t) \/ t \in ToSet(waitingQueue[waitCall[t]])
    /\ status[t] = "SLEEPQ_BLOCKED" => \E q \in SleepQ : t \in ToSet(waitingQueue[q])

SuspendedInv == ExpiredInv /\ \A t \in Task : PendInv(t)

(* The state of RK0Semaphore, as ImplementsSemaphore reads it off.         *)
waitState == [t \in Task |-> WaitCallOf(t)]
semaVars  == <<Tokens(value), waitCall, waitState>>
SemaphoreStep == SemaphorePromise!AbsNext \/ UNCHANGED semaVars

(* What most steps leave of a task. *)
Kept(t) ==
    /\ \/ status'[t] = status[t]
       \/ {status[t], status'[t]} \subseteq {"READY", "RUNNING"}
    /\ lockCall'[t] = lockCall[t] /\ waitCall'[t] = waitCall[t] /\ timeOut'[t] = timeOut[t]
    /\ Dropped(t)' <=> Dropped(t)
    /\ \A q \in Queue : t \in ToSet(waitingQueue'[q]) <=> t \in ToSet(waitingQueue[q])

LEMMA KeptPend ==
    ASSUME WaitVarsOK, NEW t \in Task, PendInv(t), Kept(t)
    PROVE  PendInv(t)'
<1>1. waitCall[t] \in Queue \cup {NoQueue} /\ SleepQ \subseteq Queue
  BY DEF WaitVarsOK
<1>2. /\ status'[t] \in Suspended <=> status[t] \in Suspended
      /\ status'[t] = "SLEEPQ_BLOCKED" <=> status[t] = "SLEEPQ_BLOCKED"
  BY DEF Kept, Suspended
<1>3. (Dropped(t)' <=> Dropped(t))
      /\ \A q \in Queue : t \in ToSet(waitingQueue'[q]) <=> t \in ToSet(waitingQueue[q])
  BY DEF Kept
<1>4. lockCall'[t] = lockCall[t] /\ waitCall'[t] = waitCall[t] /\ timeOut'[t] = timeOut[t]
  BY DEF Kept
<1> QED
  BY <1>1, <1>2, <1>3, <1>4 DEF PendInv

LEMMA WaitCallOfCases ==
    ASSUME TypeOK, WaitVarsOK, NEW t \in Task
    PROVE  /\ waitCall[t] = NoQueue => WaitCallOf(t) = "idle"
           /\ waitCall[t] # NoQueue =>
                /\ status[t] \in Suspended /\ t \in ToSet(waitingQueue[waitCall[t]])
                     <=> WaitCallOf(t) = "waiting"
                /\ ~(status[t] \in Suspended /\ t \in ToSet(waitingQueue[waitCall[t]])) =>
                     WaitCallOf(t) = IF timeOut[t] \/ Dropped(t) THEN "expired" ELSE "granted"
<1>1. CASE waitCall[t] = NoQueue
  BY <1>1 DEF WaitCallOf
<1>2. CASE waitCall[t] # NoQueue
  <2>1. waitingQueue[waitCall[t]] \in Seq(Task)
    BY <1>2 DEF TypeOK, WaitVarsOK
  <2>2. t \in ToSet(waitingQueue[waitCall[t]]) <=> Contains(waitingQueue[waitCall[t]], t)
    BY <2>1, InToSet
  <2> QED
    BY <1>2, <2>2 DEF WaitCallOf, Dropped
<1> QED
  BY <1>1, <1>2

LEMMA WaitCallOfNext ==
    ASSUME TypeOK', WaitVarsOK', NEW t \in Task
    PROVE  /\ waitCall'[t] = NoQueue => WaitCallOf(t)' = "idle"
           /\ waitCall'[t] # NoQueue =>
                /\ status'[t] \in Suspended /\ t \in ToSet(waitingQueue'[waitCall'[t]])
                     => WaitCallOf(t)' = "waiting"
                /\ ~(status'[t] \in Suspended /\ t \in ToSet(waitingQueue'[waitCall'[t]])) =>
                     WaitCallOf(t)' = IF timeOut'[t] \/ Dropped(t)' THEN "expired" ELSE "granted"
<1>1. CASE waitCall'[t] = NoQueue
  BY <1>1 DEF WaitCallOf
<1>2. CASE waitCall'[t] # NoQueue
  <2>1. waitingQueue'[waitCall'[t]] \in Seq(Task)
    BY <1>2 DEF TypeOK, WaitVarsOK
  <2>2. t \in ToSet(waitingQueue'[waitCall'[t]]) <=> Contains(waitingQueue'[waitCall'[t]], t)
    BY <2>1, InToSet
  <2> QED
    BY <1>2, <2>2 DEF WaitCallOf, Dropped
<1> QED
  BY <1>1, <1>2

(* WaitCallOf depends on nothing else, so the promise sees a stutter. *)
LEMMA SameWaitCall ==
    ASSUME TypeOK, TypeOK', WaitVarsOK, WaitVarsOK', NEW t \in Task, waitCall'[t] = waitCall[t],
           waitCall[t] # NoQueue =>
             /\ (status'[t] \in Suspended /\ t \in ToSet(waitingQueue'[waitCall[t]]))
                  <=> (status[t] \in Suspended /\ t \in ToSet(waitingQueue[waitCall[t]]))
             /\ (timeOut'[t] \/ Dropped(t)') <=> (timeOut[t] \/ Dropped(t))
    PROVE  WaitCallOf(t)' = WaitCallOf(t)
<1>1. CASE waitCall[t] = NoQueue
  BY <1>1, WaitCallOfCases, WaitCallOfNext
<1>2. CASE waitCall[t] # NoQueue
  <2>1. CASE status[t] \in Suspended /\ t \in ToSet(waitingQueue[waitCall[t]])
    BY <1>2, <2>1, WaitCallOfCases, WaitCallOfNext
  <2>2. CASE ~(status[t] \in Suspended /\ t \in ToSet(waitingQueue[waitCall[t]]))
    BY <1>2, <2>2, WaitCallOfCases, WaitCallOfNext
  <2> QED
    BY <2>1, <2>2
<1> QED
  BY <1>1, <1>2

LEMMA KeptWaitCall ==
    ASSUME TypeOK, TypeOK', WaitVarsOK, WaitVarsOK', NEW t \in Task, Kept(t)
    PROVE  WaitCallOf(t)' = WaitCallOf(t)
<1>1. waitCall[t] \in Queue \cup {NoQueue} /\ waitCall'[t] = waitCall[t]
  BY DEF WaitVarsOK, Kept
<1>2. status'[t] \in Suspended <=> status[t] \in Suspended
  BY DEF Kept, Suspended
<1>3. (timeOut'[t] \/ Dropped(t)') <=> (timeOut[t] \/ Dropped(t))
  BY DEF Kept
<1>4. \A q \in Queue : t \in ToSet(waitingQueue'[q]) <=> t \in ToSet(waitingQueue[q])
  BY DEF Kept
<1> QED
  BY <1>1, <1>2, <1>3, <1>4, SameWaitCall

LEMMA WaitCallMoves ==
    ASSUME NEW t \in Task, NEW c, WaitCallOf(t)' = c,
           \A u \in Task \ {t} : WaitCallOf(u)' = WaitCallOf(u)
    PROVE  waitState' = [waitState EXCEPT ![t] = c]
  BY DEF waitState

(* What one step has to say of the task it disturbs, if any. *)
LEMMA OneWaiter ==
    ASSUME TypeOK, TypeOK', WaitVarsOK, WaitVarsOK', SuspendedInv, ExpiredInv',
           UNCHANGED <<value, waitCall>>, NEW w, \A t \in Task \ {w} : Kept(t),
           w \in Task => PendInv(w)' /\ WaitCallOf(w)' = WaitCallOf(w)
    PROVE  SuspendedInv' /\ SemaphoreStep
<1>1. \A t \in Task : PendInv(t)'
  BY KeptPend DEF SuspendedInv
<1>2. \A t \in Task : WaitCallOf(t)' = WaitCallOf(t)
  BY KeptWaitCall
<1>3. UNCHANGED semaVars
  BY <1>2 DEF semaVars, waitState, Tokens
<1> QED
  BY <1>1, <1>3 DEF SuspendedInv, SemaphoreStep

(* Steps that disturb nobody. *)
LEMMA NobodyDisturbed ==
    ASSUME TypeOK, TypeOK', WaitVarsOK, WaitVarsOK', SuspendedInv, ExpiredInv',
           UNCHANGED <<value, waitCall>>, \A t \in Task : Kept(t)
    PROVE  SuspendedInv' /\ SemaphoreStep
<1>1. NoTask \notin Task
  BY DEF SchedAssumption
<1> QED
  BY <1>1, OneWaiter

(* The steps of RK0Mutex whose caller is in no wait, or that serve tasks   *)
(* in kMutexLock only.                                                     *)
LEMMA MutexKept ==
    ASSUME IInv, UNCHANGED waitCall,
           \/ \E m \in Mutex : LockFree(m) \/ UnlockFree(m) \/ UnlockHandOff(m)
           \/ LockPend \/ LockResumeExpired \/ UnlockUpdateNewOwner \/ UnlockDone
           \/ Tick \/ TickEnd
    PROVE  \A t \in Task : Kept(t)
<1>1. /\ UNCHANGED <<status, lockCall, timeOut>>
      /\ section # "expire" /\ section' # "expire"
  BY DEF LockFree, UnlockFree, UnlockHandOff, LockPend, LockResumeExpired, UnlockUpdateNewOwner,
         UnlockDone, Tick, TickEnd, Calling, Executing, Enter, Leave, schedVars, timeoutVars,
         sectionVars
<1>2. \A q \in Queue : waitingQueue'[q] = waitingQueue[q]
  <2>1. CASE \E m \in Mutex : UnlockHandOff(m)
    BY <2>1 DEF UnlockHandOff, IInv, TypeOK
  <2>2. CASE \/ \E m \in Mutex : LockFree(m) \/ UnlockFree(m)
             \/ LockPend \/ LockResumeExpired \/ UnlockUpdateNewOwner \/ UnlockDone
             \/ Tick \/ TickEnd
    BY <2>2 DEF LockFree, UnlockFree, LockPend, LockResumeExpired, UnlockUpdateNewOwner,
                UnlockDone, Tick, TickEnd, mutexVars
  <2> QED
    BY <2>1, <2>2
<1> QED
  BY <1>1, <1>2 DEF Kept, Dropped

(* A task whose priority changes is moved within its queue. *)
LEMMA ChainWaiters ==
    ASSUME IInv, ChainStep
    PROVE  \A q \in Mutex \cup Queue : ToSet(waitingQueue'[q]) = ToSet(waitingQueue[q])
<1>1. CASE UNCHANGED waitingQueue
  BY <1>1
<1>2. ASSUME Requeue(chainPtr, [priority EXCEPT ![chainPtr] = EffectivePrio(chainPtr)]),
             chainPtr \in Task
      PROVE  \A q \in Mutex \cup Queue : ToSet(waitingQueue'[q]) = ToSet(waitingQueue[q])
  <2>1. EffectivePrio(chainPtr) \in Prio
    BY <1>2, EffectivePrioType DEF IInv
  <2>2. [priority EXCEPT ![chainPtr] = EffectivePrio(chainPtr)] \in [Task -> Prio]
    BY <2>1 DEF IInv, TypeOK, SchedTypeOK
  <2> QED
    BY <1>2, <2>2, RequeueLemma DEF IInv, WaitInv
<1>3. chainPtr \in Task
  BY DEF ChainStep, IInv, TypeOK
<1> QED
  BY <1>1, <1>2, <1>3 DEF ChainStep

LEMMA ChainKept ==
    ASSUME IInv, UNCHANGED waitCall, ChainStep
    PROVE  \A t \in Task : Kept(t)
<1>1. UNCHANGED <<timeOut, lockCall, section, wakePtr, status>>
  BY DEF ChainStep, timeoutVars, schedVars
<1> QED
  BY <1>1, ChainWaiters DEF Kept, Dropped

LEMMA SchedKept ==
    ASSUME IInv, UNCHANGED waitCall, PendSV \/ TaskCall,
           UNCHANGED <<mutexVars, timeoutVars, lockCall, sectionVars>>
    PROVE  \A t \in Task : Kept(t)
<1>1. UNCHANGED <<timeOut, lockCall, waitingQueue, section, wakePtr>>
  BY DEF mutexVars, timeoutVars, sectionVars
<1>2. \A t \in Task : \/ status'[t] = status[t]
                      \/ {status[t], status'[t]} \subseteq {"READY", "RUNNING"}
  <2>1. CASE PendSV
    BY <2>1, SwtchInv DEF PendSV, IInv, TypeOK
  <2>2. CASE Yield
    BY <2>2 DEF Yield, IInv, TypeOK, SchedTypeOK
  <2>3. CASE SchLock \/ SchUnlock
    BY <2>3 DEF SchLock, SchUnlock
  <2> QED
    BY <2>1, <2>2, <2>3 DEF TaskCall
<1> QED
  BY <1>1, <1>2 DEF Kept, Dropped

LEMMA MutexKeptStep ==
    ASSUME IInv, IInv', WaitVarsOK, WaitVarsOK', SuspendedInv, UNCHANGED <<value, waitCall>>,
           \/ \E m \in Mutex : LockFree(m) \/ UnlockFree(m) \/ UnlockHandOff(m)
           \/ LockPend \/ LockResumeExpired \/ UnlockUpdateNewOwner \/ UnlockDone
           \/ Tick \/ TickEnd \/ ChainStep
           \/ /\ PendSV \/ TaskCall
              /\ UNCHANGED <<mutexVars, timeoutVars, lockCall, sectionVars>>
    PROVE  SuspendedInv' /\ SemaphoreStep
<1>1. \A t \in Task : Kept(t)
  BY MutexKept, ChainKept, SchedKept
<1>2. ExpiredInv'
  <2>1. CASE ChainStep
    BY <2>1 DEF ChainStep, timeoutVars, schedVars, SuspendedInv, ExpiredInv
  <2>2. CASE LockResumeExpired
    BY <2>2 DEF LockResumeExpired, schedVars, timeoutVars, ExpiredInv
  <2>3. CASE (PendSV \/ TaskCall) /\ UNCHANGED sectionVars
    BY <2>3 DEF PendSV, TaskCall, Calling, Executing, sectionVars, ExpiredInv
  <2>4. CASE \/ \E m \in Mutex : LockFree(m) \/ UnlockFree(m) \/ UnlockHandOff(m)
             \/ LockPend \/ UnlockUpdateNewOwner \/ UnlockDone \/ Tick \/ TickEnd
    BY <2>4 DEF LockFree, UnlockFree, UnlockHandOff, LockPend, UnlockUpdateNewOwner, UnlockDone,
                Tick, TickEnd, Calling, Executing, Enter, Leave, sectionVars, ExpiredInv
  <2> QED
    BY <2>1, <2>2, <2>3, <2>4
<1> QED
  BY <1>1, <1>2, NobodyDisturbed DEF IInv

(* A task that is not suspended, before or after, is told of nothing.      *)
LEMMA AwakeWaiter ==
    ASSUME TypeOK, TypeOK', WaitVarsOK, WaitVarsOK', NEW t \in Task,
           waitCall'[t] = waitCall[t], status'[t] \notin Asleep,
           status[t] \in Suspended => \A q \in Queue : t \notin ToSet(waitingQueue[q]),
           (timeOut'[t] \/ Dropped(t)') <=> (timeOut[t] \/ Dropped(t)),
           ~Dropped(t)', lockCall'[t] = lockCall[t], PendInv(t),
           timeOut'[t] => lockCall[t] # NoMutex \/ waitCall[t] # NoQueue
    PROVE  PendInv(t)' /\ WaitCallOf(t)' = WaitCallOf(t)
<1>1. PendInv(t)'
  BY DEF PendInv, Asleep, Suspended
<1>2. status'[t] \notin Suspended /\ waitCall[t] \in Queue \cup {NoQueue}
  BY DEF Asleep, WaitVarsOK
<1>3. WaitCallOf(t)' = WaitCallOf(t)
  BY <1>2, SameWaitCall
<1> QED
  BY <1>1, <1>3

LEMMA UnlockReadyWait ==
    ASSUME IInv, IInv', WaitVarsOK, WaitVarsOK', SuspendedInv, UNCHANGED <<value, waitCall>>,
           UnlockReady
    PROVE  SuspendedInv' /\ SemaphoreStep
<1>1. /\ section = "give" /\ section' = "open"
      /\ status' = [status EXCEPT ![wakePtr] = "READY"]
      /\ UNCHANGED <<timeOut, lockCall, waitingQueue>>
  BY DEF UnlockReady, Leave, ReadySwtch, ReadyNoSwtch, mutexVars, timeoutVars
<1>2. /\ wakePtr \in Task
      /\ \A q \in Mutex \cup Queue : wakePtr \notin ToSet(waitingQueue[q])
  BY <1>1 DEF IInv, WakeInv, TypeOK
<1>3. \A t \in Task : ~Dropped(t) /\ ~Dropped(t)'
  BY <1>1 DEF Dropped
<1>4. \A t \in Task : status'[t] = IF t = wakePtr THEN "READY" ELSE status[t]
  BY <1>1, <1>2 DEF IInv, TypeOK, SchedTypeOK
<1>5. \A t \in Task \ {wakePtr} : Kept(t)
  BY <1>1, <1>3, <1>4 DEF Kept
<1>6. PICK x \in Task : x = wakePtr
  BY <1>2
<1>7. PendInv(x)' /\ WaitCallOf(x)' = WaitCallOf(x)
  <2>1. PendInv(x)
    BY DEF SuspendedInv
  <2>2. status'[x] \notin Asleep /\ timeOut'[x] = timeOut[x]
    BY <1>1, <1>4, <1>6 DEF Asleep, Suspended
  <2>3. \A q \in Queue : x \notin ToSet(waitingQueue[q])
    BY <1>2, <1>6
  <2>4. timeOut'[x] => lockCall[x] # NoMutex \/ waitCall[x] # NoQueue
    BY <2>1, <2>2 DEF PendInv
  <2> QED
    BY <1>1, <1>3, <2>1, <2>2, <2>3, <2>4, AwakeWaiter DEF IInv
<1>8. ExpiredInv'
  BY <1>1 DEF ExpiredInv
<1>9. \A t \in Task \ {x} : Kept(t)
  BY <1>5, <1>6
<1> QED
  BY <1>7, <1>8, <1>9, OneWaiter DEF IInv

LEMMA LockBlockWait ==
    ASSUME IInv, IInv', WaitVarsOK, WaitVarsOK', SuspendedInv, UNCHANGED <<value, waitCall>>,
           NEW m \in Mutex, NEW timed \in BOOLEAN, LockBlock(m, timed),
           waitCall[runPtr] = NoQueue
    PROVE  SuspendedInv' /\ SemaphoreStep
<1>1. PICK x \in Task : x = runPtr
  BY DEF IInv, TypeOK, SchedTypeOK
<1>2. /\ section = "open" /\ section' = "lock"
      /\ status' = [status EXCEPT ![x] = "BLOCKED"]
      /\ timeOut' = [timeOut EXCEPT ![x] = IF timed THEN FALSE ELSE @]
      /\ lockCall' = [lockCall EXCEPT ![x] = m]
      /\ \A q \in Queue : waitingQueue'[q] = waitingQueue[q]
  BY <1>1 DEF LockBlock, Calling, Executing, Enter, IInv, TypeOK
<1>3. /\ \A t \in Task \ {x} : /\ status'[t] = status[t] /\ timeOut'[t] = timeOut[t]
                               /\ lockCall'[t] = lockCall[t]
      /\ status'[x] = "BLOCKED" /\ lockCall'[x] = m
  BY <1>2 DEF IInv, TypeOK, SchedTypeOK
<1>4. \A t \in Task : ~Dropped(t) /\ ~Dropped(t)'
  BY <1>2 DEF Dropped
<1>5. \A t \in Task \ {x} : Kept(t)
  BY <1>2, <1>3, <1>4 DEF Kept
<1>6. PendInv(x)'
  BY <1>1, <1>3 DEF PendInv, Suspended
<1>7. WaitCallOf(x)' = WaitCallOf(x)
  BY <1>1, SameWaitCall DEF IInv
<1>8. ExpiredInv'
  BY <1>2 DEF ExpiredInv
<1> QED
  BY <1>5, <1>6, <1>7, <1>8, OneWaiter DEF IInv

(* The end of a kMutexLock that had to wait. *)
LEMMA LockReturnWait ==
    ASSUME IInv, IInv', WaitVarsOK, WaitVarsOK', SuspendedInv, UNCHANGED <<value, waitCall>>,
           LockTimeout \/ LockSuccess
    PROVE  SuspendedInv' /\ SemaphoreStep
<1>1. PICK x \in Task : x = runPtr
  BY DEF IInv, TypeOK, SchedTypeOK
<1>2. /\ section \in {"open", "expired"} /\ section' = "open" /\ lockCall[x] # NoMutex
      /\ UNCHANGED <<status, waitingQueue>>
      /\ lockCall' = [lockCall EXCEPT ![x] = NoMutex]
      /\ timeOut' = [timeOut EXCEPT ![x] = FALSE]
  <2>1. CASE LockTimeout
    BY <1>1, <2>1 DEF LockTimeout, Leave, schedVars, SuspendedInv, ExpiredInv
  <2>2. CASE LockSuccess
    <3>1. ~timeOut[x] /\ UNCHANGED timeOut
      BY <1>1, <2>2 DEF LockSuccess
    <3>2. timeOut' = [timeOut EXCEPT ![x] = FALSE]
      BY <3>1 DEF IInv, TypeOK
    <3> QED
      BY <1>1, <2>2, <3>2 DEF LockSuccess, Executing, schedVars, mutexVars, sectionVars
  <2> QED
    BY <2>1, <2>2
<1>3. /\ \A t \in Task \ {x} : timeOut'[t] = timeOut[t] /\ lockCall'[t] = lockCall[t]
      /\ ~timeOut'[x] /\ lockCall'[x] = NoMutex
  BY <1>2 DEF IInv, TypeOK
<1>4. \A t \in Task : ~Dropped(t) /\ ~Dropped(t)'
  BY <1>2 DEF Dropped
<1>5. \A t \in Task \ {x} : Kept(t)
  BY <1>2, <1>3, <1>4 DEF Kept
<1>6. waitCall[x] = NoQueue /\ status[x] \in {"READY", "RUNNING"}
  <2>1. waitCall[x] = NoQueue
    BY <1>2 DEF SuspendedInv, PendInv
  <2>2. status[x] \in {"READY", "RUNNING"}
    BY <1>1, <1>2 DEF LockTimeout, LockSuccess, Executing, IInv, RunInv
  <2> QED
    BY <2>1, <2>2
<1>7. PendInv(x)'
  BY <1>2, <1>3, <1>6 DEF PendInv, Suspended
<1>8. WaitCallOf(x)' = WaitCallOf(x)
  BY <1>6, SameWaitCall DEF IInv
<1>9. ExpiredInv'
  BY <1>2 DEF ExpiredInv
<1> QED
  BY <1>5, <1>7, <1>8, <1>9, OneWaiter DEF IInv

LEMMA SleepDelayWait ==
    ASSUME IInv, IInv', WaitVarsOK, WaitVarsOK', SuspendedInv, UNCHANGED <<value, waitCall>>,
           SleepDelay, waitCall[runPtr] = NoQueue
    PROVE  SuspendedInv' /\ SemaphoreStep
<1>1. PICK x \in Task : x = runPtr
  BY DEF IInv, TypeOK, SchedTypeOK
<1>2. /\ section = "open" /\ section' = "open" /\ lockCall[x] = NoMutex
      /\ status' = [status EXCEPT ![x] = "SLEEPING_DELAY"]
      /\ timeOut' = [timeOut EXCEPT ![x] = FALSE]
      /\ UNCHANGED <<lockCall, waitingQueue>>
  BY <1>1 DEF SleepDelay, Calling, Executing, sectionVars, mutexVars
<1>3. /\ \A t \in Task \ {x} : status'[t] = status[t] /\ timeOut'[t] = timeOut[t]
      /\ status'[x] = "SLEEPING_DELAY" /\ ~timeOut'[x]
  BY <1>2 DEF IInv, TypeOK, SchedTypeOK
<1>4. \A t \in Task : ~Dropped(t) /\ ~Dropped(t)'
  BY <1>2 DEF Dropped
<1>5. \A t \in Task \ {x} : Kept(t)
  BY <1>2, <1>3, <1>4 DEF Kept
<1>6. PendInv(x)'
  BY <1>2, <1>3 DEF PendInv, Suspended
<1>7. WaitCallOf(x)' = WaitCallOf(x)
  BY <1>1, SameWaitCall DEF IInv
<1>8. ExpiredInv'
  BY <1>2 DEF ExpiredInv
<1> QED
  BY <1>5, <1>6, <1>7, <1>8, OneWaiter DEF IInv

LEMMA ExpireDelayWait ==
    ASSUME IInv, IInv', WaitVarsOK, WaitVarsOK', SuspendedInv, UNCHANGED <<value, waitCall>>,
           NEW x \in Task, ExpireDelay(x)
    PROVE  SuspendedInv' /\ SemaphoreStep
<1>1. /\ section \in {"tick", "ticked"} /\ section' = "ticked"
      /\ status[x] = "SLEEPING_DELAY"
      /\ status' = [status EXCEPT ![x] = "READY"]
      /\ UNCHANGED <<timeOut, lockCall, waitingQueue>>
  BY DEF ExpireDelay, ReadyExpired, Enter, mutexVars, IInv, TimeoutInv
<1>2. \A t \in Task : status'[t] = IF t = x THEN "READY" ELSE status[t]
  BY <1>1 DEF IInv, TypeOK, SchedTypeOK
<1>3. \A t \in Task : ~Dropped(t) /\ ~Dropped(t)'
  BY <1>1 DEF Dropped
<1>4. \A t \in Task \ {x} : Kept(t)
  BY <1>1, <1>2, <1>3 DEF Kept
<1>5. PendInv(x)' /\ WaitCallOf(x)' = WaitCallOf(x)
  <2>1. PendInv(x)
    BY DEF SuspendedInv
  <2>2. status'[x] \notin Asleep /\ status[x] \notin Suspended
    BY <1>1, <1>2 DEF Asleep, Suspended
  <2>3. timeOut'[x] => lockCall[x] # NoMutex \/ waitCall[x] # NoQueue
    BY <1>1, <2>1 DEF PendInv
  <2> QED
    BY <1>1, <1>3, <2>1, <2>2, <2>3, AwakeWaiter DEF IInv
<1>6. ExpiredInv'
  BY <1>1 DEF ExpiredInv
<1> QED
  BY <1>4, <1>5, <1>6, OneWaiter DEF IInv

LEMMA ExpireReadyWait ==
    ASSUME IInv, IInv', WaitVarsOK, WaitVarsOK', SuspendedInv, UNCHANGED <<value, waitCall>>,
           ExpireReady
    PROVE  SuspendedInv' /\ SemaphoreStep
<1>1. /\ section = "expire" /\ section' = "ticked"
      /\ status' = [status EXCEPT ![wakePtr] = "READY"]
      /\ timeOut' = [timeOut EXCEPT ![wakePtr] = TRUE]
      /\ UNCHANGED <<lockCall, waitingQueue>>
  BY DEF ExpireReady, ReadyExpired, Enter, mutexVars
<1>2. PICK x \in Task : x = wakePtr
  BY <1>1 DEF IInv, WakeInv, TypeOK
<1>3. /\ status[x] \in Suspended
      /\ \A q \in Mutex \cup Queue : x \notin ToSet(waitingQueue[q])
  BY <1>1, <1>2 DEF IInv, WakeInv
<1>4. \A t \in Task : /\ ~Dropped(t)'
                      /\ Dropped(t) <=> t = x
  BY <1>1, <1>2 DEF Dropped
<1>5. /\ \A t \in Task \ {x} : status'[t] = status[t] /\ timeOut'[t] = timeOut[t]
      /\ status'[x] = "READY" /\ timeOut'[x]
  BY <1>1, <1>2 DEF IInv, TypeOK, SchedTypeOK
<1>6. \A t \in Task \ {x} : Kept(t)
  BY <1>1, <1>4, <1>5 DEF Kept
<1>7. PendInv(x)' /\ WaitCallOf(x)' = WaitCallOf(x)
  <2>1. PendInv(x)
    BY DEF SuspendedInv
  <2>2. status'[x] \notin Asleep
    BY <1>5 DEF Asleep, Suspended
  <2>3. lockCall[x] # NoMutex \/ waitCall[x] # NoQueue
    BY <1>3, <2>1 DEF PendInv
  <2>4. (timeOut'[x] \/ Dropped(x)') <=> (timeOut[x] \/ Dropped(x))
    BY <1>4, <1>5
  <2>5. \A q \in Queue : x \notin ToSet(waitingQueue[q])
    BY <1>3
  <2> QED
    BY <1>1, <1>4, <2>1, <2>2, <2>3, <2>4, <2>5, AwakeWaiter DEF IInv
<1>8. ExpiredInv'
  BY <1>1 DEF ExpiredInv
<1> QED
  BY <1>6, <1>7, <1>8, OneWaiter DEF IInv

(* The tick takes a waiter out of its queue: it gave up. *)
LEMMA ExpireWaitWait ==
    ASSUME IInv, IInv', WaitVarsOK, WaitVarsOK', SuspendedInv, UNCHANGED <<value, waitCall>>,
           NEW x \in Task, ExpireWait(x)
    PROVE  SuspendedInv' /\ SemaphoreStep
<1>1. /\ section \in {"tick", "ticked"} /\ section' = "expire" /\ wakePtr' = x
      /\ timeoutType[x] = "BLOCKING" /\ status[x] \in Suspended
      /\ waitingQueue' = [waitingQueue EXCEPT ![waitingQueuePtr[x]] = TCBQRem(@, x)]
      /\ UNCHANGED <<status, timeOut, lockCall>>
  BY DEF ExpireWait, Enter, schedVars, timeoutVars, IInv, TimeoutInv
<1>2. \A t \in Task : /\ ~Dropped(t)
                      /\ Dropped(t)' <=> t = x
  BY <1>1 DEF Dropped
<1>3. \A t \in Task \ {x} : \A q \in Queue :
         t \in ToSet(waitingQueue'[q]) <=> t \in ToSet(waitingQueue[q])
  <2> TAKE t \in Task \ {x}
  <2> TAKE q \in Queue
  <2>1. waitingQueue[q] \in Seq(Task)
    BY DEF IInv, TypeOK
  <2>2. t \in ToSet(TCBQRem(waitingQueue[q], x)) <=> t \in ToSet(waitingQueue[q])
    BY <2>1, TCBQRemLemma
  <2>3. waitingQueue'[q] \in {waitingQueue[q], TCBQRem(waitingQueue[q], x)}
    BY <1>1 DEF IInv, TypeOK
  <2> QED
    BY <2>2, <2>3
<1>4. \A t \in Task \ {x} : Kept(t)
  BY <1>1, <1>2, <1>3 DEF Kept
<1>5. PendInv(x)'
  <2>1. PendInv(x) /\ status'[x] = status[x] /\ timeOut'[x] = timeOut[x]
        /\ lockCall'[x] = lockCall[x] /\ waitCall'[x] = waitCall[x]
    BY <1>1 DEF SuspendedInv
  <2>2. Dropped(x)' /\ status[x] # "SLEEPQ_BLOCKED"
    BY <1>1, <1>2 DEF Suspended
  <2> QED
    BY <2>1, <2>2 DEF PendInv
<1>6. ExpiredInv'
  BY <1>1 DEF ExpiredInv
<1>7. CASE waitCall[x] = NoQueue
  <2>1. WaitCallOf(x)' = WaitCallOf(x)
    BY <1>7, SameWaitCall DEF IInv
  <2> QED
    BY <1>4, <1>5, <1>6, <2>1, OneWaiter DEF IInv
<1>8. CASE waitCall[x] # NoQueue
  <2>1. PICK q \in Queue : q = waitCall[x]
    BY <1>8 DEF WaitVarsOK
  <2>2. /\ lockCall[x] = NoMutex /\ ~timeOut[x] /\ x \in ToSet(waitingQueue[q])
    BY <1>1, <1>2, <1>8, <2>1 DEF SuspendedInv, PendInv
  <2>3. waitingQueuePtr[x] = q /\ waitingQueue[q] \in Seq(Task) /\ IsInjective(waitingQueue[q])
    BY <1>1, <2>2 DEF IInv, TypeOK, WaitInv, LinkInv
  <2>4. x \notin ToSet(waitingQueue'[q])
    <3>1. waitingQueue'[q] = TCBQRem(waitingQueue[q], x)
      BY <1>1, <2>3 DEF IInv, TypeOK
    <3> QED
      BY <2>3, <3>1, TCBQRemLemma
  <2>5. WaitCallOf(x) = "waiting"
    BY <1>1, <1>8, <2>1, <2>2, WaitCallOfCases DEF IInv
  <2>6. WaitCallOf(x)' = "expired"
    BY <1>2, <1>8, <2>1, <2>4, WaitCallOfNext DEF IInv
  <2>7. \A t \in Task \ {x} : WaitCallOf(t)' = WaitCallOf(t)
    BY <1>4, KeptWaitCall DEF IInv
  <2>8. waitState' = [waitState EXCEPT ![x] = "expired"]
    BY <2>6, <2>7, WaitCallMoves
  <2>9. SemaphorePromise!GiveUp(x)
    BY <2>5, <2>8 DEF SemaphorePromise!GiveUp, waitState, Tokens
  <2>10. \A t \in Task : PendInv(t)'
    BY <1>4, <1>5, KeptPend DEF SuspendedInv
  <2> QED
    BY <1>6, <2>9, <2>10 DEF SuspendedInv, SemaphoreStep, SemaphorePromise!AbsNext
<1> QED
  BY <1>7, <1>8

(* The steps of RK0Mutex in this composition. *)
LEMMA MutexStepWait ==
    ASSUME IInv, IInv', WaitVarsOK, WaitVarsOK', SuspendedInv, MutexStep
    PROVE  SuspendedInv' /\ SemaphoreStep
<1>1. UNCHANGED <<value, waitCall>>
  BY DEF MutexStep, waitVars
<1>2. CASE \/ LockPend \/ LockResumeExpired \/ UnlockUpdateNewOwner \/ UnlockDone
           \/ Tick \/ TickEnd \/ ChainStep
           \/ PendSV /\ UNCHANGED <<mutexVars, timeoutVars, lockCall, sectionVars>>
  BY <1>1, <1>2, MutexKeptStep
<1>3. CASE LockTimeout \/ LockSuccess \/ UnlockReady \/ ExpireReady
  BY <1>1, <1>3, LockReturnWait, UnlockReadyWait, ExpireReadyWait
<1>4. ASSUME NEW t \in Task, ExpireDelay(t) \/ ExpireWait(t)
      PROVE  SuspendedInv' /\ SemaphoreStep
  BY <1>1, <1>4, ExpireDelayWait, ExpireWaitWait
<1> QED
  BY <1>2, <1>3, <1>4 DEF MutexStep, SysTick

(* Its calls, by a task that is in no wait. *)
MutexCalled ==
    /\ waitCall[runPtr] = NoQueue
    /\ \/ \E m \in Mutex : \/ LockFree(m) \/ UnlockFree(m) \/ UnlockHandOff(m)
                           \/ \E timed \in BOOLEAN : LockBlock(m, timed)
       \/ SleepDelay
       \/ TaskCall /\ UNCHANGED <<mutexVars, timeoutVars, lockCall, sectionVars>>
    /\ UNCHANGED <<value, waitCall>>

LEMMA MutexCalledWait ==
    ASSUME IInv, IInv', WaitVarsOK, WaitVarsOK', SuspendedInv, MutexCalled
    PROVE  SuspendedInv' /\ SemaphoreStep
<1>1. UNCHANGED <<value, waitCall>> /\ waitCall[runPtr] = NoQueue
  BY DEF MutexCalled
<1>2. CASE \/ \E m \in Mutex : LockFree(m) \/ UnlockFree(m) \/ UnlockHandOff(m)
           \/ TaskCall /\ UNCHANGED <<mutexVars, timeoutVars, lockCall, sectionVars>>
  BY <1>1, <1>2, MutexKeptStep
<1>3. ASSUME NEW m \in Mutex, NEW timed \in BOOLEAN, LockBlock(m, timed)
      PROVE  SuspendedInv' /\ SemaphoreStep
  BY <1>1, <1>3, LockBlockWait
<1>4. CASE SleepDelay
  BY <1>1, <1>4, SleepDelayWait
<1> QED
  BY <1>2, <1>3, <1>4 DEF MutexCalled

(***************************************************************************)
(* The new steps keep the inductive invariant.                             *)
(***************************************************************************)
LEMMA SuspendStepInv ==
    ASSUME IInv, Calling, NEW q \in Queue, NEW timed \in BOOLEAN, NEW st \in Suspended,
           Suspend(q, timed, st)
    PROVE  IInv'
<1> USE DEF IInv
<1>1. /\ UNCHANGED <<priority, tcbSchLock, readyQueue, readyBitmask, runPtr, schLock, lock,
                     ownerPtr, ownedMutexList, waitingForMutexPtr, lockCall>>
      /\ UNCHANGED sectionVars
      /\ section = "open" /\ pendSV' = TRUE /\ pendingCtxtSwtch' = FALSE
  BY DEF Suspend, RestBut, Calling, Executing, PendCtxSwtch, PendCtxSwtchNow, Suspended
<1>2. /\ runPtr \in Task /\ runPtr # Idle /\ status[runPtr] = "RUNNING"
      /\ lockCall[runPtr] = NoMutex
  BY DEF Suspend, Calling, Executing, TypeOK, SchedTypeOK
<1>3. /\ status' = [status EXCEPT ![runPtr] = st]
      /\ waitingQueuePtr' = [waitingQueuePtr EXCEPT ![runPtr] = IF timed THEN q ELSE @]
      /\ timeoutType' = [timeoutType EXCEPT ![runPtr] = IF timed THEN "BLOCKING" ELSE @]
      /\ timeOut' = [timeOut EXCEPT ![runPtr] = IF timed THEN FALSE ELSE @]
  BY DEF Suspend
<1> DEFINE s == TCBQEnqByPrio(waitingQueue[q], runPtr, priority)
<1>4. waitingQueue' = [waitingQueue EXCEPT ![q] = s]
  BY DEF Suspend
<1>5. /\ waitingQueue[q] \in Seq(Task) /\ IsInjective(waitingQueue[q])
      /\ runPtr \notin ToSet(waitingQueue[q])
  BY <1>2, NotLinked DEF TypeOK, WaitInv, Asleep, Suspended
<1>6. s \in Seq(Task) /\ IsInjective(s) /\ ToSet(s) = ToSet(waitingQueue[q]) \cup {runPtr}
  BY <1>2, <1>5, TCBQEnqLemma
<1> HIDE DEF s
<1>7. TypeOK'
  <2>1. waitingQueue' \in [Mutex \cup Queue -> Seq(Task)]
    BY <1>4, <1>6 DEF TypeOK
  <2>2. SchedTypeOK'
    BY <1>1, <1>3 DEF TypeOK, SchedTypeOK, Status, Suspended
  <2>3. /\ timeoutType' \in [Task -> {"none", "BLOCKING", "TIME_EVENT"}]
        /\ timeOut' \in [Task -> BOOLEAN]
        /\ waitingQueuePtr' \in [Task -> Mutex \cup Queue \cup {NoMutex}]
    BY <1>3 DEF TypeOK
  <2> QED
    BY <1>1, <2>1, <2>2, <2>3 DEF TypeOK, sectionVars
<1>8. ReadyInv'
  BY <1>1, <1>2, <1>3, SuspendInv DEF TypeOK, Status, Suspended
<1>9. \A t \in Task \ {runPtr} :
         /\ status'[t] = status[t] /\ waitingQueuePtr'[t] = waitingQueuePtr[t]
         /\ timeoutType'[t] = timeoutType[t] /\ timeOut'[t] = timeOut[t]
  BY <1>3 DEF TypeOK, SchedTypeOK
<1>10. /\ status'[runPtr] \in Suspended
       /\ timeoutType'[runPtr] = IF timed THEN "BLOCKING" ELSE "none"
       /\ waitingQueuePtr'[runPtr] = IF timed THEN q ELSE NoMutex
       /\ waitingForMutexPtr[runPtr] = NoMutex
  BY <1>2, <1>3 DEF TypeOK, SchedTypeOK, TimeoutInv, LockerInv, Suspended
<1>11. /\ \A n \in Mutex \cup Queue : /\ IsInjective(waitingQueue'[n])
                                      /\ runPtr \in ToSet(waitingQueue'[n]) <=> n = q
       /\ \A t \in Task \ {runPtr} : \A n \in Mutex \cup Queue :
             t \in ToSet(waitingQueue'[n]) <=> t \in ToSet(waitingQueue[n])
  <2>1. \A n \in Mutex \cup Queue : waitingQueue'[n] = IF n = q THEN s ELSE waitingQueue[n]
    BY <1>4 DEF TypeOK
  <2>2. \A n \in Mutex \cup Queue : runPtr \notin ToSet(waitingQueue[n])
    BY <1>2, NotLinked DEF Asleep, Suspended
  <2> QED
    BY <1>6, <2>1, <2>2 DEF WaitInv
<1>12. \A t \in Task : ~Dropped(t) /\ ~Given(t) /\ ~Dropped(t)' /\ ~Given(t)'
  BY <1>1 DEF Dropped, Given, sectionVars
<1>13. WaitInv'
  <2>1. ASSUME NEW t \in Task, NEW n \in Mutex \cup Queue, t \in ToSet(waitingQueue'[n])
        PROVE  LinkInv(t, n)'
    <3>1. CASE t = runPtr
      <4>1. n = q /\ n \notin Mutex
        BY <1>11, <2>1, <3>1
      <4>2. \A r \in Mutex \cup Queue : r # n => t \notin ToSet(waitingQueue'[r])
        BY <1>11, <3>1, <4>1
      <4>3. status'[t] \in Asleep
            /\ waitingQueuePtr'[t] = IF timeoutType'[t] = "BLOCKING" THEN n ELSE NoMutex
        BY <1>10, <3>1, <4>1 DEF Asleep
      <4> QED
        BY <4>1, <4>2, <4>3 DEF LinkInv
    <3>2. CASE t # runPtr
      BY <1>1, <1>9, <1>11, <2>1, <3>2 DEF WaitInv, LinkInv
    <3> QED
      BY <3>1, <3>2
  <2>2. ASSUME NEW t \in Task, NEW m \in Mutex, status'[t] = "BLOCKED", waitingForMutexPtr'[t] = m
        PROVE  t \in ToSet(waitingQueue'[m])
    BY <1>1, <1>9, <1>10, <1>11, <1>12, <2>2 DEF WaitInv
  <2> QED
    BY <1>11, <2>1, <2>2 DEF WaitInv
<1>14. LockerInv'
  <2> SUFFICES ASSUME NEW t \in Task
               PROVE  /\ waitingForMutexPtr'[t] # NoMutex =>
                           /\ lockCall'[t] = waitingForMutexPtr'[t]
                           /\ status'[t] = "BLOCKED" \/ timeOut'[t]
                      /\ lockCall'[t] # NoMutex /\ status'[t] \in Suspended =>
                           t \in ToSet(waitingQueue'[lockCall'[t]])
    BY DEF LockerInv
  <2>1. CASE t = runPtr
    BY <1>1, <1>2, <1>10, <2>1
  <2>2. CASE t # runPtr
    <3>1. lockCall[t] # NoMutex => lockCall[t] \in Mutex
      BY DEF TypeOK
    <3> QED
      BY <1>1, <1>9, <1>11, <1>12, <2>2, <3>1 DEF LockerInv
  <2> QED
    BY <2>1, <2>2
<1>15. TimeoutInv'
  BY <1>9, <1>10 DEF TimeoutInv
<1>16. WakeInv' /\ RunInv'
  BY <1>1 DEF WakeInv, RunInv, sectionVars
<1>17. IdleInv'
  BY <1>1, <1>2, <1>3 DEF IdleInv, TypeOK, SchedTypeOK
<1>18. OwnInv'
  BY <1>1, <1>4, <1>11 DEF OwnInv, TypeOK
<1> QED
  BY <1>7, <1>8, <1>13, <1>14, <1>15, <1>16, <1>17, <1>18

LEMMA ResumeInv ==
    ASSUME IInv, Resume, lockCall[runPtr] = NoMutex
    PROVE  IInv'
<1> USE DEF IInv
<1>1. /\ section = "open" /\ runPtr \in Task /\ status[runPtr] \in {"READY", "RUNNING"}
      /\ UNCHANGED schedVars /\ UNCHANGED mutexVars /\ UNCHANGED lockCall
      /\ UNCHANGED sectionVars
      /\ timeOut' = [timeOut EXCEPT ![runPtr] = FALSE]
  BY DEF Resume, Executing, RunInv, TypeOK, SchedTypeOK
<1>2. waitingForMutexPtr[runPtr] = NoMutex
  BY <1>1 DEF LockerInv
<1>3. timeoutType' = timeoutType /\ waitingQueuePtr' = waitingQueuePtr
  <2>1. timeoutType[runPtr] # "BLOCKING"
    BY <1>1 DEF TimeoutInv, Suspended
  <2> QED
    BY <2>1 DEF Resume
<1>4. TypeOK'
  BY <1>1, <1>3 DEF TypeOK, SchedTypeOK, schedVars, mutexVars, sectionVars
<1>5. ReadyInv' /\ IdleInv' /\ OwnInv' /\ RunInv' /\ WakeInv' /\ TimeoutInv'
  BY <1>1, <1>3 DEF ReadyInv, IdleInv, OwnInv, RunInv, WakeInv, TimeoutInv, schedVars,
                    mutexVars, sectionVars
<1>6. WaitInv'
  BY <1>1, <1>3 DEF WaitInv, LinkInv, Dropped, schedVars, mutexVars, sectionVars
<1>7. LockerInv'
  <2>1. \A t \in Task \ {runPtr} : timeOut'[t] = timeOut[t]
    BY <1>1 DEF TypeOK
  <2>2. /\ waitingForMutexPtr' = waitingForMutexPtr /\ lockCall' = lockCall
        /\ status' = status /\ waitingQueue' = waitingQueue
    BY <1>1 DEF schedVars, mutexVars
  <2>3. \A t \in Task : ~Dropped(t) /\ ~Given(t)
    BY <1>1 DEF Dropped, Given
  <2> QED
    BY <1>2, <2>1, <2>2, <2>3 DEF LockerInv
<1> QED
  BY <1>4, <1>5, <1>6, <1>7

(* A task leaves the queue it sleeps in and becomes READY. *)
Woken(w, q) ==
    /\ section = "open"
    /\ w \in ToSet(waitingQueue[q])
    /\ Unlink(w, q)
    /\ ReadyNoSwtch(w)
    /\ UNCHANGED swtchVars \/ ReschedTask(priority[w])
    /\ UNCHANGED <<RestBut, timeOut>>

LEMMA WokenFacts ==
    ASSUME IInv, NEW q \in Queue, NEW w \in Task, Woken(w, q)
    PROVE  /\ MadeReady(w) /\ status[w] \in Asleep
           /\ waitingQueue' \in [Mutex \cup Queue -> Seq(Task)]
           /\ \A n \in Mutex : waitingQueue'[n] = waitingQueue[n]
<1> USE DEF IInv
<1> DEFINE s == waitingQueue[q]
           r == TCBQRem(s, w)
<1>1. /\ section = "open" /\ w \in ToSet(s)
      /\ waitingQueue' = [waitingQueue EXCEPT ![q] = r]
      /\ status' = [status EXCEPT ![w] = "READY"]
      /\ UNCHANGED <<waitingForMutexPtr, lockCall, timeOut>>
  BY DEF Woken, Unlink, ReadyNoSwtch, RestBut
<1>2. s \in Seq(Task) /\ IsInjective(s) /\ LinkInv(w, q)
  BY <1>1 DEF TypeOK, WaitInv
<1>3. /\ r \in Seq(Task) /\ IsInjective(r) /\ w \notin ToSet(r)
      /\ ToSet(r) \subseteq ToSet(s) /\ ToSet(s) \ {w} \subseteq ToSet(r)
  BY <1>2, TCBQRemLemma
<1> HIDE DEF s, r
<1>4. \A n \in Mutex \cup Queue : waitingQueue'[n] = IF n = q THEN r ELSE waitingQueue[n]
  BY <1>1 DEF TypeOK
<1>5. \A n \in Mutex \cup Queue :
         /\ IsInjective(waitingQueue'[n])
         /\ w \notin ToSet(waitingQueue'[n])
         /\ \A t \in Task \ {w} : t \in ToSet(waitingQueue'[n]) <=> t \in ToSet(waitingQueue[n])
  <2>1. \A n \in Mutex \cup Queue : n # q => w \notin ToSet(waitingQueue[n])
    BY <1>2 DEF LinkInv
  <2> QED
    BY <1>3, <1>4, <2>1 DEF WaitInv, s
<1>6. waitingForMutexPtr[w] # NoMutex => timeOut'[w]
  <2> SUFFICES ASSUME waitingForMutexPtr[w] # NoMutex PROVE timeOut[w]
    BY <1>1
  <2>1. PICK m \in Mutex : waitingForMutexPtr[w] = m
    BY DEF TypeOK
  <2>2. w \notin ToSet(waitingQueue[m]) /\ ~Dropped(w)
    BY <1>1, <1>2 DEF LinkInv, Dropped
  <2>3. status[w] # "BLOCKED"
    BY <2>1, <2>2 DEF WaitInv
  <2> QED
    BY <2>3 DEF LockerInv
<1>7. /\ timeoutType' = [timeoutType EXCEPT ![w] = "none"]
      /\ waitingQueuePtr' = [waitingQueuePtr EXCEPT ![w] = NoMutex]
  <2>1. CASE timeoutType[w] = "BLOCKING"
    BY <2>1 DEF Woken, Unlink, NodeReset
  <2>2. CASE timeoutType[w] # "BLOCKING"
    <3>1. status[w] \in Asleep /\ timeoutType[w] = "none" /\ waitingQueuePtr[w] = NoMutex
      BY <1>2, <2>2 DEF LinkInv, TimeoutInv, Asleep, Suspended, TypeOK
    <3>2. UNCHANGED <<timeoutType, waitingQueuePtr>>
      BY <2>2 DEF Woken, Unlink
    <3> QED
      BY <3>1, <3>2 DEF TypeOK
  <2> QED
    BY <2>1, <2>2
<1>8. waitingQueue' \in [Mutex \cup Queue -> Seq(Task)]
  BY <1>1, <1>3 DEF TypeOK
<1>9. \A n \in Mutex : waitingQueue'[n] = waitingQueue[n]
  BY <1>4
<1> QED
  BY <1>1, <1>2, <1>5, <1>6, <1>7, <1>8, <1>9 DEF MadeReady, LinkInv

LEMMA WokenInv ==
    ASSUME IInv, NEW q \in Queue, NEW w \in Task, Woken(w, q)
    PROVE  IInv'
<1> USE DEF IInv
<1>1. /\ UNCHANGED <<priority, tcbSchLock, runPtr, schLock, lock, ownerPtr, ownedMutexList,
                     waitingForMutexPtr, lockCall, timeOut>>
      /\ UNCHANGED sectionVars /\ section = "open"
      /\ ReadyNoSwtch(w)
      /\ status' = [status EXCEPT ![w] = "READY"]
  BY DEF Woken, RestBut, ReadyNoSwtch
<1>2. /\ MadeReady(w) /\ status[w] \in Asleep
      /\ waitingQueue' \in [Mutex \cup Queue -> Seq(Task)]
      /\ \A n \in Mutex : waitingQueue'[n] = waitingQueue[n]
  BY WokenFacts
<1>3. /\ timeoutType' = [timeoutType EXCEPT ![w] = "none"]
      /\ waitingQueuePtr' = [waitingQueuePtr EXCEPT ![w] = NoMutex]
  BY <1>2 DEF MadeReady
<1>4. SchedTypeOK'
  <2>1. priority[w] \in Prio
    BY DEF TypeOK, SchedTypeOK
  <2>2. readyQueue' \in [Prio -> Seq(Task)] /\ readyBitmask' \in SUBSET Prio
    BY <1>1, <2>1, ReadyEnqType DEF ReadyNoSwtch, TypeOK
  <2>3. pendSV' \in BOOLEAN /\ pendingCtxtSwtch' \in BOOLEAN
    BY ReschedType DEF Woken, TypeOK
  <2>4. status' \in [Task -> Status]
    BY <1>1 DEF TypeOK, SchedTypeOK, Status
  <2> QED
    BY <1>1, <2>2, <2>3, <2>4 DEF TypeOK, SchedTypeOK
<1>5. TypeOK'
  BY <1>1, <1>2, <1>3, <1>4 DEF TypeOK, sectionVars
<1>6. ReadyInv'
  <2>1. status[w] # "READY"
    BY <1>2 DEF Asleep, Suspended
  <2> QED
    BY <1>1, <2>1, ReadyEnqInv DEF ReadyNoSwtch, TypeOK
<1>7. WaitInv' /\ LockerInv' /\ TimeoutInv'
  <2>1. \A t \in Task \ {w} : ~Dropped(t) /\ ~Given(t)
    BY <1>1 DEF Dropped, Given
  <2> QED
    BY <1>2, <2>1, MadeReadyInv
<1>8. WakeInv' /\ IdleInv' /\ OwnInv'
  BY <1>1, <1>2 DEF WakeInv, IdleInv, OwnInv, TypeOK, SchedTypeOK, sectionVars
<1>9. RunInv'
  <2>1. ~pendSV' => ~pendSV /\ (pendingCtxtSwtch => pendingCtxtSwtch')
    BY ReschedKeeps DEF Woken, TypeOK
  <2>2. pendSV => pendSV'
    BY <2>1 DEF TypeOK, SchedTypeOK
  <2>3. status[w] \notin {"READY", "RUNNING"}
    BY <1>2 DEF Asleep, Suspended
  <2> QED
    BY <1>1, <2>1, <2>3 DEF RunInv, TypeOK, SchedTypeOK, sectionVars
<1> QED
  BY <1>5, <1>6, <1>7, <1>8, <1>9

(* A READY task that does not execute leaves its level. *)
LEMMA ReadyRemInv ==
    ASSUME SchedTypeOK, ReadyInv, NEW t \in Task, status[t] = "READY",
           NEW rest, rest = TCBQRem(readyQueue[priority[t]], t),
           readyQueue' = [readyQueue EXCEPT ![priority[t]] = rest],
           readyBitmask' = IF rest = <<>> THEN readyBitmask \ {priority[t]} ELSE readyBitmask,
           NEW st \in Status \ {"READY", "RUNNING"}, status' = [status EXCEPT ![t] = st],
           UNCHANGED <<priority, runPtr>>
    PROVE  ReadyInv' /\ readyQueue' \in [Prio -> Seq(Task)] /\ readyBitmask' \in SUBSET Prio
<1> DEFINE old == priority[t]
<1>1. /\ old \in Prio /\ readyQueue \in [Prio -> Seq(Task)] /\ status \in [Task -> Status]
      /\ readyBitmask = {r \in Prio : r < BitmaskLimit /\ readyQueue[r] # <<>>}
  BY DEF SchedTypeOK, ReadyInv
<1>2. readyQueue[old] \in Seq(Task) /\ IsInjective(readyQueue[old])
  BY <1>1 DEF ReadyInv
<1>3. /\ rest \in Seq(Task) /\ IsInjective(rest)
      /\ \A u \in Task : u \in ToSet(rest) <=> u \in ToSet(readyQueue[old]) /\ u # t
  BY <1>2, TCBQRemLemma
<1>4. readyQueue'[old] = rest /\ \A r \in Prio \ {old} : readyQueue'[r] = readyQueue[r]
  BY <1>1
<1> HIDE DEF old
<1>5. ASSUME NEW p \in Prio
      PROVE  /\ IsInjective(readyQueue'[p])
             /\ \A u \in Task : u \in ToSet(readyQueue'[p])
                                  <=> status'[u] = "READY" /\ priority'[u] = p
  <2>1. CASE p = old
    BY <1>1, <1>3, <1>4, <2>1 DEF ReadyInv, old
  <2>2. CASE p # old
    BY <1>1, <1>4, <2>2 DEF ReadyInv, old
  <2> QED
    BY <2>1, <2>2
<1>6. readyBitmask' = {p \in Prio : p < BitmaskLimit /\ readyQueue'[p] # <<>>}
  <2>1. readyBitmask' = IF rest = <<>> THEN readyBitmask \ {old} ELSE readyBitmask
    BY DEF old
  <2>2. t \in ToSet(readyQueue[old])
    BY <1>1 DEF ReadyInv, old
  <2>3. readyQueue[old] # <<>>
    BY <2>2, ToSetEmpty
  <2> QED
    BY <1>1, <1>4, <2>1, <2>3
<1>7. \A u \in Task : status'[u] = "RUNNING" => u = runPtr'
  BY <1>1 DEF ReadyInv
<1>8. readyQueue' \in [Prio -> Seq(Task)] /\ readyBitmask' \in SUBSET Prio
  BY <1>1, <1>3, <1>6 DEF old
<1> QED
  BY <1>5, <1>6, <1>7, <1>8 DEF ReadyInv

LEMMA UnreadyInv ==
    ASSUME IInv, NEW q \in Queue, NEW x \in Task, Unready(q, x)
    PROVE  IInv'
<1> USE DEF IInv
<1> DEFINE rest == TCBQRem(readyQueue[priority[x]], x)
           s == TCBQEnqByPrio(waitingQueue[q], x, priority)
<1>1. /\ UNCHANGED <<priority, tcbSchLock, runPtr, schLock, lock, ownerPtr, ownedMutexList,
                     waitingForMutexPtr, lockCall>>
      /\ UNCHANGED sectionVars /\ UNCHANGED swtchVars /\ UNCHANGED timeoutVars
      /\ section = "open" /\ x \notin {runPtr, Idle} /\ status[x] = "READY"
      /\ status' = [status EXCEPT ![x] = "SLEEPQ_BLOCKED"]
      /\ waitingQueue' = [waitingQueue EXCEPT ![q] = s]
      /\ readyQueue' = [readyQueue EXCEPT ![priority[x]] = rest]
      /\ readyBitmask' = IF rest = <<>> THEN readyBitmask \ {priority[x]} ELSE readyBitmask
  BY DEF Unready, RestBut
<1>2. ReadyInv' /\ readyQueue' \in [Prio -> Seq(Task)] /\ readyBitmask' \in SUBSET Prio
  BY <1>1, ReadyRemInv DEF TypeOK, Status
<1> HIDE DEF rest
<1>3. waitingQueue[q] \in Seq(Task) /\ IsInjective(waitingQueue[q])
      /\ x \notin ToSet(waitingQueue[q])
  BY <1>1, NotLinked DEF TypeOK, WaitInv, Asleep, Suspended
<1>4. s \in Seq(Task) /\ IsInjective(s) /\ ToSet(s) = ToSet(waitingQueue[q]) \cup {x}
  BY <1>3, TCBQEnqLemma
<1> HIDE DEF s
<1>5. TypeOK'
  <2>1. waitingQueue' \in [Mutex \cup Queue -> Seq(Task)]
    BY <1>1, <1>4 DEF TypeOK
  <2>2. SchedTypeOK'
    BY <1>1, <1>2 DEF TypeOK, SchedTypeOK, Status, swtchVars
  <2> QED
    BY <1>1, <2>1, <2>2 DEF TypeOK, timeoutVars, sectionVars
<1>6. /\ \A t \in Task \ {x} : status'[t] = status[t]
      /\ status'[x] = "SLEEPQ_BLOCKED"
      /\ timeoutType' = timeoutType /\ waitingQueuePtr' = waitingQueuePtr /\ timeOut' = timeOut
      /\ timeoutType[x] = "none" /\ waitingQueuePtr[x] = NoMutex
  BY <1>1 DEF TypeOK, SchedTypeOK, TimeoutInv, timeoutVars, Suspended
<1>7. /\ \A n \in Mutex \cup Queue : /\ IsInjective(waitingQueue'[n])
                                     /\ x \in ToSet(waitingQueue'[n]) <=> n = q
      /\ \A t \in Task \ {x} : \A n \in Mutex \cup Queue :
            t \in ToSet(waitingQueue'[n]) <=> t \in ToSet(waitingQueue[n])
  <2>1. \A n \in Mutex \cup Queue : waitingQueue'[n] = IF n = q THEN s ELSE waitingQueue[n]
    BY <1>1 DEF TypeOK
  <2>2. \A n \in Mutex \cup Queue : x \notin ToSet(waitingQueue[n])
    BY <1>1, NotLinked DEF Asleep, Suspended
  <2> QED
    BY <1>4, <2>1, <2>2 DEF WaitInv
<1>8. \A t \in Task : ~Dropped(t) /\ ~Given(t) /\ ~Dropped(t)' /\ ~Given(t)'
  BY <1>1 DEF Dropped, Given, sectionVars
<1>9. WaitInv'
  <2>1. ASSUME NEW t \in Task, NEW n \in Mutex \cup Queue, t \in ToSet(waitingQueue'[n])
        PROVE  LinkInv(t, n)'
    <3>1. CASE t = x
      <4>1. n = q /\ n \notin Mutex
        BY <1>7, <2>1, <3>1
      <4>2. \A r \in Mutex \cup Queue : r # n => t \notin ToSet(waitingQueue'[r])
        BY <1>7, <3>1, <4>1
      <4> QED
        BY <1>6, <3>1, <4>1, <4>2 DEF LinkInv, Asleep
    <3>2. CASE t # x
      BY <1>1, <1>6, <1>7, <2>1, <3>2 DEF WaitInv, LinkInv
    <3> QED
      BY <3>1, <3>2
  <2>2. ASSUME NEW t \in Task, NEW m \in Mutex, status'[t] = "BLOCKED", waitingForMutexPtr'[t] = m
        PROVE  t \in ToSet(waitingQueue'[m])
    BY <1>1, <1>6, <1>7, <1>8, <2>2 DEF WaitInv
  <2> QED
    BY <1>7, <2>1, <2>2 DEF WaitInv
<1>10. LockerInv'
  <2> SUFFICES ASSUME NEW t \in Task
               PROVE  /\ waitingForMutexPtr'[t] # NoMutex =>
                           /\ lockCall'[t] = waitingForMutexPtr'[t]
                           /\ status'[t] = "BLOCKED" \/ timeOut'[t]
                      /\ lockCall'[t] # NoMutex /\ status'[t] \in Suspended =>
                           t \in ToSet(waitingQueue'[lockCall'[t]])
    BY DEF LockerInv
  <2>1. lockCall[t] # NoMutex => lockCall[t] \in Mutex
    BY DEF TypeOK
  <2>2. CASE t = x
    BY <1>1, <1>6, <2>2 DEF LockerInv, Suspended
  <2>3. CASE t # x
    BY <1>1, <1>6, <1>7, <1>8, <2>1, <2>3 DEF LockerInv
  <2> QED
    BY <2>2, <2>3
<1>11. TimeoutInv'
  BY <1>6 DEF TimeoutInv
<1>12. WakeInv'
  BY <1>1 DEF WakeInv, sectionVars
<1>13. RunInv' /\ IdleInv'
  BY <1>1, <1>6 DEF RunInv, IdleInv, TypeOK, SchedTypeOK, sectionVars, swtchVars
<1>14. OwnInv'
  BY <1>1 DEF OwnInv, TypeOK
<1> QED
  BY <1>2, <1>5, <1>9, <1>10, <1>11, <1>12, <1>13, <1>14

(* The end of a flush: at most a switch is asked for.                      *)
LEMMA WakeEndInv ==
    ASSUME IInv, WakeEnd
    PROVE  IInv'
<1> USE DEF IInv
<1>1. /\ UNCHANGED <<priority, tcbSchLock, runPtr, schLock, status, readyQueue, readyBitmask>>
      /\ UNCHANGED mutexVars /\ UNCHANGED timeoutVars /\ UNCHANGED lockCall
      /\ UNCHANGED sectionVars
  BY DEF WakeEnd, Rest
<1>2. PICK p : UNCHANGED swtchVars \/ ReschedTask(p)
  BY DEF WakeEnd
<1>3. pendSV' \in BOOLEAN /\ pendingCtxtSwtch' \in BOOLEAN
  BY <1>2, ReschedType DEF TypeOK
<1>4. TypeOK'
  BY <1>1, <1>3 DEF TypeOK, SchedTypeOK, mutexVars, timeoutVars, sectionVars
<1>5. /\ ReadyInv' /\ WaitInv' /\ LockerInv' /\ TimeoutInv' /\ WakeInv' /\ IdleInv' /\ OwnInv'
  BY <1>1 DEF ReadyInv, WaitInv, LinkInv, LockerInv, Dropped, Given, TimeoutInv, WakeInv, IdleInv,
              OwnInv, mutexVars, timeoutVars, sectionVars
<1>6. RunInv'
  <2>1. ~pendSV' => ~pendSV /\ (pendingCtxtSwtch => pendingCtxtSwtch')
    BY <1>2, ReschedKeeps DEF TypeOK
  <2> QED
    BY <1>1, <2>1 DEF RunInv, TypeOK, SchedTypeOK, sectionVars
<1> QED
  BY <1>4, <1>5, <1>6

(***************************************************************************)
(* The steps of RK0Wait by what they do to RK0Mutex.                       *)
(***************************************************************************)
StutterKind == UNCHANGED vars /\ UNCHANGED <<value, waitCall>>

SuspendKind ==
    \E q \in Queue, timed \in BOOLEAN, st \in Suspended :
        /\ Calling /\ waitCall[runPtr] = NoQueue
        /\ q \in Sema => value[q] = 0
        /\ Suspend(q, timed, st)
        /\ UNCHANGED value

WakeKind ==
    \E q \in Queue, w \in Task : Woken(w, q) /\ UNCHANGED <<value, waitCall>>

WaitKind ==
    \/ MutexStep \/ MutexCalled \/ StutterKind \/ SuspendKind \/ Resume \/ WakeKind \/ WakeEnd
    \/ \E s \in Sema : PendTake(s) \/ PostCount(s)
    \/ \E q \in SleepQ, t \in Task : Unready(q, t)

LEMMA WokenHead ==
    ASSUME IInv, NEW q \in Queue, waitingQueue[q] # <<>>
    PROVE  Head(waitingQueue[q]) \in Task /\ Head(waitingQueue[q]) \in ToSet(waitingQueue[q])
  BY TailLemma DEF IInv, TypeOK

(* A post, a signal and kSleepQueueReady decide about the preemption.      *)
PostKind ==
    \E q \in Queue, w \in Task :
        Woken(w, q) /\ ReschedTask(priority[w]) /\ UNCHANGED <<value, waitCall>>

LEMMA WakeSwtchWoken ==
    ASSUME section = "open", NEW q \in Queue, NEW w \in Task, w \in ToSet(waitingQueue[q]),
           WakeSwtch(w, q), UNCHANGED <<value, waitCall>>
    PROVE  PostKind
  BY DEF WakeSwtch, ReadySwtch, Woken, PostKind

LEMMA PostKinds ==
    ASSUME IInv, WaitVarsOK,
           \/ \E s \in Sema : PostWake(s)
           \/ \E q \in SleepQ : Signal(q) \/ \E t \in Task : SleepQueueReady(q, t)
    PROVE  PostKind /\ WakeKind
<1>1. ASSUME NEW s \in Sema, PostWake(s) PROVE PostKind
  <2>1. s \in Queue /\ section = "open" /\ waitingQueue[s] # <<>>
    BY <1>1 DEF PostWake
  <2> QED
    BY <1>1, <2>1, WokenHead, WakeSwtchWoken DEF PostWake, waitVars
<1>2. ASSUME NEW q \in SleepQ, Signal(q) PROVE PostKind
  <2>1. q \in Queue /\ section = "open" /\ waitingQueue[q] # <<>>
    BY <1>2 DEF Signal
  <2> QED
    BY <1>2, <2>1, WokenHead, WakeSwtchWoken DEF Signal, waitVars
<1>3. ASSUME NEW q \in SleepQ, NEW t \in Task, SleepQueueReady(q, t) PROVE PostKind
  <2>1. q \in Queue /\ section = "open" /\ waitingQueue[q] \in Seq(Task)
    BY <1>3 DEF SleepQueueReady, IInv, TypeOK
  <2>2. t \in ToSet(waitingQueue[q])
    BY <1>3, <2>1, InToSet DEF SleepQueueReady
  <2> QED
    BY <1>3, <2>1, <2>2, WakeSwtchWoken DEF SleepQueueReady, waitVars
<1>4. PostKind => WakeKind
  BY DEF PostKind, WakeKind
<1> QED
  BY <1>1, <1>2, <1>3, <1>4

(* The loop of kSleepQueueWake does not, and keeps the best task it wakes. *)
LEMMA WakeNextWoken ==
    ASSUME IInv, WaitVarsOK, WakeNext
    PROVE  /\ WakeKind
           /\ \E q \in Queue, w \in Task :
                /\ Woken(w, q) /\ UNCHANGED swtchVars
                /\ q = flow[runPtr].q /\ w = Head(waitingQueue[q])
<1>0. runPtr \in Task
  BY DEF IInv, TypeOK, SchedTypeOK
<1>1. PICK q \in Queue : q = flow[runPtr].q
  BY <1>0, FlowKind DEF WakeNext, At, WaitVarsOK
<1>2. PICK w \in Task : w = Head(waitingQueue[q]) /\ w \in ToSet(waitingQueue[q])
  BY <1>1, WokenHead DEF WakeNext
<1>3. Woken(w, q) /\ UNCHANGED <<value, waitCall>> /\ UNCHANGED swtchVars
  BY <1>1, <1>2 DEF WakeNext, Woken, At, Calling, Executing
<1> QED
  BY <1>1, <1>2, <1>3 DEF WakeKind

LEMMA LockCallsKind ==
    ASSUME NEW step, At(step), LockCalls \/ UnlockCalls,
           UNCHANGED <<mutexVars, timeoutVars, lockCall, sectionVars, value, waitCall>>
    PROVE  MutexCalled \/ StutterKind
<1>1. CASE SchLock \/ SchUnlock
  BY <1>1 DEF MutexCalled, At, TaskCall
<1>2. CASE UNCHANGED schedVars
  BY <1>2 DEF StutterKind, vars
<1> QED
  BY <1>1, <1>2 DEF LockCalls, UnlockCalls

LEMMA SemaKinds ==
    ASSUME IInv, WaitVarsOK, SemaStep
    PROVE  WaitKind
<1>1. ASSUME NEW s \in Sema, NEW timed \in BOOLEAN, PendBlock(s, timed) PROVE SuspendKind
  BY <1>1 DEF PendBlock, SuspendKind, At, Suspended
<1> QED
  BY <1>1, PostKinds DEF SemaStep, WaitKind

LEMMA SleepKinds ==
    ASSUME IInv, WaitVarsOK, SleepStep
    PROVE  WaitKind
<1>0. SleepQ \subseteq Queue /\ Sema \cap SleepQ = {}
  OBVIOUS
<1>1. ASSUME NEW q \in SleepQ, NEW timed \in BOOLEAN, Sleep(q, timed) PROVE SuspendKind
  BY <1>0, <1>1 DEF Sleep, SuspendKind, At, Suspended
<1>2. CASE WakeLock \/ WakeUnlock
  BY <1>2, LockCallsKind DEF WakeLock, WakeUnlock, WaitKind
<1>3. ASSUME NEW q \in SleepQ, NEW n \in {0, 1}, WakeStart(q, n) PROVE StutterKind
  BY <1>3 DEF WakeStart, StutterKind
<1> QED
  BY <1>1, <1>2, <1>3, PostKinds, WakeNextWoken DEF SleepStep, WaitKind

LEMMA CondKinds ==
    ASSUME IInv, WaitVarsOK, CondStep
    PROVE  WaitKind
<1>0. SleepQ \subseteq Queue /\ Sema \cap SleepQ = {} /\ runPtr \in Task
  BY DEF IInv, TypeOK, SchedTypeOK
<1>1. ASSUME NEW q \in SleepQ, NEW m \in Mutex, NEW timed \in BOOLEAN, CondWait(q, m, timed)
      PROVE  WaitKind
  BY <1>1, LockCallsKind DEF CondWait, WaitKind
<1>2. CASE CondLeave
  BY <1>2, LockCallsKind DEF CondLeave, WaitKind
<1>3. CASE CondRelease \/ CondRelock
  <2>1. PICK m \in Mutex : m = flow[runPtr].m
    BY <1>0, <1>3, FlowKind DEF CondRelease, CondRelock, At, WaitVarsOK
  <2>2. MutexCalled
    BY <1>3, <2>1 DEF CondRelease, CondRelock, At, MutexCalled
  <2> QED
    BY <2>2 DEF WaitKind
<1>4. CASE CondSleep
  <2>1. /\ flow[runPtr].q \in SleepQ /\ flow[runPtr].timed \in BOOLEAN
    BY <1>0, <1>4, FlowKind DEF CondSleep, At, WaitVarsOK
  <2>2. SuspendKind
    BY <1>0, <1>4, <2>1 DEF CondSleep, SuspendKind, At, Suspended
  <2> QED
    BY <2>2 DEF WaitKind
<1>5. CASE CondTooLate
  BY <1>5 DEF CondTooLate, StutterKind, WaitKind
<1> QED
  BY <1>1, <1>2, <1>3, <1>4, <1>5 DEF CondStep

LEMMA WaitKinds ==
    ASSUME IInv, WaitVarsOK, WaitNext
    PROVE  WaitKind
<1>1. MutexCall => MutexCalled
  BY DEF MutexCall, MutexCalled, At, waitVars
<1> QED
  BY <1>1, SemaKinds, SleepKinds, CondKinds DEF WaitNext, WaitKind

LEMMA WaitKindInv ==
    ASSUME IInv, SuspendedInv, WaitKind
    PROVE  IInv'
<1>1. CASE MutexStep \/ MutexCalled \/ StutterKind
  <2>1. [Next]_vars
    <3>1. CASE MutexStep
      BY <3>1 DEF MutexStep, Next, Lock, Unlock, SchedStep
    <3>2. CASE MutexCalled
      BY <3>2 DEF MutexCalled, Next, Lock, Unlock, SchedStep
    <3>3. CASE StutterKind
      BY <3>3 DEF StutterKind
    <3> QED
      BY <1>1, <3>1, <3>2, <3>3
  <2> QED
    BY <2>1, NextInv
<1>2. CASE SuspendKind
  BY <1>2, SuspendStepInv DEF SuspendKind
<1>3. CASE Resume
  <2>1. lockCall[runPtr] = NoMutex
    BY <1>3 DEF Resume, SuspendedInv, PendInv, IInv, TypeOK, SchedTypeOK
  <2> QED
    BY <1>3, <2>1, ResumeInv
<1>4. CASE WakeKind
  BY <1>4, WokenInv DEF WakeKind
<1>5. ASSUME NEW s \in Sema, PendTake(s) \/ PostCount(s) PROVE IInv'
  BY <1>5, StutterInv DEF PendTake, PostCount
<1>6. ASSUME NEW q \in SleepQ, NEW t \in Task, Unready(q, t) PROVE IInv'
  <2>1. q \in Queue
    OBVIOUS
  <2> QED
    BY <1>6, <2>1, UnreadyInv
<1> QED
  BY <1>1, <1>2, <1>3, <1>4, <1>5, <1>6, WakeEndInv DEF WaitKind

(***************************************************************************)
(* The new steps, seen by the tasks that wait and by RK0Semaphore.         *)
(***************************************************************************)
LEMMA SuspendWait ==
    ASSUME IInv, IInv', WaitVarsOK, WaitVarsOK', SuspendedInv, SuspendKind
    PROVE  SuspendedInv' /\ SemaphoreStep
<1>1. PICK q \in Queue, timed \in BOOLEAN, st \in Suspended :
         /\ Calling /\ waitCall[runPtr] = NoQueue
         /\ q \in Sema => value[q] = 0
         /\ Suspend(q, timed, st)
         /\ UNCHANGED value
  BY DEF SuspendKind
<1>2. PICK x \in Task : x = runPtr
  BY DEF IInv, TypeOK, SchedTypeOK
<1>3. /\ section = "open" /\ section' = "open" /\ lockCall[x] = NoMutex /\ lockCall' = lockCall
      /\ status' = [status EXCEPT ![x] = st]
      /\ timeOut' = [timeOut EXCEPT ![x] = IF timed THEN FALSE ELSE @]
      /\ waitingQueue' = [waitingQueue EXCEPT ![q] = TCBQEnqByPrio(@, x, priority)]
      /\ waitCall' = [waitCall EXCEPT ![x] = q]
  BY <1>1, <1>2 DEF Suspend, Calling, Executing, RestBut, sectionVars
<1>4. /\ \A t \in Task \ {x} : /\ status'[t] = status[t] /\ timeOut'[t] = timeOut[t]
                               /\ waitCall'[t] = waitCall[t]
      /\ status'[x] = st /\ waitCall'[x] = q /\ waitCall[x] = NoQueue
  BY <1>1, <1>2, <1>3 DEF IInv, TypeOK, SchedTypeOK, WaitVarsOK
<1>5. \A t \in Task : ~Dropped(t) /\ ~Dropped(t)'
  BY <1>3 DEF Dropped
<1>6. waitingQueue[q] \in Seq(Task)
  BY DEF IInv, TypeOK
<1>7. /\ x \in ToSet(waitingQueue'[q])
      /\ \A t \in Task \ {x} : \A n \in Queue :
            t \in ToSet(waitingQueue'[n]) <=> t \in ToSet(waitingQueue[n])
  <2> DEFINE s == TCBQEnqByPrio(waitingQueue[q], x, priority)
  <2>1. ToSet(s) = ToSet(waitingQueue[q]) \cup {x}
    BY <1>6, TCBQEnqLemma
  <2>2. \A n \in Queue : waitingQueue'[n] = IF n = q THEN s ELSE waitingQueue[n]
    BY <1>3 DEF IInv, TypeOK
  <2> HIDE DEF s
  <2> QED
    BY <2>1, <2>2
<1>8. \A t \in Task \ {x} : Kept(t)
  BY <1>3, <1>4, <1>5, <1>7 DEF Kept
<1>9. ~timeOut'[x]
  <2>1. ~timeOut[x]
    BY <1>3, <1>4 DEF SuspendedInv, PendInv
  <2> QED
    BY <1>3, <2>1 DEF IInv, TypeOK
<1>10. PendInv(x)'
  <2>1. q # NoQueue /\ status'[x] # "SLEEPQ_BLOCKED"
    BY <1>4 DEF Suspended
  <2> QED
    BY <1>3, <1>4, <1>7, <1>9, <2>1 DEF PendInv
<1>11. SuspendedInv'
  BY <1>3, <1>8, <1>10, KeptPend DEF SuspendedInv, ExpiredInv
<1>12. WaitCallOf(x) = "idle" /\ WaitCallOf(x)' = "waiting"
  <2>1. q # NoQueue
    OBVIOUS
  <2> QED
    BY <1>4, <1>7, <2>1, WaitCallOfCases, WaitCallOfNext DEF IInv
<1>13. \A t \in Task \ {x} : WaitCallOf(t)' = WaitCallOf(t)
  BY <1>8, KeptWaitCall DEF IInv
<1>14. waitState' = [waitState EXCEPT ![x] = "waiting"]
  BY <1>12, <1>13, WaitCallMoves
<1>15. SemaphorePromise!Wait(x, q)
  <2>1. Tokens(value)[q] = 0
    BY <1>1 DEF Tokens
  <2>2. Tokens(value)' = Tokens(value)
    BY <1>1 DEF Tokens
  <2> QED
    BY <1>3, <1>12, <1>14, <2>1, <2>2 DEF SemaphorePromise!Wait, waitState
<1> QED
  BY <1>11, <1>15 DEF SemaphoreStep, SemaphorePromise!AbsNext

LEMMA ResumeWait ==
    ASSUME IInv, IInv', WaitVarsOK, WaitVarsOK', SuspendedInv, Resume
    PROVE  SuspendedInv' /\ SemaphoreStep
<1>1. PICK x \in Task : x = runPtr
  BY DEF IInv, TypeOK, SchedTypeOK
<1>2. /\ section = "open" /\ section' = "open" /\ waitCall[x] # NoQueue
      /\ UNCHANGED <<status, waitingQueue, lockCall, value>>
      /\ waitCall' = [waitCall EXCEPT ![x] = NoQueue]
      /\ timeOut' = [timeOut EXCEPT ![x] = FALSE]
  BY <1>1 DEF Resume, Executing, schedVars, mutexVars, sectionVars
<1>3. status[x] \in {"READY", "RUNNING"}
  BY <1>1 DEF Resume, Executing, IInv, RunInv
<1>4. /\ \A t \in Task \ {x} : timeOut'[t] = timeOut[t] /\ waitCall'[t] = waitCall[t]
      /\ ~timeOut'[x] /\ waitCall'[x] = NoQueue
  BY <1>2 DEF IInv, TypeOK, WaitVarsOK
<1>5. \A t \in Task : ~Dropped(t) /\ ~Dropped(t)'
  BY <1>2 DEF Dropped
<1>6. \A t \in Task \ {x} : Kept(t)
  BY <1>2, <1>4, <1>5 DEF Kept
<1>7. PendInv(x)'
  BY <1>2, <1>3, <1>4 DEF PendInv, Suspended
<1>8. SuspendedInv'
  BY <1>2, <1>6, <1>7, KeptPend DEF SuspendedInv, ExpiredInv
<1>9. WaitCallOf(x) \in {"granted", "expired"} /\ WaitCallOf(x)' = "idle"
  <2>1. status[x] \notin Suspended
    BY <1>3 DEF Suspended
  <2> QED
    BY <1>2, <1>4, <2>1, WaitCallOfCases, WaitCallOfNext DEF IInv
<1>10. \A t \in Task \ {x} : WaitCallOf(t)' = WaitCallOf(t)
  BY <1>6, KeptWaitCall DEF IInv
<1>11. waitState' = [waitState EXCEPT ![x] = "idle"]
  BY <1>9, <1>10, WaitCallMoves
<1>12. SemaphorePromise!Return(x, WaitCallOf(x))
  BY <1>2, <1>11 DEF SemaphorePromise!Return, waitState, Tokens
<1> QED
  BY <1>8, <1>9, <1>12 DEF SemaphoreStep, SemaphorePromise!AbsNext

(* Of those that wait for a semaphore, its queue holds the tasks.          *)
LEMMA WaiterInQueue ==
    ASSUME IInv, WaitVarsOK, SuspendedInv, section = "open", NEW t \in Task, NEW q \in Queue
    PROVE  /\ WaitCallOf(t) = "waiting" /\ waitCall[t] = q => t \in ToSet(waitingQueue[q])
           /\ t \in ToSet(waitingQueue[q]) /\ status[t] \in Suspended =>
                WaitCallOf(t) = "waiting" /\ waitCall[t] = q /\ ~timeOut[t]
<1>1. q # NoQueue /\ ~Dropped(t) /\ ~Given(t)
  BY DEF Dropped, Given
<1>2. ASSUME t \in ToSet(waitingQueue[q]), status[t] \in Suspended
      PROVE  WaitCallOf(t) = "waiting" /\ waitCall[t] = q /\ ~timeOut[t]
  <2>1. \A r \in Mutex \cup Queue : r # q => t \notin ToSet(waitingQueue[r])
    BY <1>2 DEF IInv, WaitInv, LinkInv
  <2>2. lockCall[t] = NoMutex
    <3>1. lockCall[t] \in Mutex \cup {NoMutex} /\ Queue \cap Mutex = {}
      BY DEF IInv, TypeOK
    <3> QED
      BY <1>1, <1>2, <2>1, <3>1 DEF IInv, LockerInv
  <2>3. waitCall[t] # NoQueue /\ ~timeOut[t] /\ t \in ToSet(waitingQueue[waitCall[t]])
    BY <1>1, <1>2, <2>2 DEF SuspendedInv, PendInv
  <2>4. waitCall[t] = q
    BY <2>1, <2>3 DEF WaitVarsOK
  <2> QED
    BY <1>2, <2>3, <2>4, WaitCallOfCases DEF IInv
<1>3. ASSUME WaitCallOf(t) = "waiting", waitCall[t] = q PROVE t \in ToSet(waitingQueue[q])
  BY <1>1, <1>3, WaitCallOfCases DEF IInv
<1> QED
  BY <1>2, <1>3

LEMMA WakeWait ==
    ASSUME IInv, IInv', WaitVarsOK, WaitVarsOK', SuspendedInv, WakeKind
    PROVE  SuspendedInv' /\ SemaphoreStep
<1>1. PICK q \in Queue, w \in Task : Woken(w, q) /\ UNCHANGED <<value, waitCall>>
  BY DEF WakeKind
<1>2. /\ section = "open" /\ section' = "open" /\ w \in ToSet(waitingQueue[q])
      /\ UNCHANGED <<lockCall, timeOut>>
      /\ status' = [status EXCEPT ![w] = "READY"]
  BY <1>1 DEF Woken, RestBut, sectionVars, ReadyNoSwtch
<1>3. MadeReady(w)
  BY <1>1, WokenFacts
<1>4. /\ \A t \in Task \ {w} : status'[t] = status[t]
      /\ status'[w] = "READY"
  BY <1>2 DEF IInv, TypeOK, SchedTypeOK
<1>5. \A t \in Task : ~Dropped(t) /\ ~Dropped(t)'
  BY <1>2 DEF Dropped
<1>6. /\ \A n \in Queue : w \notin ToSet(waitingQueue'[n])
      /\ \A t \in Task \ {w} : \A n \in Queue :
            t \in ToSet(waitingQueue'[n]) <=> t \in ToSet(waitingQueue[n])
  BY <1>3 DEF MadeReady
<1>7. \A t \in Task \ {w} : Kept(t)
  BY <1>1, <1>2, <1>4, <1>5, <1>6 DEF Kept
<1>8. PendInv(w)'
  <2>1. PendInv(w) /\ timeOut'[w] = timeOut[w] /\ lockCall'[w] = lockCall[w]
        /\ waitCall'[w] = waitCall[w]
    BY <1>1, <1>2 DEF SuspendedInv
  <2>2. status'[w] \notin Suspended /\ status'[w] # "SLEEPQ_BLOCKED"
    BY <1>4 DEF Suspended
  <2> QED
    BY <2>1, <2>2 DEF PendInv
<1>9. ExpiredInv'
  BY <1>2 DEF ExpiredInv
<1>10. CASE status[w] \notin Suspended
  <2>1. waitCall[w] \in Queue \cup {NoQueue} /\ status'[w] \notin Suspended
    BY <1>4 DEF WaitVarsOK, Suspended
  <2>2. WaitCallOf(w)' = WaitCallOf(w)
    BY <1>1, <1>2, <1>5, <1>10, <2>1, SameWaitCall DEF IInv
  <2> QED
    BY <1>1, <1>7, <1>8, <1>9, <2>2, OneWaiter DEF IInv
<1>11. CASE status[w] \in Suspended
  <2>1. WaitCallOf(w) = "waiting" /\ waitCall[w] = q /\ ~timeOut[w]
    BY <1>2, <1>11, WaiterInQueue
  <2>2. WaitCallOf(w)' = "granted"
    <3>1. ~timeOut'[w] /\ waitCall'[w] # NoQueue /\ waitCall'[w] = q
      BY <1>1, <1>2, <2>1
    <3> QED
      BY <1>5, <1>6, <3>1, WaitCallOfNext DEF IInv
  <2>3. \A t \in Task \ {w} : WaitCallOf(t)' = WaitCallOf(t)
    BY <1>7, KeptWaitCall DEF IInv
  <2>4. waitState' = [waitState EXCEPT ![w] = "granted"]
    BY <2>2, <2>3, WaitCallMoves
  <2>5. w \in SemaphorePromise!Waiting(q)
    BY <2>1 DEF SemaphorePromise!Waiting
  <2>6. SemaphorePromise!Give(q)
    BY <1>1, <2>4, <2>5 DEF SemaphorePromise!Give, waitState, Tokens
  <2>7. \A t \in Task : PendInv(t)'
    BY <1>7, <1>8, KeptPend DEF SuspendedInv
  <2> QED
    BY <1>9, <2>6, <2>7 DEF SuspendedInv, SemaphoreStep, SemaphorePromise!AbsNext
<1> QED
  BY <1>10, <1>11

LEMMA UnreadyWait ==
    ASSUME IInv, IInv', WaitVarsOK, WaitVarsOK', SuspendedInv,
           NEW q \in SleepQ, NEW x \in Task, Unready(q, x)
    PROVE  SuspendedInv' /\ SemaphoreStep
<1>1. /\ section = "open" /\ section' = "open" /\ status[x] = "READY"
      /\ UNCHANGED <<lockCall, timeOut, value, waitCall>>
      /\ status' = [status EXCEPT ![x] = "SLEEPQ_BLOCKED"]
      /\ waitingQueue' = [waitingQueue EXCEPT ![q] = TCBQEnqByPrio(@, x, priority)]
  BY DEF Unready, RestBut, sectionVars, timeoutVars
<1>2. /\ \A t \in Task \ {x} : status'[t] = status[t]
      /\ status'[x] = "SLEEPQ_BLOCKED"
  BY <1>1 DEF IInv, TypeOK, SchedTypeOK
<1>3. /\ x \in ToSet(waitingQueue'[q])
      /\ \A t \in Task \ {x} : \A n \in Queue :
            t \in ToSet(waitingQueue'[n]) <=> t \in ToSet(waitingQueue[n])
  <2> DEFINE s == TCBQEnqByPrio(waitingQueue[q], x, priority)
  <2>1. waitingQueue[q] \in Seq(Task)
    BY DEF IInv, TypeOK
  <2>2. ToSet(s) = ToSet(waitingQueue[q]) \cup {x}
    BY <2>1, TCBQEnqLemma
  <2>3. \A n \in Queue : waitingQueue'[n] = IF n = q THEN s ELSE waitingQueue[n]
    BY <1>1 DEF IInv, TypeOK
  <2> HIDE DEF s
  <2> QED
    BY <2>2, <2>3
<1>4. \A t \in Task : ~Dropped(t) /\ ~Dropped(t)'
  BY <1>1 DEF Dropped
<1>5. \A t \in Task \ {x} : Kept(t)
  BY <1>1, <1>2, <1>3, <1>4 DEF Kept
<1>6. PendInv(x)'
  BY <1>1, <1>2, <1>3 DEF SuspendedInv, PendInv, Suspended
<1>7. WaitCallOf(x)' = WaitCallOf(x)
  <2>1. status[x] \notin Suspended /\ status'[x] \notin Suspended
    BY <1>1, <1>2 DEF Suspended
  <2> QED
    BY <1>1, <1>4, <2>1, SameWaitCall DEF IInv
<1>8. ExpiredInv'
  BY <1>1 DEF ExpiredInv
<1> QED
  BY <1>1, <1>5, <1>6, <1>7, <1>8, OneWaiter DEF IInv

LEMMA TokensMove ==
    ASSUME NEW f \in [Sema -> Nat], NEW s \in Sema, NEW c
    PROVE  /\ Tokens([f EXCEPT ![s] = c]) = [Tokens(f) EXCEPT ![s] = c]
           /\ Tokens(f)[s] = f[s]
  BY DEF Tokens

(* Tokens come and go while nobody waits for them. *)
LEMMA TokenWait ==
    ASSUME IInv, IInv', WaitVarsOK, WaitVarsOK', SuspendedInv,
           NEW s \in Sema, PendTake(s) \/ PostCount(s)
    PROVE  SuspendedInv' /\ SemaphoreStep
<1>1. UNCHANGED vars /\ UNCHANGED waitCall /\ section = "open" /\ s \in Queue
  BY DEF PendTake, PostCount
<1>2. UNCHANGED <<status, lockCall, timeOut, section, wakePtr, waitingQueue, runPtr>>
  BY <1>1 DEF vars, schedVars, mutexVars, timeoutVars, sectionVars
<1>3. \A t \in Task : Kept(t)
  BY <1>1, <1>2 DEF Kept, Dropped
<1>4. SuspendedInv'
  BY <1>2, <1>3, KeptPend DEF SuspendedInv, ExpiredInv
<1>5. UNCHANGED waitState
  BY <1>3, KeptWaitCall DEF waitState, IInv
<1>6. CASE PendTake(s)
  <2>1. value' = [value EXCEPT ![s] = @ - 1] /\ value[s] > 0
    BY <1>6 DEF PendTake
  <2>2. Tokens(value)' = [Tokens(value) EXCEPT ![s] = @ - 1] /\ Tokens(value)[s] > 0
    <3>1. value \in [Sema -> Nat] /\ Tokens(value)' = Tokens([value EXCEPT ![s] = value[s] - 1])
      BY <2>1 DEF WaitVarsOK
    <3> QED
      BY <2>1, <3>1, TokensMove
  <2>3. SemaphorePromise!Take(s)
    BY <1>1, <1>5, <2>2 DEF SemaphorePromise!Take, waitState
  <2> QED
    BY <1>1, <1>4, <2>3 DEF SemaphoreStep, SemaphorePromise!AbsNext
<1>7. CASE PostCount(s)
  <2>1. /\ value' = [value EXCEPT ![s] = @ + 1] /\ value[s] < MaxValue[s]
        /\ waitingQueue[s] = <<>>
    BY <1>7 DEF PostCount
  <2>2. /\ Tokens(value)' = [Tokens(value) EXCEPT ![s] = @ + 1]
        /\ Tokens(value)[s] < Tokens(MaxValue)[s]
    <3>1. /\ value \in [Sema -> Nat] /\ MaxValue \in [Sema -> Nat]
          /\ Tokens(value)' = Tokens([value EXCEPT ![s] = value[s] + 1])
      BY <2>1 DEF WaitVarsOK
    <3> QED
      BY <2>1, <3>1, TokensMove
  <2>3. SemaphorePromise!Waiting(s) = {}
    <3>1. ASSUME NEW t \in Task, WaitCallOf(t) = "waiting", waitCall[t] = s PROVE FALSE
      BY <1>1, <2>1, <3>1, WaiterInQueue, ToSetEmpty
    <3> QED
      BY <3>1 DEF SemaphorePromise!Waiting
  <2>4. SemaphorePromise!Add(s)
    BY <1>1, <1>5, <2>2, <2>3 DEF SemaphorePromise!Add, waitState
  <2> QED
    BY <1>1, <1>4, <2>4 DEF SemaphoreStep, SemaphorePromise!AbsNext
<1> QED
  BY <1>6, <1>7

LEMMA AsideWait ==
    ASSUME IInv, IInv', WaitVarsOK, WaitVarsOK', SuspendedInv, StutterKind \/ WakeEnd
    PROVE  SuspendedInv' /\ SemaphoreStep
<1>1. /\ UNCHANGED <<status, lockCall, timeOut, section, wakePtr, waitingQueue, runPtr>>
      /\ UNCHANGED <<value, waitCall>>
  BY DEF StutterKind, WakeEnd, Rest, vars, schedVars, mutexVars, timeoutVars, sectionVars
<1>2. \A t \in Task : Kept(t)
  BY <1>1 DEF Kept, Dropped
<1>3. ExpiredInv'
  BY <1>1 DEF SuspendedInv, ExpiredInv
<1> QED
  BY <1>1, <1>2, <1>3, NobodyDisturbed DEF IInv

LEMMA WaitKindStep ==
    ASSUME IInv, IInv', WaitVarsOK, WaitVarsOK', SuspendedInv, WaitKind
    PROVE  SuspendedInv' /\ SemaphoreStep
  BY MutexStepWait, MutexCalledWait, AsideWait, SuspendWait, ResumeWait, WakeWait, TokenWait,
     UnreadyWait DEF WaitKind

(***************************************************************************)
(* The variables of RK0Wait keep their types.                              *)
(***************************************************************************)
LEMMA GoToFlow ==
    ASSUME WaitVarsOK, runPtr \in Task, NEW step,
           \/ /\ flow[runPtr] \in WakeFlow
              /\ step \in {"wakelock", "wake", "wakeunlock"}
           \/ /\ flow[runPtr] \in CondFlow
              /\ step \in {"release", "sleep", "relock", "leave"},
           GoTo(step)
    PROVE  flow' \in [Task -> Flow]
<1>1. [flow[runPtr] EXCEPT !.at = step] \in Flow
  BY FlowGoes DEF WaitVarsOK, Flow
<1> QED
  BY <1>1 DEF GoTo, WaitVarsOK

LEMMA FlowChanges ==
    ASSUME WaitVarsOK, NEW t \in Task, NEW f \in Flow, flow' = [flow EXCEPT ![t] = f]
    PROVE  flow' \in [Task -> Flow]
  BY DEF WaitVarsOK

LEMMA WakeStartFlow ==
    ASSUME IInv, WaitVarsOK, NEW q \in SleepQ, NEW n \in {0, 1}, WakeStart(q, n)
    PROVE  flow' \in [Task -> Flow]
<1> DEFINE left == IF n = 0 THEN Len(waitingQueue[q]) ELSE Min({n, Len(waitingQueue[q])})
           due == IF n = 0 THEN ToSet(waitingQueue[q]) ELSE {}
           f == [at |-> "wakelock", q |-> q, chosen |-> NoTask, left |-> left, due |-> due]
<1>1. waitingQueue[q] \in Seq(Task) /\ runPtr \in Task
  BY DEF IInv, TypeOK, SchedTypeOK
<1>2. Len(waitingQueue[q]) \in Nat /\ ToSet(waitingQueue[q]) \in SUBSET Task
  BY <1>1, LenProperties, InToSet
<1>3. left \in Nat
  <2>1. {n, Len(waitingQueue[q])} \in SUBSET Nat /\ {n, Len(waitingQueue[q])} # {}
    BY <1>2
  <2>2. Min({n, Len(waitingQueue[q])}) \in Nat
    BY <2>1, MinOfNats
  <2> QED
    BY <1>2, <2>2
<1>4. due \in SUBSET Task
  BY <1>2
<1>5. flow' = [flow EXCEPT ![runPtr] = f]
  BY DEF WakeStart
<1> HIDE DEF left, due
<1>6. f \in Flow
  BY <1>3, <1>4 DEF Flow, WakeFlow
<1> QED
  BY <1>1, <1>5, <1>6, FlowChanges

LEMMA WakeFlowMoves ==
    ASSUME NEW f \in WakeFlow, NEW l \in Nat, NEW c \in Task \cup {NoTask}
    PROVE  [f EXCEPT !.left = l, !.chosen = c] \in WakeFlow
<1> DEFINE g == [f EXCEPT !.left = l]
<1>1. g \in WakeFlow
  BY DEF WakeFlow
<1> HIDE DEF g
<1>2. [g EXCEPT !.chosen = c] \in WakeFlow
  BY <1>1 DEF WakeFlow
<1> QED
  BY <1>2 DEF g

LEMMA WakeNextFlow ==
    ASSUME IInv, WaitVarsOK, WakeNext
    PROVE  flow' \in [Task -> Flow]
<1> DEFINE f == flow[runPtr]
           w == Head(waitingQueue[f.q])
           g == [f EXCEPT !.left = f.left - 1, !.chosen = Chosen(f.chosen, w)]
<1>1. runPtr \in Task
  BY DEF IInv, TypeOK, SchedTypeOK
<1>2. f \in WakeFlow /\ f.q \in Queue /\ f.left \in Nat /\ f.chosen \in Task \cup {NoTask}
  BY <1>1, FlowKind DEF WakeNext, At, WaitVarsOK
<1>3. w \in Task /\ f.left > 0
  BY <1>2, WokenHead DEF WakeNext
<1>4. Chosen(f.chosen, w) \in Task \cup {NoTask}
  BY <1>2, <1>3 DEF Chosen
<1>5. g \in WakeFlow
  <2>1. f.left - 1 \in Nat
    BY <1>2, <1>3
  <2> QED
    BY <1>2, <1>4, <2>1, WakeFlowMoves
<1>6. flow' = [flow EXCEPT ![runPtr] = g]
  <2> DEFINE g1 == [f EXCEPT !.left = f.left - 1]
             flow1 == [flow EXCEPT ![runPtr] = g1]
  <2>1. flow' = [flow1 EXCEPT ![runPtr] = [flow1[runPtr] EXCEPT !.chosen =
                                              Chosen(flow1[runPtr].chosen, w)]]
    BY DEF WakeNext
  <2>2. flow1[runPtr] = g1 /\ flow1 \in [Task -> Flow]
    BY <1>1, <1>2, <1>3 DEF WaitVarsOK, Flow, WakeFlow
  <2>3. g1.chosen = f.chosen /\ [g1 EXCEPT !.chosen = Chosen(f.chosen, w)] = g
    BY <1>2 DEF WakeFlow
  <2>4. flow' = [flow1 EXCEPT ![runPtr] = g]
    BY <2>1, <2>2, <2>3
  <2> HIDE DEF g, g1
  <2> QED
    BY <2>4
<1> QED
  BY <1>1, <1>5, <1>6, FlowChanges DEF Flow

LEMMA CondWaitFlow ==
    ASSUME WaitVarsOK, runPtr \in Task, NEW q \in SleepQ, NEW m \in Mutex, NEW timed \in BOOLEAN,
           CondWait(q, m, timed)
    PROVE  flow' \in [Task -> Flow]
<1> DEFINE f == [at |-> "release", q |-> q, m |-> m, timed |-> timed, expired |-> FALSE]
<1>1. f \in Flow
  BY DEF Flow, CondFlow
<1>2. flow' = [flow EXCEPT ![runPtr] = f]
  BY DEF CondWait
<1> QED
  BY <1>1, <1>2, FlowChanges

LEMMA CondSleepFlow ==
    ASSUME WaitVarsOK, runPtr \in Task, CondSleep \/ CondTooLate
    PROVE  flow' \in [Task -> Flow]
<1> DEFINE f == flow[runPtr]
<1>1. f \in CondFlow
  BY FlowKind DEF CondSleep, CondTooLate, At, WaitVarsOK
<1>2. CASE CondSleep
  <2> DEFINE n == NotDue(flow, runPtr)
  <2>1. n \in [Task -> Flow] /\ n[runPtr] = f
    <3>1. f \notin WakeFlow
      BY <1>1 DEF CondFlow, WakeFlow
    <3> QED
      BY <3>1, NotDueFlow DEF WaitVarsOK
  <2>2. [f EXCEPT !.at = "relock"] \in Flow
    BY <1>1, FlowGoes DEF Flow
  <2>3. flow' = [n EXCEPT ![runPtr] = [n[runPtr] EXCEPT !.at = "relock"]]
    BY <1>2 DEF CondSleep
  <2> HIDE DEF n
  <2>4. flow' = [n EXCEPT ![runPtr] = [f EXCEPT !.at = "relock"]]
    BY <2>1, <2>3
  <2> QED
    BY <2>1, <2>2, <2>4
<1>3. CASE CondTooLate
  <2> DEFINE g == [f EXCEPT !.at = "relock"]
             flow1 == [flow EXCEPT ![runPtr] = g]
  <2>1. flow' = [flow1 EXCEPT ![runPtr] = [flow1[runPtr] EXCEPT !.expired = TRUE]]
    BY <1>3 DEF CondTooLate
  <2>2. g \in CondFlow
    BY <1>1 DEF CondFlow
  <2> HIDE DEF g
  <2>3. flow1[runPtr] = g /\ flow1 \in [Task -> Flow]
    BY <2>2 DEF WaitVarsOK, Flow
  <2>4. [g EXCEPT !.expired = TRUE] \in Flow
    BY <2>2 DEF Flow, CondFlow
  <2> HIDE DEF flow1
  <2>5. flow' = [flow1 EXCEPT ![runPtr] = [g EXCEPT !.expired = TRUE]]
    BY <2>1, <2>3
  <2> QED
    BY <2>3, <2>4, <2>5
<1> QED
  BY <1>2, <1>3

LEMMA ResumeFlow ==
    ASSUME IInv, WaitVarsOK, Resume
    PROVE  flow' \in [Task -> Flow]
<1>1. runPtr \in Task /\ timeOut[runPtr] \in BOOLEAN
  BY DEF IInv, TypeOK, SchedTypeOK
<1>2. CASE flow[runPtr].at = "relock"
  <2>1. flow[runPtr] \in CondFlow
    BY <1>1, <1>2, FlowKind DEF WaitVarsOK
  <2>2. [flow[runPtr] EXCEPT !.expired = timeOut[runPtr]] \in Flow
    BY <1>1, <2>1 DEF CondFlow, Flow
  <2>3. flow' = [flow EXCEPT ![runPtr] = [flow[runPtr] EXCEPT !.expired = timeOut[runPtr]]]
    BY <1>2 DEF Resume
  <2> QED
    BY <1>1, <2>2, <2>3, FlowChanges
<1>3. CASE flow[runPtr].at # "relock"
  BY <1>3 DEF Resume, WaitVarsOK
<1> QED
  BY <1>2, <1>3

LEMMA FlowStep ==
    ASSUME IInv, WaitVarsOK, WaitNext
    PROVE  flow' \in [Task -> Flow]
<1>0. runPtr \in Task /\ flow \in [Task -> Flow]
  BY DEF IInv, TypeOK, SchedTypeOK, WaitVarsOK
<1>1. CASE MutexStep \/ MutexCall
  BY <1>0, <1>1 DEF MutexStep, MutexCall, waitVars
<1>2. CASE SemaStep
  BY <1>0, <1>2 DEF SemaStep, PendTake, PendBlock, PostWake, PostCount, waitVars
<1>3. CASE SleepStep
  <2>1. ASSUME NEW q \in SleepQ,
               \/ Signal(q) \/ \E timed \in BOOLEAN : Sleep(q, timed)
               \/ \E t \in Task : SleepQueueReady(q, t) \/ Unready(q, t)
        PROVE  flow' \in [Task -> Flow]
    BY <1>0, <2>1, NotDueFlow DEF Signal, Sleep, SleepQueueReady, Unready, waitVars
  <2>2. ASSUME NEW q \in SleepQ, NEW n \in {0, 1}, WakeStart(q, n) PROVE flow' \in [Task -> Flow]
    BY <2>2, WakeStartFlow
  <2>3. CASE WakeLock
    BY <1>0, <2>3, FlowKind, GoToFlow DEF WakeLock, At
  <2>4. CASE WakeEnd
    BY <1>0, <2>4, FlowKind, GoToFlow DEF WakeEnd, At
  <2>5. CASE WakeUnlock
    <3>1. NoFlow \in Flow
      BY DEF NoFlow, Flow, DoneFlow
    <3> QED
      BY <1>0, <2>5, <3>1, FlowChanges DEF WakeUnlock
  <2> QED
    BY <1>3, <2>1, <2>2, <2>3, <2>4, <2>5, WakeNextFlow DEF SleepStep
<1>4. CASE CondStep
  <2>1. CASE CondRelease
    BY <1>0, <2>1, FlowKind, GoToFlow DEF CondRelease, At
  <2>2. CASE CondRelock
    BY <1>0, <2>2, FlowKind, GoToFlow DEF CondRelock, At
  <2>3. CASE CondLeave
    <3>1. NoFlow \in Flow /\ [at |-> "panic"] \in Flow
      BY DEF NoFlow, Flow, DoneFlow
    <3>2. PICK f \in {NoFlow, [at |-> "panic"]} : flow' = [flow EXCEPT ![runPtr] = f]
      BY <2>3 DEF CondLeave
    <3> QED
      BY <1>0, <3>1, <3>2, FlowChanges
  <2> QED
    BY <1>0, <1>4, <2>1, <2>2, <2>3, CondWaitFlow, CondSleepFlow DEF CondStep
<1> QED
  BY <1>1, <1>2, <1>3, <1>4, ResumeFlow DEF WaitNext

LEMMA WaitVarsStep ==
    ASSUME IInv, WaitVarsOK, WaitNext
    PROVE  WaitVarsOK'
<1>0. runPtr \in Task
  BY DEF IInv, TypeOK, SchedTypeOK
<1>1. WaitKind
  BY WaitKinds
<1>2. /\ value' \in [Sema -> Nat] /\ \A s \in Sema : value'[s] <= MaxValue[s]
      /\ waitCall' \in [Task -> Queue \cup {NoQueue}]
  <2>1. CASE UNCHANGED <<value, waitCall>>
    BY <2>1 DEF WaitVarsOK
  <2>2. CASE SuspendKind
    <3>1. PICK q \in Queue : waitCall' = [waitCall EXCEPT ![runPtr] = q] /\ UNCHANGED value
      BY <2>2 DEF SuspendKind, Suspend
    <3> QED
      BY <1>0, <3>1 DEF WaitVarsOK
  <2>3. CASE Resume
    <3>1. waitCall' = [waitCall EXCEPT ![runPtr] = NoQueue] /\ UNCHANGED value
      BY <2>3 DEF Resume
    <3> QED
      BY <1>0, <3>1 DEF WaitVarsOK
  <2>4. CASE \E s \in Sema : PendTake(s)
    <3>1. PICK s \in Sema : PendTake(s)
      BY <2>4
    <3>2. value' = [value EXCEPT ![s] = @ - 1] /\ value[s] > 0 /\ UNCHANGED waitCall
      BY <3>1 DEF PendTake
    <3> QED
      BY <1>0, <3>2, WaitAssumption DEF WaitVarsOK
  <2>5. CASE \E s \in Sema : PostCount(s)
    <3>1. PICK s \in Sema : PostCount(s)
      BY <2>5
    <3>2. value' = [value EXCEPT ![s] = @ + 1] /\ value[s] < MaxValue[s] /\ UNCHANGED waitCall
      BY <3>1 DEF PostCount
    <3> QED
      BY <1>0, <3>2, WaitAssumption DEF WaitVarsOK
  <2>6. CASE MutexStep \/ MutexCalled \/ StutterKind \/ WakeKind \/ WakeEnd
    <3>1. UNCHANGED <<value, waitCall>>
      BY <2>6 DEF MutexStep, MutexCalled, StutterKind, WakeKind, WakeEnd, waitVars
    <3> QED
      BY <2>1, <3>1
  <2>7. CASE \E q \in SleepQ, t \in Task : Unready(q, t)
    <3>1. UNCHANGED <<value, waitCall>>
      BY <2>7 DEF Unready
    <3> QED
      BY <2>1, <3>1
  <2> QED
    BY <1>1, <2>2, <2>3, <2>4, <2>5, <2>6, <2>7 DEF WaitKind
<1>3. flow' \in [Task -> Flow]
  BY FlowStep
<1> QED
  BY <1>2, <1>3 DEF WaitVarsOK

LEMMA WaitInitial == WaitInit => IInv /\ WaitVarsOK /\ SuspendedInv
<1> SUFFICES ASSUME WaitInit PROVE IInv /\ WaitVarsOK /\ SuspendedInv
  OBVIOUS
<1>1. IInv
  BY InitInv DEF WaitInit
<1>2. WaitVarsOK
  <2>1. NoFlow \in Flow
    BY DEF NoFlow, Flow, DoneFlow
  <2> QED
    BY <2>1 DEF WaitInit, WaitVarsOK
<1>3. ExpiredInv
  BY DEF WaitInit, Init, ExpiredInv
<1>4. ASSUME NEW t \in Task PROVE PendInv(t)
  <2>1. status[t] \in {"RUNNING", "READY"}
    BY SchedInitInv DEF WaitInit, Init
  <2> QED
    BY <2>1 DEF WaitInit, Init, PendInv, Suspended
<1> QED
  BY <1>1, <1>2, <1>3, <1>4 DEF SuspendedInv

LEMMA WaitStep ==
    ASSUME IInv, WaitVarsOK, SuspendedInv, [WaitNext]_allVars
    PROVE  IInv' /\ WaitVarsOK' /\ SuspendedInv' /\ SemaphoreStep
<1>1. CASE WaitNext
  <2>1. WaitKind
    BY <1>1, WaitKinds
  <2>2. IInv'
    BY <2>1, WaitKindInv
  <2>3. WaitVarsOK'
    BY <1>1, WaitVarsStep
  <2> QED
    BY <2>1, <2>2, <2>3, WaitKindStep
<1>2. CASE UNCHANGED allVars
  <2>1. UNCHANGED vars /\ UNCHANGED value /\ UNCHANGED waitCall /\ UNCHANGED flow
    BY <1>2 DEF allVars, waitVars
  <2>2. WaitVarsOK'
    BY <2>1 DEF WaitVarsOK
  <2>3. IInv' /\ StutterKind
    BY <2>1, StutterInv DEF StutterKind
  <2> QED
    BY <2>2, <2>3, AsideWait
<1> QED
  BY <1>1, <1>2

(* The scheduler's, the mutexes' and the tick's invariant holds with the   *)
(* semaphores, sleep queues and condition variables of ksema.c and         *)
(* ksleepq.c beside them, and so does what ties a suspended task to the    *)
(* queue of its call.                                                      *)
THEOREM WaitInvariance == WaitSpec => [](IInv /\ WaitVarsOK /\ SuspendedInv)
<1>1. IInv /\ WaitVarsOK /\ SuspendedInv /\ [WaitNext]_allVars
        => (IInv /\ WaitVarsOK /\ SuspendedInv)'
  BY WaitStep
<1> QED
  BY WaitInitial, <1>1, PTL DEF WaitSpec

(* The semaphores of ksema.c, and the sleep queues as semaphores without   *)
(* tokens, keep the promise of RK0Semaphore: every post is given to one    *)
(* waiter or kept as one token, and a pend that timed out consumed none.   *)
THEOREM SemaphoreImplements == WaitSpec => ImplementsSemaphore
<1>1. WaitInit => SemaphorePromise!AbsInit
  <2> SUFFICES ASSUME WaitInit PROVE SemaphorePromise!AbsInit
    OBVIOUS
  <2>1. waitCall = [t \in Task |-> NoQueue] /\ value = InitValue
    BY DEF WaitInit
  <2>2. \A t \in Task : WaitCallOf(t) = "idle"
    BY <2>1 DEF WaitCallOf
  <2> QED
    BY <2>1, <2>2 DEF SemaphorePromise!AbsInit
<1>2. IInv /\ WaitVarsOK /\ SuspendedInv /\ [WaitNext]_allVars
        => [SemaphorePromise!AbsNext]_(SemaphorePromise!absVars)
  BY WaitStep DEF SemaphoreStep, semaVars, waitState, SemaphorePromise!absVars
<1> QED
  BY <1>1, <1>2, WaitInvariance, PTL
     DEF WaitSpec, ImplementsSemaphore, SemaphorePromise!AbsSpec

(* The queues that link a task. *)
Places(t) == {p \in Prio : Contains(readyQueue[p], t)}
                 \cup {q \in Mutex \cup Queue : Contains(waitingQueue[q], t)}

LEMMA PlacesOf ==
    ASSUME IInv, NEW t \in Task
    PROVE  /\ \A p \in Prio : Contains(readyQueue[p], t) <=>
                                status[t] = "READY" /\ priority[t] = p
           /\ \A q \in Mutex \cup Queue : Contains(waitingQueue[q], t) <=>
                                            t \in ToSet(waitingQueue[q])
<1>1. ASSUME NEW p \in Prio
      PROVE  Contains(readyQueue[p], t) <=> status[t] = "READY" /\ priority[t] = p
  <2>1. readyQueue[p] \in Seq(Task)
    BY DEF IInv, TypeOK, SchedTypeOK
  <2> QED
    BY <2>1, InToSet DEF IInv, ReadyInv
<1>2. ASSUME NEW q \in Mutex \cup Queue
      PROVE  Contains(waitingQueue[q], t) <=> t \in ToSet(waitingQueue[q])
  <2>1. waitingQueue[q] \in Seq(Task)
    BY DEF IInv, TypeOK
  <2> QED
    BY <2>1, InToSet
<1> QED
  BY <1>1, <1>2

(* A task that waits is linked in no ready queue, and in one other at most. *)
LEMMA AsleepPlaces ==
    ASSUME IInv, NEW t \in Task, NEW q \in Mutex \cup Queue, t \in ToSet(waitingQueue[q])
    PROVE  Places(t) = {q}
<1>1. LinkInv(t, q)
  BY DEF IInv, WaitInv
<1>2. status[t] # "READY"
  BY <1>1 DEF LinkInv, Asleep, Suspended
<1>3. \A r \in Mutex \cup Queue : Contains(waitingQueue[r], t) <=> r = q
  BY <1>1, PlacesOf DEF LinkInv
<1> QED
  BY <1>2, <1>3, PlacesOf DEF Places

(* One that does not wait is linked in the ready queue of its level if it  *)
(* is READY, and nowhere else.                                             *)
LEMMA AwakePlaces ==
    ASSUME IInv, NEW t \in Task, status[t] \notin Asleep
    PROVE  Places(t) = IF status[t] = "READY" THEN {priority[t]} ELSE {}
<1>1. \A q \in Mutex \cup Queue : ~Contains(waitingQueue[q], t)
  BY PlacesOf DEF IInv, WaitInv, LinkInv
<1>2. priority[t] \in Prio
  BY DEF IInv, TypeOK, SchedTypeOK
<1> QED
  BY <1>1, <1>2, PlacesOf DEF Places

LEMMA OpenLinked ==
    ASSUME IInv, WaitVarsOK, SuspendedInv, section = "open", NEW t \in Task
    PROVE  /\ \A p \in Prio : Linked(readyQueue[p], t) <= 1
           /\ \A q \in Mutex \cup Queue : Linked(waitingQueue[q], t) <= 1
           /\ CASE status[t] \in {"RUNNING", "SLEEPING_DELAY"} -> Places(t) = {}
                [] status[t] = "READY" -> Places(t) = {priority[t]}
                [] status[t] \in Suspended -> Places(t) = {IF lockCall[t] # NoMutex
                                                            THEN lockCall[t] ELSE waitCall[t]}
                [] OTHER -> Cardinality(Places(t)) = 1 /\ Places(t) \subseteq SleepQ
<1>1. ASSUME NEW p \in Prio PROVE Linked(readyQueue[p], t) <= 1
  <2>1. readyQueue[p] \in Seq(Task) /\ IsInjective(readyQueue[p])
    BY DEF IInv, TypeOK, SchedTypeOK, ReadyInv
  <2>2. Linked(readyQueue[p], t) \in {0, 1}
    BY <2>1, LinkedOnce
  <2> QED
    BY <2>2
<1>2. ASSUME NEW q \in Mutex \cup Queue PROVE Linked(waitingQueue[q], t) <= 1
  <2>1. waitingQueue[q] \in Seq(Task) /\ IsInjective(waitingQueue[q])
    BY DEF IInv, TypeOK, WaitInv
  <2>2. Linked(waitingQueue[q], t) \in {0, 1}
    BY <2>1, LinkedOnce
  <2> QED
    BY <2>2
<1>3. PendInv(t) /\ ~Dropped(t) /\ ~Given(t)
  BY DEF SuspendedInv, Dropped, Given
<1>4. status[t] \in {"READY", "RUNNING", "SLEEPING_DELAY", "SLEEPQ_BLOCKED"} \cup Suspended
  BY DEF IInv, TypeOK, SchedTypeOK, Status, Suspended
<1>5. CASE status[t] \in {"RUNNING", "SLEEPING_DELAY"}
  <2>1. Places(t) = {}
    BY <1>5, AwakePlaces DEF Asleep, Suspended
  <2> QED
    BY <1>1, <1>2, <1>5, <2>1 DEF Suspended
<1>6. CASE status[t] = "READY"
  <2>1. Places(t) = {priority[t]}
    BY <1>6, AwakePlaces DEF Asleep, Suspended
  <2> QED
    BY <1>1, <1>2, <1>6, <2>1 DEF Suspended
<1>7. CASE status[t] \in Suspended
  <2> DEFINE q == IF lockCall[t] # NoMutex THEN lockCall[t] ELSE waitCall[t]
  <2>1. q \in Mutex \cup Queue /\ t \in ToSet(waitingQueue[q])
    <3>1. CASE lockCall[t] # NoMutex
      BY <1>3, <1>7, <3>1 DEF IInv, TypeOK, LockerInv
    <3>2. CASE lockCall[t] = NoMutex
      BY <1>3, <1>7, <3>2 DEF PendInv, WaitVarsOK
    <3> QED
      BY <3>1, <3>2
  <2>2. Places(t) = {q}
    BY <2>1, AsleepPlaces
  <2> QED
    BY <1>1, <1>2, <1>7, <2>2 DEF Suspended
<1>8. CASE status[t] = "SLEEPQ_BLOCKED"
  <2>1. PICK q \in SleepQ : t \in ToSet(waitingQueue[q])
    BY <1>3, <1>8 DEF PendInv
  <2>2. Places(t) = {q}
    BY <2>1, AsleepPlaces
  <2>3. Cardinality(Places(t)) = 1 /\ Places(t) \subseteq SleepQ
    BY <2>2, FS_Singleton
  <2> QED
    BY <1>1, <1>2, <1>8, <2>3 DEF Suspended
<1> QED
  BY <1>4, <1>5, <1>6, <1>7, <1>8

(* A task's node is linked once, and where its status and its call say:    *)
(* also when wake-ups, expired waits, kSleepQueueUnready and inheritance   *)
(* compete for it.                                                         *)
THEOREM LinkedSafe == WaitSpec => []LinkedWhereItWaits
<1>1. IInv /\ WaitVarsOK /\ SuspendedInv => LinkedWhereItWaits
  <2> SUFFICES ASSUME IInv, WaitVarsOK, SuspendedInv PROVE LinkedWhereItWaits
    OBVIOUS
  <2>1. WaitTypeOK
    <3>1. \A s \in Sema : value[s] \in 0 .. MaxValue[s]
      BY DEF WaitVarsOK
    <3>2. \A t \in Task : flow[t].at \in {"none", "wakelock", "wake", "wakeunlock", "release",
                                          "sleep", "relock", "leave", "panic"}
      BY DEF WaitVarsOK, Flow, DoneFlow, WakeFlow, CondFlow
    <3> QED
      BY <3>1, <3>2 DEF WaitTypeOK, WaitVarsOK, IInv
  <2>2. ASSUME section = "open", NEW t \in Task
        PROVE  LET places == {p \in Prio : Contains(readyQueue[p], t)}
                                \cup {q \in Mutex \cup Queue : Contains(waitingQueue[q], t)}
               IN  /\ \A p \in Prio : Linked(readyQueue[p], t) <= 1
                   /\ \A q \in Mutex \cup Queue : Linked(waitingQueue[q], t) <= 1
                   /\ CASE status[t] \in {"RUNNING", "SLEEPING_DELAY"} -> places = {}
                        [] status[t] = "READY" -> places = {priority[t]}
                        [] status[t] \in Suspended -> places = {IF lockCall[t] # NoMutex
                                                                 THEN lockCall[t]
                                                                 ELSE waitCall[t]}
                        [] OTHER -> Cardinality(places) = 1 /\ places \subseteq SleepQ
    BY <2>2, OpenLinked DEF Places
  <2> QED
    BY <2>1, <2>2 DEF LinkedWhereItWaits
<1> QED
  BY WaitInvariance, <1>1, PTL

(***************************************************************************)
(* Condition variables and flushes: what a call of several sections holds. *)
(***************************************************************************)

(* How deep a task has the scheduler locked. *)
Depth(t) == IF t = runPtr THEN schLock ELSE tcbSchLock[t]

LockedSteps == {"wake", "wakeunlock", "release", "sleep", "relock", "leave"}

DepthInv(t) == t \in Preemptible /\ flow[t].at \in LockedSteps => Depth(t) > 0

(* What holds the processor: the call that is to release the mutex and to  *)
(* sleep, and a flush by a task that may be preempted, in its loop.        *)
HeldInv(t) ==
    /\ flow[t].at \in {"release", "sleep"} =>
         t = runPtr /\ status[t] = "RUNNING" /\ ~pendSV
    /\ flow[t].at = "wake" /\ t \in Preemptible =>
         /\ t = runPtr /\ status[t] \in {"READY", "RUNNING"} /\ ~pendSV
         /\ lockCall[t] = NoMutex /\ section \in {"open", "tick", "ticked", "expire"}

(* A task that has asked for the mutex back has it, or waits for it        *)
(* without a deadline.                                                     *)
LeaveInv(t) ==
    flow[t].at = "leave" =>
        /\ lockCall[t] = NoMutex => ownerPtr[flow[t].m] = t
        /\ lockCall[t] # NoMutex =>
             /\ lockCall[t] = flow[t].m
             /\ timeoutType[t] = "none" /\ ~timeOut[t] /\ ~Dropped(t)
             /\ t \in ToSet(waitingQueue[lockCall[t]]) \/ ownerPtr[lockCall[t]] = t

ChainClosed == section \in {"open", "tick", "ticked"} => chainPtr = NoTask

FlowInv == ChainClosed /\ \A t \in Task : DepthInv(t) /\ HeldInv(t) /\ LeaveInv(t)

(* A step leaves a call where it is. *)
SameFlow(t) == flow'[t].at = flow[t].at /\ (flow[t].at = "leave" => flow'[t].m = flow[t].m)

SleepKeeps ==
    \E q \in SleepQ : \/ Signal(q)
                      \/ \E timed \in BOOLEAN : Sleep(q, timed)
                      \/ \E t \in Task : SleepQueueReady(q, t) \/ Unready(q, t)

LEMMA NotDueSame ==
    ASSUME WaitVarsOK, NEW t \in Task, flow' = NotDue(flow, t)
    PROVE  \A u \in Task : SameFlow(u)
<1>1. \A u \in Task : flow[u].at = "leave" => flow[u] \notin WakeFlow
  BY DEF WaitVarsOK, WakeFlow
<1> QED
  BY <1>1, NotDueFlow DEF WaitVarsOK, SameFlow

LEMMA SameFlows ==
    ASSUME IInv, WaitVarsOK,
           MutexStep \/ MutexCall \/ Resume \/ SemaStep \/ SleepKeeps \/ WakeNext
    PROVE  \A t \in Task : SameFlow(t)
<1>0. runPtr \in Task /\ flow \in [Task -> Flow]
  BY DEF IInv, TypeOK, SchedTypeOK, WaitVarsOK
<1>1. CASE UNCHANGED flow
  BY <1>1 DEF SameFlow
<1>2. CASE MutexStep \/ MutexCall \/ SemaStep
  BY <1>1, <1>2 DEF MutexStep, MutexCall, SemaStep, PendTake, PendBlock, PostWake, PostCount,
                    waitVars
<1>3. CASE Resume
  <2>1. CASE flow[runPtr].at = "relock"
    <3>1. PICK b : flow' = [flow EXCEPT ![runPtr] = [flow[runPtr] EXCEPT !.expired = b]]
      BY <1>3, <2>1 DEF Resume
    <3>2. flow[runPtr] \in CondFlow
      BY <1>0, <2>1, FlowKind
    <3>3. [flow[runPtr] EXCEPT !.expired = b].at = "relock"
      BY <2>1, <3>2 DEF CondFlow
    <3> QED
      BY <1>0, <2>1, <3>1, <3>3 DEF SameFlow
  <2> QED
    BY <1>1, <1>3, <2>1 DEF Resume
<1>4. CASE SleepKeeps
  <2>1. ASSUME NEW q \in SleepQ, NEW t \in Task, Unready(q, t) PROVE \A u \in Task : SameFlow(u)
    BY <2>1, NotDueSame DEF Unready
  <2>2. ASSUME NEW q \in SleepQ, NEW timed \in BOOLEAN, Sleep(q, timed)
        PROVE  \A u \in Task : SameFlow(u)
    BY <1>0, <2>2, NotDueSame DEF Sleep
  <2> QED
    BY <1>1, <1>4, <2>1, <2>2 DEF SleepKeeps, Signal, SleepQueueReady, waitVars
<1>5. CASE WakeNext
  <2>1. flow[runPtr].at = "wake" /\ flow[runPtr] \in WakeFlow
    BY <1>0, <1>5, FlowKind DEF WakeNext, At
  <2> DEFINE g == [flow[runPtr] EXCEPT !.left = flow[runPtr].left - 1]
             flow1 == [flow EXCEPT ![runPtr] = g]
  <2>2. PICK c : flow' = [flow1 EXCEPT ![runPtr] = [flow1[runPtr] EXCEPT !.chosen = c]]
    BY <1>5 DEF WakeNext
  <2>3. flow1[runPtr] = g /\ DOMAIN flow1 = Task /\ \A u \in Task \ {runPtr} : flow1[u] = flow[u]
    BY <1>0
  <2>4. [g EXCEPT !.chosen = c].at = "wake"
    BY <2>1 DEF WakeFlow
  <2> HIDE DEF g, flow1
  <2>5. flow'[runPtr].at = "wake" /\ \A u \in Task \ {runPtr} : flow'[u] = flow[u]
    BY <1>0, <2>2, <2>3, <2>4
  <2> QED
    BY <2>1, <2>5 DEF SameFlow
<1> QED
  BY <1>2, <1>3, <1>4, <1>5

(* The running task takes a step of its call. *)
MovesTo(from, to) ==
    /\ flow[runPtr].at \in from /\ flow'[runPtr].at \in to
    /\ \A t \in Task \ {runPtr} : SameFlow(t)

LEMMA GoToMoves ==
    ASSUME IInv, WaitVarsOK, NEW from, NEW to, At(from), GoTo(to),
           \/ /\ from \in {"wakelock", "wake", "wakeunlock"}
              /\ to \in {"wakelock", "wake", "wakeunlock"}
           \/ /\ from \in {"release", "sleep", "relock", "leave"}
              /\ to \in {"release", "sleep", "relock", "leave"}
    PROVE  /\ MovesTo({from}, {to})
           /\ from \in {"release", "sleep", "relock", "leave"} =>
                flow'[runPtr].m = flow[runPtr].m
<1>0. runPtr \in Task /\ flow \in [Task -> Flow] /\ flow[runPtr].at = from
  BY DEF IInv, TypeOK, SchedTypeOK, WaitVarsOK, At
<1> DEFINE g == [flow[runPtr] EXCEPT !.at = to]
<1>1. flow' = [flow EXCEPT ![runPtr] = g]
  BY DEF GoTo
<1>2. g.at = to
  BY <1>0, FlowKind, FlowGoes
<1>3. from \in {"release", "sleep", "relock", "leave"} => g.m = flow[runPtr].m
  BY <1>0, FlowKind DEF CondFlow
<1> HIDE DEF g
<1>4. flow'[runPtr] = g /\ \A t \in Task \ {runPtr} : flow'[t] = flow[t]
  BY <1>0, <1>1
<1> QED
  BY <1>0, <1>2, <1>3, <1>4 DEF MovesTo, SameFlow

(* A call ends, or starts, or stops for good. *)
LEMMA SetsFlow ==
    ASSUME IInv, WaitVarsOK, NEW from, NEW f, At(from), flow' = [flow EXCEPT ![runPtr] = f]
    PROVE  MovesTo({from}, {f.at})
  BY DEF IInv, TypeOK, SchedTypeOK, WaitVarsOK, At, MovesTo, SameFlow

LEMMA CondSleepMoves ==
    ASSUME IInv, WaitVarsOK, CondSleep \/ CondTooLate
    PROVE  MovesTo({"sleep"}, {"relock"})
<1>0. runPtr \in Task /\ flow \in [Task -> Flow]
  BY DEF IInv, TypeOK, SchedTypeOK, WaitVarsOK
<1> DEFINE f == flow[runPtr]
<1>1. f.at = "sleep" /\ f \in CondFlow
  BY <1>0, FlowKind DEF CondSleep, CondTooLate, At
<1>2. CASE CondSleep
  <2> DEFINE n == NotDue(flow, runPtr)
  <2>1. n \in [Task -> Flow] /\ n[runPtr] = f /\ \A t \in Task : n[t].at = flow[t].at
    <3>1. f \notin WakeFlow
      BY <1>1 DEF CondFlow, WakeFlow
    <3> QED
      BY <1>0, <3>1, NotDueFlow
  <2>2. \A t \in Task : flow[t].at = "leave" => n[t].m = flow[t].m
    <3>1. \A t \in Task : flow[t].at = "leave" => flow[t] \notin WakeFlow
      BY DEF WakeFlow
    <3> QED
      BY <1>0, <3>1, NotDueFlow
  <2>3. flow' = [n EXCEPT ![runPtr] = [n[runPtr] EXCEPT !.at = "relock"]]
    BY <1>2 DEF CondSleep
  <2> HIDE DEF n
  <2>4. [f EXCEPT !.at = "relock"].at = "relock"
    BY <1>0, <1>1, FlowGoes
  <2> HIDE DEF f
  <2>5. flow'[runPtr].at = "relock" /\ \A t \in Task \ {runPtr} : flow'[t] = n[t]
    BY <1>0, <2>1, <2>3, <2>4
  <2> QED
    BY <1>1, <2>1, <2>2, <2>5 DEF MovesTo, SameFlow, f
<1>3. CASE CondTooLate
  <2> DEFINE g == [f EXCEPT !.at = "relock"]
             flow1 == [flow EXCEPT ![runPtr] = g]
  <2>1. flow' = [flow1 EXCEPT ![runPtr] = [flow1[runPtr] EXCEPT !.expired = TRUE]]
    BY <1>3 DEF CondTooLate
  <2>2. g \in CondFlow /\ g.at = "relock"
    BY <1>1 DEF CondFlow
  <2> HIDE DEF g
  <2>3. flow1[runPtr] = g /\ DOMAIN flow1 = Task /\ \A t \in Task \ {runPtr} : flow1[t] = flow[t]
    BY <1>0
  <2>4. [g EXCEPT !.expired = TRUE].at = "relock"
    BY <2>2 DEF CondFlow
  <2> HIDE DEF flow1
  <2>5. flow'[runPtr].at = "relock" /\ \A t \in Task \ {runPtr} : flow'[t] = flow[t]
    BY <1>0, <2>1, <2>3, <2>4
  <2> QED
    BY <1>1, <2>5 DEF MovesTo, SameFlow
<1> QED
  BY <1>2, <1>3

LEMMA OwnMoves ==
    ASSUME IInv, WaitVarsOK
    PROVE  /\ \A q \in SleepQ, n \in {0, 1} : WakeStart(q, n) => MovesTo({"none"}, {"wakelock"})
           /\ WakeLock => MovesTo({"wakelock"}, {"wake"})
           /\ WakeEnd => MovesTo({"wake"}, {"wakeunlock"})
           /\ WakeUnlock => MovesTo({"wakeunlock"}, {"none"})
           /\ \A q \in SleepQ, m \in Mutex, timed \in BOOLEAN :
                CondWait(q, m, timed) => MovesTo({"none"}, {"release"})
           /\ CondRelease => MovesTo({"release"}, {"sleep"})
           /\ CondRelock => MovesTo({"relock"}, {"leave"}) /\ flow'[runPtr].m = flow[runPtr].m
           /\ CondLeave => MovesTo({"leave"}, {"none", "panic"})
<1>1. ASSUME NEW q \in SleepQ, NEW n \in {0, 1}, WakeStart(q, n)
      PROVE  MovesTo({"none"}, {"wakelock"})
  <2>1. PICK l, d : flow' = [flow EXCEPT ![runPtr] =
                       [at |-> "wakelock", q |-> q, chosen |-> NoTask, left |-> l, due |-> d]]
    BY <1>1 DEF WakeStart
  <2> DEFINE f == [at |-> "wakelock", q |-> q, chosen |-> NoTask, left |-> l, due |-> d]
  <2>2. f.at = "wakelock" /\ At("none")
    BY <1>1 DEF WakeStart
  <2>3. flow' = [flow EXCEPT ![runPtr] = f]
    BY <2>1
  <2> HIDE DEF f
  <2> QED
    BY <2>2, <2>3, SetsFlow
<1>2. WakeLock => MovesTo({"wakelock"}, {"wake"})
  BY GoToMoves DEF WakeLock
<1>3. WakeEnd => MovesTo({"wake"}, {"wakeunlock"})
  BY GoToMoves DEF WakeEnd
<1>4. WakeUnlock => MovesTo({"wakeunlock"}, {"none"})
  <2>1. NoFlow.at = "none"
    BY DEF NoFlow
  <2> QED
    BY <2>1, SetsFlow DEF WakeUnlock
<1>5. ASSUME NEW q \in SleepQ, NEW m \in Mutex, NEW timed \in BOOLEAN, CondWait(q, m, timed)
      PROVE  MovesTo({"none"}, {"release"})
  <2> DEFINE f == [at |-> "release", q |-> q, m |-> m, timed |-> timed, expired |-> FALSE]
  <2>1. f.at = "release" /\ At("none") /\ flow' = [flow EXCEPT ![runPtr] = f]
    BY <1>5 DEF CondWait
  <2> HIDE DEF f
  <2> QED
    BY <2>1, SetsFlow
<1>6. CondRelease => MovesTo({"release"}, {"sleep"})
  BY GoToMoves DEF CondRelease
<1>7. CondRelock => MovesTo({"relock"}, {"leave"}) /\ flow'[runPtr].m = flow[runPtr].m
  BY GoToMoves DEF CondRelock
<1>8. ASSUME CondLeave PROVE MovesTo({"leave"}, {"none", "panic"})
  <2>1. PICK f \in {NoFlow, [at |-> "panic"]} : flow' = [flow EXCEPT ![runPtr] = f]
    BY <1>8 DEF CondLeave
  <2>2. f.at \in {"none", "panic"} /\ At("leave")
    BY <1>8 DEF NoFlow, CondLeave
  <2>3. MovesTo({"leave"}, {f.at})
    BY <2>1, <2>2, SetsFlow
  <2> QED
    BY <2>2, <2>3 DEF MovesTo
<1> QED
  BY <1>1, <1>2, <1>3, <1>4, <1>5, <1>6, <1>7, <1>8

Starts == \E q \in SleepQ : \/ \E n \in {0, 1} : WakeStart(q, n)
                            \/ \E m \in Mutex, timed \in BOOLEAN : CondWait(q, m, timed)

LEMMA WaitActs ==
    ASSUME WaitNext
    PROVE  \/ MutexStep \/ MutexCall \/ Resume \/ SemaStep \/ SleepKeeps \/ WakeNext
           \/ Starts \/ WakeLock \/ WakeEnd \/ WakeUnlock
           \/ CondRelease \/ CondSleep \/ CondTooLate \/ CondRelock \/ CondLeave
  BY DEF WaitNext, SleepStep, CondStep, SleepKeeps, Starts

(***************************************************************************)
(* The scheduler stays locked.                                             *)
(***************************************************************************)
depthVars == <<tcbSchLock, runPtr, schLock>>

LEMMA DepthStill ==
    ASSUME \/ MutexStep \/ Resume \/ SemaStep \/ SleepKeeps \/ WakeNext \/ WakeEnd
           \/ \E q \in SleepQ, n \in {0, 1} : WakeStart(q, n)
           \/ CondRelease \/ CondSleep \/ CondTooLate \/ CondRelock
    PROVE  UNCHANGED depthVars \/ PendSV
<1>1. CASE MutexStep
  BY <1>1 DEF MutexStep, LockPend, LockResumeExpired, LockTimeout, LockSuccess,
     UnlockUpdateNewOwner, UnlockReady, UnlockDone, SysTick, Tick, ExpireReady, TickEnd,
     ExpireDelay, ExpireWait, ReadyExpired, ChainStep, schedVars, depthVars
<1>2. CASE Resume \/ \E q \in SleepQ, n \in {0, 1} : WakeStart(q, n)
  BY <1>2 DEF Resume, WakeStart, vars, schedVars, depthVars
<1>3. CASE SemaStep
  BY <1>3 DEF SemaStep, PendTake, PendBlock, PostWake, PostCount, Suspend, WakeSwtch, RestBut,
     vars, schedVars, depthVars
<1>4. CASE SleepKeeps
  BY <1>4 DEF SleepKeeps, Signal, Sleep, SleepQueueReady, Unready, Suspend, WakeSwtch, RestBut,
     depthVars
<1>5. CASE WakeNext \/ WakeEnd
  BY <1>5 DEF WakeNext, WakeEnd, RestBut, Rest, depthVars
<1>6. CASE CondRelease \/ CondRelock
  BY <1>6 DEF CondRelease, CondRelock, UnlockFree, UnlockHandOff, LockFree, LockBlock,
     schedVars, depthVars
<1>7. CASE CondSleep \/ CondTooLate
  BY <1>7 DEF CondSleep, CondTooLate, Suspend, RestBut, vars, schedVars, depthVars
<1> QED
  BY <1>1, <1>2, <1>3, <1>4, <1>5, <1>6, <1>7

(* A switch saves the depth of one task and restores that of the next.     *)
LEMMA DepthMoves ==
    ASSUME SchedTypeOK, NEW t \in Task
    PROVE  /\ UNCHANGED depthVars \/ PendSV \/ Yield => Depth(t)' = Depth(t)
           /\ SchLock => IF t = runPtr THEN Depth(t)' > 0 ELSE Depth(t)' = Depth(t)
           /\ SchUnlock /\ t # runPtr => Depth(t)' = Depth(t)
<1>0. runPtr \in Task /\ tcbSchLock \in [Task -> Nat] /\ schLock \in Nat
  BY DEF SchedTypeOK
<1>1. ASSUME PendSV PROVE Depth(t)' = Depth(t)
  <2>1. PICK next : /\ runPtr' = next
                    /\ tcbSchLock' = [tcbSchLock EXCEPT ![runPtr] = schLock]
                    /\ schLock' = IF next = runPtr THEN schLock ELSE tcbSchLock[next]
    BY <1>1 DEF PendSV, Swtch
  <2> QED
    BY <1>0, <2>1 DEF Depth
<1>2. ASSUME UNCHANGED depthVars \/ Yield PROVE Depth(t)' = Depth(t)
  BY <1>2 DEF depthVars, Yield, Depth
<1>3. ASSUME SchLock \/ SchUnlock
      PROVE  /\ t # runPtr => Depth(t)' = Depth(t)
             /\ SchLock /\ t = runPtr => Depth(t)' > 0
  BY <1>0, <1>3 DEF SchLock, SchUnlock, Depth
<1> QED
  BY <1>1, <1>2, <1>3

LEMMA LockCallsDepth ==
    ASSUME SchedTypeOK, LockCalls \/ UnlockCalls, NEW t \in Task
    PROVE  /\ t # runPtr => Depth(t)' = Depth(t)
           /\ LockCalls /\ t = runPtr /\ t \in Preemptible => Depth(t)' > 0
  BY DepthMoves DEF LockCalls, UnlockCalls, schedVars, depthVars

LEMMA DepthStep ==
    ASSUME IInv, WaitVarsOK, FlowInv, WaitNext, NEW t \in Task
    PROVE  DepthInv(t)'
<1>0. SchedTypeOK /\ runPtr \in Task /\ DepthInv(t)
  BY DEF IInv, TypeOK, SchedTypeOK, FlowInv
<1> SUFFICES ASSUME t \in Preemptible, flow'[t].at \in LockedSteps PROVE Depth(t)' > 0
  BY DEF DepthInv
<1>1. ASSUME SameFlow(t), Depth(t)' = Depth(t) PROVE Depth(t)' > 0
  BY <1>0, <1>1 DEF DepthInv, SameFlow
<1>2. CASE \/ MutexStep \/ Resume \/ SemaStep \/ SleepKeeps \/ WakeNext
  BY <1>0, <1>1, <1>2, DepthStill, DepthMoves, SameFlows
<1>3. CASE MutexCall
  <2>1. SameFlow(t) /\ flow[runPtr].at = "none"
    BY <1>3, SameFlows DEF MutexCall, At
  <2>2. t # runPtr
    BY <2>1 DEF SameFlow, LockedSteps
  <2>3. UNCHANGED depthVars \/ Yield \/ SchLock \/ SchUnlock
    BY <1>3 DEF MutexCall, TaskCall, LockFree, UnlockFree, UnlockHandOff, LockBlock, SleepDelay,
                schedVars, depthVars
  <2> QED
    BY <1>0, <1>1, <2>1, <2>2, <2>3, DepthMoves
<1>4. ASSUME NEW from, NEW to, MovesTo(from, to), UNCHANGED depthVars \/ PendSV,
             to \cap LockedSteps = {} \/ from \subseteq LockedSteps
      PROVE  Depth(t)' > 0
  <2>1. Depth(t)' = Depth(t)
    BY <1>0, <1>4, DepthMoves
  <2>2. flow[t].at \in LockedSteps
    BY <1>4 DEF MovesTo, SameFlow
  <2> QED
    BY <1>0, <2>1, <2>2 DEF DepthInv
<1>5. ASSUME NEW from, NEW to, MovesTo(from, to), LockCalls \/ UnlockCalls,
             to \cap LockedSteps = {} \/ LockCalls
      PROVE  Depth(t)' > 0
  <2>1. CASE t = runPtr
    BY <1>0, <1>5, <2>1, LockCallsDepth DEF MovesTo
  <2>2. CASE t # runPtr
    BY <1>0, <1>1, <1>5, <2>2, LockCallsDepth DEF MovesTo
  <2> QED
    BY <2>1, <2>2
<1>6. CASE Starts
  <2>1. ASSUME NEW q \in SleepQ, NEW n \in {0, 1}, WakeStart(q, n) PROVE Depth(t)' > 0
    <3>1. {"wakelock"} \cap LockedSteps = {}
      BY DEF LockedSteps
    <3> QED
      BY <1>4, <2>1, <3>1, OwnMoves, DepthStill
  <2>2. ASSUME NEW q \in SleepQ, NEW m \in Mutex, NEW timed \in BOOLEAN, CondWait(q, m, timed)
        PROVE  Depth(t)' > 0
    BY <1>5, <2>2, OwnMoves DEF CondWait
  <2> QED
    BY <1>6, <2>1, <2>2 DEF Starts
<1>7. CASE WakeEnd \/ CondRelease \/ CondSleep \/ CondTooLate \/ CondRelock
  <2>1. PICK from \in {{"wake"}, {"release"}, {"sleep"}, {"relock"}},
             to \in {{"wakeunlock"}, {"sleep"}, {"relock"}, {"leave"}} : MovesTo(from, to)
    BY <1>7, OwnMoves, CondSleepMoves
  <2>2. from \subseteq LockedSteps
    BY <2>1 DEF LockedSteps
  <2> QED
    BY <1>4, <1>7, <2>1, <2>2, DepthStill
<1>8. CASE WakeLock
  BY <1>5, <1>8, OwnMoves DEF WakeLock
<1>9. CASE WakeUnlock \/ CondLeave
  <2>1. PICK from \in {{"wakeunlock"}, {"leave"}}, to \in {{"none"}, {"none", "panic"}} :
          MovesTo(from, to)
    BY <1>9, OwnMoves
  <2>2. to \cap LockedSteps = {} /\ UnlockCalls
    BY <1>9, <2>1 DEF LockedSteps, WakeUnlock, CondLeave
  <2> QED
    BY <1>5, <2>1, <2>2
<1> QED
  BY <1>2, <1>3, <1>6, <1>7, <1>8, <1>9, WaitActs

(***************************************************************************)
(* The processor is not taken from a task that holds it.                   *)
(***************************************************************************)
Holds ==
    /\ status[runPtr] \in {"READY", "RUNNING"} /\ ~pendSV
    /\ status[runPtr] = "RUNNING" \/ runPtr \in Preemptible
    /\ runPtr \in Preemptible => schLock > 0

Goes == UNCHANGED runPtr /\ status'[runPtr] = status[runPtr] /\ ~pendSV'

(* Under the scheduler lock a decision only defers; one about a task that  *)
(* may not be preempted decides nothing.                                   *)
LEMMA HeldDecision ==
    ASSUME SchedTypeOK, Holds, NEW p, NEW b,
           \/ UNCHANGED swtchVars \/ ReschedTask(p) \/ ReschedRunning(p) \/ TickResched(b)
    PROVE  ~pendSV'
<1>1. schLock > 0 => schLock # 0
  BY DEF SchedTypeOK
<1>2. CASE runPtr \in Preemptible
  <2>1. DeferCtxSwtch \/ UNCHANGED swtchVars
    BY <1>1, <1>2, Zenon DEF Holds, ReschedTask, ReschedRunning, TickResched, PendCtxSwtch
  <2> QED
    BY <2>1, Zenon DEF Holds, DeferCtxSwtch, swtchVars
<1>3. CASE runPtr \notin Preemptible
  <2>1. UNCHANGED swtchVars
    <3>1. status[runPtr] = "RUNNING"
      BY <1>3, Zenon DEF Holds
    <3> QED
      BY <1>3, <3>1, Zenon DEF ReschedTask, ReschedRunning, TickResched
  <2> QED
    BY <2>1, Zenon DEF Holds, swtchVars
<1> QED
  BY <1>2, <1>3

LEMMA HeldMutexStep ==
    ASSUME IInv, Holds, MutexStep
    PROVE  Goes
<1>0. SchedTypeOK /\ runPtr \in Task /\ status \in [Task -> Status]
  BY DEF IInv, TypeOK, SchedTypeOK
<1>1. section # "lock"
  BY DEF Holds, IInv, RunInv
<1>2. ~PendSV
  BY DEF Holds, PendSV
<1>3. ASSUME UNCHANGED schedVars PROVE Goes
  BY <1>3 DEF schedVars, Holds, Goes
<1>4. CASE \/ LockPend \/ LockResumeExpired \/ LockTimeout \/ LockSuccess
           \/ UnlockUpdateNewOwner \/ UnlockDone \/ Tick \/ \E t \in Task : ExpireWait(t)
  BY <1>1, <1>3, <1>4 DEF LockPend, LockResumeExpired, LockTimeout, LockSuccess,
     UnlockUpdateNewOwner, UnlockDone, Tick, ExpireWait
<1>5. CASE TickEnd
  BY <1>0, <1>5, HeldDecision DEF TickEnd, Goes
<1>6. CASE UnlockReady
  <2>1. wakePtr \in Task /\ status[wakePtr] = "BLOCKED"
    BY <1>6 DEF UnlockReady, IInv, WakeInv, TypeOK
  <2>2. /\ UNCHANGED runPtr /\ ReschedTask(priority[wakePtr])
        /\ status' = [status EXCEPT ![wakePtr] = "READY"]
    BY <1>6 DEF UnlockReady, ReadySwtch, ReadyNoSwtch
  <2> QED
    BY <1>0, <2>1, <2>2, HeldDecision DEF Holds, Goes
<1>7. CASE ExpireReady \/ \E t \in Task : ExpireDelay(t)
  <2>1. PICK t \in Task : ReadyExpired(t) /\ status[t] \notin {"READY", "RUNNING"}
    <3>1. CASE ExpireReady
      <4>1. wakePtr \in Task /\ status[wakePtr] \in Suspended
        BY <3>1 DEF ExpireReady, IInv, WakeInv, TypeOK
      <4> QED
        BY <3>1, <4>1 DEF ExpireReady, Suspended
    <3>2. ASSUME NEW t \in Task, ExpireDelay(t)
          PROVE  ReadyExpired(t) /\ status[t] \notin {"READY", "RUNNING"}
      BY <3>2 DEF ExpireDelay, IInv, TimeoutInv
    <3> QED
      BY <1>7, <3>1, <3>2
  <2>2. UNCHANGED <<runPtr, pendSV>> /\ status' = [status EXCEPT ![t] = "READY"]
    BY <2>1 DEF ReadyExpired, swtchVars
  <2> QED
    BY <1>0, <2>1, <2>2 DEF Holds, Goes
<1>8. CASE ChainStep
  <2>1. UNCHANGED <<status, runPtr>>
    BY <1>8 DEF ChainStep, schedVars
  <2>2. PICK p : UNCHANGED swtchVars \/ ReschedTask(p) \/ ReschedRunning(p)
    BY <1>8 DEF ChainStep, schedVars, UpdateEffectivePrio, swtchVars
  <2>3. ~pendSV'
    BY <1>0, <2>2, HeldDecision
  <2> QED
    BY <2>1, <2>3 DEF Goes
<1> QED
  BY <1>2, <1>4, <1>5, <1>6, <1>7, <1>8 DEF MutexStep, SysTick

LEMMA HeldWoken ==
    ASSUME IInv, Holds, WakeKind
    PROVE  Goes
<1>1. PICK q \in Queue, w \in Task : Woken(w, q)
  BY DEF WakeKind
<1>2. status[w] \in Asleep
  BY <1>1, WokenFacts
<1>3. /\ UNCHANGED runPtr /\ status' = [status EXCEPT ![w] = "READY"]
      /\ UNCHANGED swtchVars \/ ReschedTask(priority[w])
  BY <1>1 DEF Woken, ReadyNoSwtch, RestBut
<1>4. SchedTypeOK /\ runPtr \in Task /\ status \in [Task -> Status]
  BY DEF IInv, TypeOK, SchedTypeOK
<1>5. ~pendSV'
  BY <1>3, <1>4, HeldDecision
<1> QED
  BY <1>2, <1>3, <1>4, <1>5 DEF Holds, Goes, Asleep, Suspended

LEMMA HeldAt ==
    ASSUME IInv, FlowInv, NEW t \in Task,
           flow[t].at \in {"release", "sleep"} \/ (flow[t].at = "wake" /\ t \in Preemptible)
    PROVE  t = runPtr /\ Holds
<1>1. DepthInv(t) /\ HeldInv(t)
  BY DEF FlowInv
<1>2. t = runPtr /\ status[t] \in {"READY", "RUNNING"} /\ ~pendSV
      /\ (status[t] = "RUNNING" \/ t \in Preemptible)
  BY <1>1 DEF HeldInv
<1>3. t \in Preemptible => schLock > 0
  BY <1>1, <1>2 DEF DepthInv, Depth, LockedSteps
<1> QED
  BY <1>2, <1>3 DEF Holds

(* What others, and interrupts, do meanwhile. *)
LEMMA HeldKeeps ==
    ASSUME IInv, WaitVarsOK, Holds, flow[runPtr].at # "none",
           MutexStep \/ MutexCall \/ Resume \/ SemaStep \/ SleepKeeps \/ WakeNext
    PROVE  /\ Goes
           /\ MutexStep \/ UNCHANGED <<section, lockCall>>
<1>0. runPtr \in Task /\ status \in [Task -> Status]
  BY DEF IInv, TypeOK, SchedTypeOK
<1>1. CASE MutexStep
  BY <1>1, HeldMutexStep
<1>2. CASE Resume
  BY <1>2 DEF Resume, schedVars, sectionVars, Holds, Goes
<1>3. CASE WakeKind
  <2>1. UNCHANGED <<section, lockCall>>
    BY <1>3 DEF WakeKind, Woken, RestBut, sectionVars
  <2> QED
    BY <1>3, <2>1, HeldWoken
<1>4. CASE SemaStep
  <2>1. CASE \E s \in Sema : PendTake(s) \/ PostCount(s)
    BY <2>1 DEF PendTake, PostCount, vars, schedVars, sectionVars, Holds, Goes
  <2>2. ~ \E s \in Sema, timed \in BOOLEAN : PendBlock(s, timed)
    BY DEF PendBlock, At
  <2> QED
    BY <1>3, <1>4, <2>1, <2>2, PostKinds DEF SemaStep
<1>5. CASE SleepKeeps
  <2>1. ASSUME NEW q \in SleepQ, NEW t \in Task, Unready(q, t)
        PROVE  Goes /\ UNCHANGED <<section, lockCall>>
    <3>1. /\ UNCHANGED <<runPtr, pendSV, section, lockCall>> /\ t # runPtr
          /\ status' = [status EXCEPT ![t] = "SLEEPQ_BLOCKED"]
      BY <2>1 DEF Unready, RestBut, swtchVars, sectionVars
    <3> QED
      BY <1>0, <3>1 DEF Holds, Goes
  <2>2. ~ \E q \in SleepQ, timed \in BOOLEAN : Sleep(q, timed)
    BY DEF Sleep, At
  <2> QED
    BY <1>3, <1>5, <2>1, <2>2, PostKinds DEF SleepKeeps
<1>6. ~MutexCall
  BY DEF MutexCall, At
<1> QED
  BY <1>1, <1>2, <1>3, <1>4, <1>5, <1>6, WakeNextWoken

LEMMA ClosedStep ==
    ASSUME ChainClosed, WaitKind
    PROVE  ChainClosed'
<1>1. ASSUME UNCHANGED sectionVars PROVE ChainClosed'
  BY <1>1 DEF sectionVars, ChainClosed
<1>2. CASE MutexStep
  BY <1>1, <1>2 DEF MutexStep, SysTick, LockPend, LockResumeExpired, LockTimeout, LockSuccess,
     UnlockUpdateNewOwner, UnlockReady, UnlockDone, Tick, TickEnd, ExpireDelay, ExpireWait,
     ExpireReady, ReadyExpired, ChainStep, Enter, Leave, ChainClosed
<1>3. CASE MutexCalled
  BY <1>1, <1>3 DEF MutexCalled, LockFree, UnlockFree, UnlockHandOff, LockBlock, SleepDelay,
     Enter, ChainClosed
<1>4. CASE StutterKind \/ SuspendKind \/ Resume \/ WakeKind \/ WakeEnd
           \/ (\E s \in Sema : PendTake(s) \/ PostCount(s))
           \/ (\E q \in SleepQ, t \in Task : Unready(q, t))
  BY <1>1, <1>4 DEF StutterKind, SuspendKind, Suspend, Resume, WakeKind, Woken, WakeEnd, PendTake,
     PostCount, Unready, Rest, RestBut, vars
<1> QED
  BY <1>2, <1>3, <1>4 DEF WaitKind

(* Only the tick opens a section while a flush is in its loop. *)
LEMMA HeldSection ==
    ASSUME IInv, ChainClosed, MutexStep, Holds, lockCall[runPtr] = NoMutex,
           section \in {"open", "tick", "ticked", "expire"}
    PROVE  /\ section' \in {"open", "tick", "ticked", "expire"}
           /\ UNCHANGED lockCall
           /\ Tick \/ TickEnd \/ (\E t \in Task : ExpireDelay(t) \/ ExpireWait(t))
                \/ ExpireReady \/ (ChainStep /\ section = "expire")
<1>1. \/ Tick \/ TickEnd \/ (\E t \in Task : ExpireDelay(t) \/ ExpireWait(t))
      \/ ExpireReady \/ (ChainStep /\ section = "expire")
  BY DEF MutexStep, SysTick, LockPend, LockResumeExpired, LockTimeout, LockSuccess,
         UnlockUpdateNewOwner, UnlockReady, UnlockDone, PendSV, ChainStep, ChainClosed, Holds
<1>2. section' \in {"open", "tick", "ticked", "expire"} /\ UNCHANGED lockCall
  BY <1>1 DEF Tick, TickEnd, ExpireDelay, ExpireWait, ExpireReady, ReadyExpired, ChainStep, Enter,
              Leave
<1> QED
  BY <1>1, <1>2

LEMMA HeldStep ==
    ASSUME IInv, WaitVarsOK, FlowInv, WaitNext, NEW t \in Task
    PROVE  HeldInv(t)'
<1>0. runPtr \in Task /\ DepthInv(t) /\ HeldInv(t)
  BY DEF IInv, TypeOK, SchedTypeOK, FlowInv
<1>1. ASSUME SameFlow(t), flow[t].at \notin {"release", "sleep", "wake"} PROVE HeldInv(t)'
  BY <1>1 DEF SameFlow, HeldInv
<1>2. ASSUME SameFlow(t), t # runPtr PROVE HeldInv(t)'
  BY <1>0, <1>2 DEF SameFlow, HeldInv
<1>3. CASE \/ MutexStep \/ MutexCall \/ Resume \/ SemaStep \/ SleepKeeps \/ WakeNext
  <2>1. SameFlow(t)
    BY <1>3, SameFlows
  <2>2. CASE /\ flow[t].at \in {"release", "sleep"} \/ (flow[t].at = "wake" /\ t \in Preemptible)
             /\ t = runPtr
    <3>1. Holds
      BY <2>2, HeldAt
    <3>2. Goes /\ (MutexStep \/ UNCHANGED <<section, lockCall>>)
      BY <1>3, <2>2, <3>1, HeldKeeps
    <3>3. flow[t].at = "wake" => lockCall'[t] = NoMutex
                                  /\ section' \in {"open", "tick", "ticked", "expire"}
      BY <1>0, <2>2, <3>1, <3>2, HeldSection DEF HeldInv, FlowInv
    <3> QED
      BY <1>0, <2>1, <2>2, <3>2, <3>3 DEF SameFlow, HeldInv, Goes
  <2>3. CASE flow[t].at \notin {"release", "sleep"} /\ ~(flow[t].at = "wake" /\ t \in Preemptible)
    BY <2>1, <2>3 DEF SameFlow, HeldInv
  <2> QED
    BY <1>2, <2>1, <2>2, <2>3
<1>4. ASSUME NEW from, NEW to, MovesTo(from, to), to \cap {"release", "sleep", "wake"} = {}
      PROVE  HeldInv(t)'
  <2>1. CASE t = runPtr
    BY <1>4, <2>1 DEF MovesTo, HeldInv
  <2> QED
    BY <1>2, <1>4, <2>1 DEF MovesTo
<1>5. CASE Starts
  <2>1. ASSUME NEW q \in SleepQ, NEW n \in {0, 1}, WakeStart(q, n) PROVE HeldInv(t)'
    BY <1>4, <2>1, OwnMoves
  <2>2. ASSUME NEW q \in SleepQ, NEW m \in Mutex, NEW timed \in BOOLEAN, CondWait(q, m, timed)
        PROVE  HeldInv(t)'
    <3>1. MovesTo({"none"}, {"release"})
      BY <2>2, OwnMoves
    <3>2. ~pendSV /\ status[runPtr] = "RUNNING" /\ LockCalls
      BY <2>2 DEF CondWait, At, Calling, Executing
    <3>3. UNCHANGED <<status, runPtr, pendSV>>
      BY <3>2 DEF LockCalls, SchLock, schedVars
    <3> QED
      BY <1>2, <3>1, <3>2, <3>3 DEF MovesTo, HeldInv
  <2> QED
    BY <1>5, <2>1, <2>2 DEF Starts
<1>6. CASE WakeEnd \/ WakeUnlock \/ CondSleep \/ CondTooLate \/ CondRelock \/ CondLeave
  <2>1. PICK from \in {{"wake"}, {"wakeunlock"}, {"sleep"}, {"relock"}, {"leave"}},
             to \in {{"wakeunlock"}, {"none"}, {"relock"}, {"leave"}, {"none", "panic"}} :
          MovesTo(from, to)
    BY <1>6, OwnMoves, CondSleepMoves
  <2>2. to \cap {"release", "sleep", "wake"} = {}
    BY <2>1
  <2> QED
    BY <1>4, <2>1, <2>2
<1>7. CASE CondRelease
  <2>1. MovesTo({"release"}, {"sleep"})
    BY <1>7, OwnMoves
  <2>2. UNCHANGED schedVars
    BY <1>7 DEF CondRelease, UnlockFree, UnlockHandOff
  <2>3. t = runPtr => status[t] = "RUNNING" /\ ~pendSV
    BY <1>0, <2>1 DEF MovesTo, HeldInv
  <2> QED
    BY <1>2, <2>1, <2>2, <2>3 DEF MovesTo, HeldInv, schedVars
<1>8. CASE WakeLock
  <2>1. MovesTo({"wakelock"}, {"wake"})
    BY <1>8, OwnMoves
  <2>2. section = "open" /\ ~pendSV /\ lockCall[runPtr] = NoMutex
    BY <1>8 DEF WakeLock, At, Calling, Executing
  <2>3. UNCHANGED <<status, runPtr, pendSV, section, lockCall>>
    BY <1>8 DEF WakeLock, LockCalls, SchLock, schedVars, sectionVars
  <2>4. status[runPtr] \in {"READY", "RUNNING"}
    BY <2>2 DEF IInv, RunInv
  <2> QED
    BY <1>2, <2>1, <2>2, <2>3, <2>4 DEF MovesTo, HeldInv
<1> QED
  BY <1>3, <1>5, <1>6, <1>7, <1>8, WaitActs

(***************************************************************************)
(* The mutex of a condition variable is on its way back to the waiter.     *)
(***************************************************************************)

(* What most steps leave of a task's claim to the mutex of its call.       *)
ClaimKept(t) ==
    /\ lockCall'[t] = lockCall[t]
    /\ \A m \in Mutex : ownerPtr[m] = t => ownerPtr'[m] = t
    /\ lockCall[t] # NoMutex =>
         /\ timeoutType[t] = "none" => timeoutType'[t] = "none"
         /\ timeOut'[t] => timeOut[t]
         /\ Dropped(t)' => Dropped(t)
         /\ t \in ToSet(waitingQueue[lockCall[t]]) =>
              t \in ToSet(waitingQueue'[lockCall[t]]) \/ ownerPtr'[lockCall[t]] = t

LEMMA ClaimHolds ==
    ASSUME IInv, WaitVarsOK, NEW t \in Task, LeaveInv(t), SameFlow(t), ClaimKept(t)
    PROVE  LeaveInv(t)'
<1> SUFFICES ASSUME flow[t].at = "leave"
             PROVE  LeaveInv(t)'
  BY DEF LeaveInv, SameFlow
<1>1. flow'[t].m = flow[t].m /\ flow[t].m \in Mutex
  BY FlowKind DEF SameFlow, WaitVarsOK
<1>2. lockCall[t] \in Mutex \cup {NoMutex}
  BY DEF IInv, TypeOK
<1> QED
  BY <1>1, <1>2 DEF LeaveInv, ClaimKept

(* Steps that change no claim at all. *)
LEMMA ClaimStill ==
    ASSUME NEW t \in Task, UNCHANGED <<ownerPtr, lockCall>>, lockCall[t] # NoMutex =>
             /\ timeoutType'[t] \in {timeoutType[t], "none"} /\ timeOut'[t] = timeOut[t]
             /\ Dropped(t)' => Dropped(t)
             /\ t \in ToSet(waitingQueue[lockCall[t]]) => t \in ToSet(waitingQueue'[lockCall[t]])
    PROVE  ClaimKept(t)
  BY DEF ClaimKept

LEMMA ClaimAside ==
    ASSUME IInv, WaitVarsOK, SuspendedInv, NEW t \in Task,
           \/ StutterKind \/ Resume \/ WakeKind \/ WakeEnd
           \/ \E s \in Sema : PendTake(s) \/ PostCount(s)
           \/ \E q \in SleepQ, u \in Task : Unready(q, u)
    PROVE  ClaimKept(t)
<1>0. /\ runPtr \in Task /\ lockCall \in [Task -> Mutex \cup {NoMutex}]
      /\ timeoutType \in [Task -> {"none", "BLOCKING", "TIME_EVENT"}]
      /\ timeOut \in [Task -> BOOLEAN]
      /\ waitingQueue \in [Mutex \cup Queue -> Seq(Task)]
  BY DEF IInv, TypeOK, SchedTypeOK
<1>1. UNCHANGED <<ownerPtr, lockCall, section, wakePtr>>
  BY DEF StutterKind, Resume, WakeKind, Woken, WakeEnd, PendTake, PostCount, Unready, Rest, RestBut,
         vars, mutexVars, sectionVars
<1>2. \A m \in Mutex : waitingQueue'[m] = waitingQueue[m]
  <2>1. CASE UNCHANGED waitingQueue
    BY <2>1
  <2>2. CASE WakeKind
    BY <1>0, <2>2 DEF WakeKind, Woken, Unlink
  <2>3. CASE \E q \in SleepQ, u \in Task : Unready(q, u)
    BY <1>0, <2>3 DEF Unready
  <2> QED
    BY <2>1, <2>2, <2>3 DEF StutterKind, Resume, WakeEnd, PendTake, PostCount, Rest, vars,
                            mutexVars, timeoutVars
<1>3. CASE ~Resume
  <2>1. UNCHANGED timeOut
    BY <1>3 DEF StutterKind, WakeKind, Woken, WakeEnd, PendTake, PostCount, Unready, RestBut, vars,
                timeoutVars
  <2>2. timeoutType'[t] \in {timeoutType[t], "none"}
    BY <1>0, <1>3 DEF StutterKind, WakeKind, Woken, Unlink, NodeReset, WakeEnd, PendTake,
                      PostCount, Unready, vars, timeoutVars
  <2> QED
    BY <1>0, <1>1, <1>2, <2>1, <2>2, ClaimStill DEF Dropped
<1>4. CASE Resume
  <2>1. lockCall[runPtr] = NoMutex
    BY <1>0, <1>4 DEF Resume, SuspendedInv, PendInv
  <2>2. t # runPtr => timeOut'[t] = timeOut[t] /\ timeoutType'[t] = timeoutType[t]
    BY <1>0, <1>4 DEF Resume, NodeReset
  <2> QED
    BY <1>0, <1>1, <1>2, <2>1, <2>2, ClaimStill DEF Dropped
<1> QED
  BY <1>3, <1>4

LEMMA ClaimSuspend ==
    ASSUME IInv, NEW t \in Task, t # runPtr, SuspendKind
    PROVE  ClaimKept(t)
<1>1. PICK q \in Queue, timed \in BOOLEAN, st \in Suspended : Suspend(q, timed, st)
  BY DEF SuspendKind
<1>2. UNCHANGED <<ownerPtr, lockCall, section, wakePtr>>
  BY <1>1 DEF Suspend, RestBut, sectionVars
<1>3. timeOut'[t] = timeOut[t] /\ timeoutType'[t] = timeoutType[t]
      /\ \A m \in Mutex : waitingQueue'[m] = waitingQueue[m]
  BY <1>1 DEF Suspend, IInv, TypeOK
<1> QED
  BY <1>2, <1>3, ClaimStill DEF Dropped, IInv, TypeOK

LEMMA ClaimMutexStep ==
    ASSUME IInv, WaitVarsOK, SuspendedInv, NEW t \in Task, LeaveInv(t), MutexStep
    PROVE  LeaveInv(t)'
<1>0. /\ runPtr \in Task /\ lockCall \in [Task -> Mutex \cup {NoMutex}]
      /\ timeoutType \in [Task -> {"none", "BLOCKING", "TIME_EVENT"}]
      /\ timeOut \in [Task -> BOOLEAN] /\ wakePtr \in Task \cup {NoTask}
      /\ waitingForMutexPtr \in [Task -> Mutex \cup {NoMutex}]
      /\ waitingQueue \in [Mutex \cup Queue -> Seq(Task)]
  BY DEF IInv, TypeOK, SchedTypeOK
<1>1. SameFlow(t) /\ (flow'[t] = flow[t])
  BY DEF MutexStep, waitVars, SameFlow
<1>2. ASSUME ClaimKept(t) PROVE LeaveInv(t)'
  BY <1>1, <1>2, ClaimHolds
<1>3. CASE \/ LockPend \/ LockResumeExpired \/ UnlockUpdateNewOwner \/ UnlockReady \/ UnlockDone
           \/ Tick \/ TickEnd
           \/ PendSV /\ UNCHANGED <<mutexVars, timeoutVars, lockCall, sectionVars>>
  <2>1. UNCHANGED <<ownerPtr, lockCall, waitingQueue, timeoutType, timeOut>>
        /\ (Dropped(t)' => Dropped(t))
    BY <1>3 DEF LockPend, LockResumeExpired, UnlockUpdateNewOwner, UnlockReady, UnlockDone, Tick,
       TickEnd, Enter, Leave, mutexVars, timeoutVars, sectionVars, Dropped
  <2> QED
    BY <1>2, <2>1, ClaimStill
<1>4. CASE ChainStep
  <2>1. UNCHANGED <<ownerPtr, lockCall, timeoutType, timeOut, section, wakePtr>>
    BY <1>4 DEF ChainStep, timeoutVars
  <2> QED
    BY <1>0, <1>2, <1>4, <2>1, ClaimStill, ChainWaiters DEF Dropped
<1>5. CASE LockTimeout
  <2>1. timeOut[runPtr] /\ lockCall[runPtr] # NoMutex
    BY <1>5 DEF LockTimeout, SuspendedInv, ExpiredInv
  <2>2. t = runPtr => flow[t].at # "leave"
    BY <2>1 DEF LeaveInv
  <2>3. CASE t = runPtr
    BY <1>1, <2>2, <2>3 DEF LeaveInv
  <2>4. CASE t # runPtr
    <3>1. /\ UNCHANGED <<ownerPtr, waitingQueue, timeoutType>> /\ timeOut'[t] = timeOut[t]
          /\ lockCall'[t] = lockCall[t] /\ ~Dropped(t)'
      BY <1>0, <1>5, <2>4 DEF LockTimeout, Leave, Dropped
    <3> QED
      BY <1>2, <3>1 DEF ClaimKept
  <2> QED
    BY <2>3, <2>4
<1>6. CASE LockSuccess
  <2>1. /\ UNCHANGED <<ownerPtr, waitingQueue, timeOut, section, wakePtr>>
        /\ lockCall' = [lockCall EXCEPT ![runPtr] = NoMutex]
    BY <1>6 DEF LockSuccess, mutexVars, sectionVars
  <2>2. CASE t = runPtr
    <3>1. section = "open" /\ ~pendSV /\ lockCall[runPtr] # NoMutex
      BY <1>6 DEF LockSuccess, Executing
    <3>2. status[t] \in {"READY", "RUNNING"}
      BY <2>2, <3>1 DEF IInv, RunInv
    <3>3. t \notin ToSet(waitingQueue[lockCall[t]])
      BY <1>0, <2>2, <3>1, <3>2 DEF IInv, WaitInv, LinkInv, Asleep, Suspended
    <3>4. flow[t].at = "leave" => ownerPtr[flow[t].m] = t
      BY <2>2, <3>1, <3>3 DEF LeaveInv
    <3>5. lockCall'[t] = NoMutex
      BY <1>0, <2>1, <2>2
    <3> QED
      BY <1>1, <2>1, <3>4, <3>5 DEF LeaveInv
  <2>3. CASE t # runPtr
    <3>1. lockCall'[t] = lockCall[t] /\ timeoutType'[t] = timeoutType[t]
      BY <1>0, <1>6, <2>3 DEF LockSuccess
    <3> QED
      BY <1>2, <2>1, <3>1 DEF ClaimKept, Dropped
  <2> QED
    BY <2>2, <2>3
<1>7. ASSUME NEW u \in Task, ExpireDelay(u) PROVE LeaveInv(t)'
  <2>1. /\ UNCHANGED <<ownerPtr, lockCall, waitingQueue, timeOut>> /\ ~Dropped(t)'
        /\ timeoutType' = [timeoutType EXCEPT ![u] = "none"]
    BY <1>7 DEF ExpireDelay, ReadyExpired, NodeReset, Enter, mutexVars, Dropped
  <2>2. timeoutType'[t] \in {timeoutType[t], "none"}
    BY <1>0, <2>1
  <2> QED
    BY <1>2, <2>1, <2>2, ClaimStill
<1>8. CASE ExpireReady
  <2>1. /\ UNCHANGED <<ownerPtr, lockCall, waitingQueue>> /\ ~Dropped(t)'
        /\ timeoutType' = [timeoutType EXCEPT ![wakePtr] = "none"]
        /\ timeOut' = [timeOut EXCEPT ![wakePtr] = TRUE]
        /\ section = "expire"
    BY <1>8 DEF ExpireReady, ReadyExpired, NodeReset, Enter, mutexVars, Dropped
  <2>2. timeoutType'[t] \in {timeoutType[t], "none"}
    BY <1>0, <2>1
  <2>3. CASE t # wakePtr
    <3>1. timeOut'[t] = timeOut[t]
      BY <1>0, <2>1, <2>3
    <3> QED
      BY <1>2, <2>1, <2>2, <3>1, ClaimStill
  <2>4. CASE t = wakePtr
    <3>1. flow[t].at = "leave" => lockCall[t] = NoMutex
      BY <2>1, <2>4 DEF LeaveInv, Dropped
    <3> QED
      BY <1>1, <2>1, <3>1 DEF LeaveInv
  <2> QED
    BY <2>3, <2>4
<1>9. ASSUME NEW u \in Task, ExpireWait(u) PROVE LeaveInv(t)'
  <2>1. /\ UNCHANGED <<ownerPtr, lockCall, timeoutType, timeOut>> /\ timeoutType[u] = "BLOCKING"
        /\ waitingQueue' = [waitingQueue EXCEPT ![waitingQueuePtr[u]] = TCBQRem(@, u)]
        /\ section' = "expire" /\ wakePtr' = u
    BY <1>9 DEF ExpireWait, Enter, timeoutVars
  <2>2. CASE t = u
    <3>1. flow[t].at = "leave" => lockCall[t] = NoMutex
      BY <2>1, <2>2 DEF LeaveInv
    <3> QED
      BY <1>1, <2>1, <3>1 DEF LeaveInv
  <2>3. CASE t # u
    <3>1. ~Dropped(t)'
      BY <2>1, <2>3 DEF Dropped
    <3>2. ASSUME NEW q \in Mutex \cup Queue, t \in ToSet(waitingQueue[q])
          PROVE  t \in ToSet(waitingQueue'[q])
      <4>1. t \in ToSet(TCBQRem(waitingQueue[q], u))
        BY <1>0, <2>3, <3>2, TCBQRemLemma
      <4> QED
        BY <1>0, <2>1, <3>2, <4>1
    <3> QED
      BY <1>0, <1>2, <2>1, <3>1, <3>2, ClaimStill
  <2> QED
    BY <2>2, <2>3
<1> QED
  BY <1>3, <1>4, <1>5, <1>6, <1>7, <1>8, <1>9 DEF MutexStep, SysTick

LEMMA ClaimCalled ==
    ASSUME IInv, NEW t \in Task, t # runPtr, MutexCalled
    PROVE  ClaimKept(t)
<1>0. /\ runPtr \in Task /\ lockCall \in [Task -> Mutex \cup {NoMutex}]
      /\ timeoutType \in [Task -> {"none", "BLOCKING", "TIME_EVENT"}]
      /\ timeOut \in [Task -> BOOLEAN] /\ ownerPtr \in [Mutex -> Task \cup {NoTask}]
      /\ waitingQueue \in [Mutex \cup Queue -> Seq(Task)]
  BY DEF IInv, TypeOK, SchedTypeOK
<1>1. CASE SleepDelay \/ (TaskCall /\ UNCHANGED <<mutexVars, timeoutVars, lockCall, sectionVars>>)
  <2>1. /\ UNCHANGED <<ownerPtr, lockCall, waitingQueue, section, wakePtr>>
        /\ timeOut'[t] = timeOut[t] /\ timeoutType'[t] = timeoutType[t]
    BY <1>0, <1>1 DEF SleepDelay, mutexVars, timeoutVars, sectionVars
  <2> QED
    BY <2>1, ClaimStill DEF Dropped
<1>2. ASSUME NEW m \in Mutex, LockFree(m) PROVE ClaimKept(t)
  <2>1. /\ UNCHANGED <<waitingQueue, timeoutVars, lockCall, sectionVars>>
        /\ ownerPtr' = [ownerPtr EXCEPT ![m] = runPtr] /\ ~lock[m]
    BY <1>2 DEF LockFree
  <2>2. ownerPtr[m] # t
    BY <2>1 DEF IInv, OwnInv
  <2> QED
    BY <1>0, <2>1, <2>2 DEF ClaimKept, Dropped, timeoutVars, sectionVars
<1>3. ASSUME NEW m \in Mutex, UnlockFree(m) PROVE ClaimKept(t)
  <2>1. /\ UNCHANGED <<waitingQueue, timeoutVars, lockCall>>
        /\ ownerPtr' = [ownerPtr EXCEPT ![m] = NoTask] /\ ownerPtr[m] = runPtr
        /\ section' = "unlock"
    BY <1>3 DEF UnlockFree, Enter
  <2> QED
    BY <1>0, <2>1 DEF ClaimKept, Dropped, timeoutVars
<1>4. ASSUME NEW m \in Mutex, NEW timed \in BOOLEAN, LockBlock(m, timed) PROVE ClaimKept(t)
  <2>1. /\ UNCHANGED ownerPtr /\ section' = "lock" /\ lockCall'[t] = lockCall[t]
        /\ timeOut'[t] = timeOut[t] /\ timeoutType'[t] = timeoutType[t]
        /\ waitingQueue' = [waitingQueue EXCEPT ![m] = TCBQEnqByPrio(@, runPtr, priority)]
    BY <1>0, <1>4 DEF LockBlock, Enter
  <2>2. ASSUME NEW q \in Mutex \cup Queue, t \in ToSet(waitingQueue[q])
        PROVE  t \in ToSet(waitingQueue'[q])
    <3>1. t \in ToSet(TCBQEnqByPrio(waitingQueue[q], runPtr, priority))
      BY <1>0, <2>2, TCBQEnqLemma
    <3> QED
      BY <1>0, <2>1, <2>2, <3>1
  <2> QED
    BY <1>0, <2>1, <2>2 DEF ClaimKept, Dropped
<1>5. ASSUME NEW m \in Mutex, UnlockHandOff(m) PROVE ClaimKept(t)
  <2> DEFINE w == Head(waitingQueue[m])
  <2>1. /\ UNCHANGED <<timeOut, lockCall>> /\ section' \in {"unlock", "give"}
        /\ waitingQueue' = [waitingQueue EXCEPT ![m] = Tail(@)]
        /\ timeoutType' = [timeoutType EXCEPT ![w] = IF @ = "BLOCKING" THEN "none" ELSE @]
        /\ ownerPtr' = [ownerPtr EXCEPT ![m] = w] /\ ownerPtr[m] = runPtr
        /\ waitingQueue[m] # <<>>
    BY <1>5 DEF UnlockHandOff, Enter, Disarm, GiveMutex
  <2>2. /\ w \in Task /\ ToSet(waitingQueue[m]) = ToSet(Tail(waitingQueue[m])) \cup {w}
    BY <1>0, <2>1, TailLemma
  <2> HIDE DEF w
  <2>3. timeoutType'[t] \in {timeoutType[t], "none"}
    BY <1>0, <2>1, <2>2
  <2>4. ASSUME NEW q \in Mutex, t \in ToSet(waitingQueue[q])
        PROVE  t \in ToSet(waitingQueue'[q]) \/ ownerPtr'[q] = t
    BY <1>0, <2>1, <2>2, <2>4
  <2>5. ~Dropped(t)'
    BY <2>1 DEF Dropped
  <2>6. \A n \in Mutex : ownerPtr[n] = t => ownerPtr'[n] = t
    BY <1>0, <2>1
  <2>7. lockCall[t] # NoMutex => lockCall[t] \in Mutex
    BY <1>0
  <2> QED
    BY <2>1, <2>3, <2>4, <2>5, <2>6, <2>7 DEF ClaimKept
<1> QED
  BY <1>1, <1>2, <1>3, <1>4, <1>5 DEF MutexCalled

LEMMA LeaveOthers ==
    ASSUME IInv, WaitVarsOK, SuspendedInv, WaitKind, NEW t \in Task, t # runPtr, LeaveInv(t),
           SameFlow(t)
    PROVE  LeaveInv(t)'
<1>1. CASE MutexStep
  BY <1>1, ClaimMutexStep
<1>2. CASE MutexCalled
  BY <1>2, ClaimCalled, ClaimHolds
<1>3. CASE SuspendKind
  BY <1>3, ClaimSuspend, ClaimHolds
<1>4. CASE ~(MutexStep \/ MutexCalled \/ SuspendKind)
  <2>1. ClaimKept(t)
    BY <1>4, ClaimAside DEF WaitKind
  <2> QED
    BY <2>1, ClaimHolds
<1> QED
  BY <1>1, <1>2, <1>3, <1>4

(* The waiter asks for its mutex, without a deadline. *)
LEMMA RelockLeave ==
    ASSUME IInv, WaitVarsOK, SuspendedInv, CondRelock
    PROVE  LeaveInv(runPtr)'
<1>1. PICK x \in Task : x = runPtr
  BY DEF IInv, TypeOK, SchedTypeOK
<1>2. PICK m \in Mutex : m = flow[x].m
  BY <1>1, FlowKind DEF CondRelock, At, WaitVarsOK
<1>3. MovesTo({"relock"}, {"leave"}) /\ flow'[x].m = m
  BY <1>1, <1>2, OwnMoves
<1>4. /\ waitCall[x] = NoQueue /\ lockCall[x] = NoMutex
      /\ LockFree(m) \/ LockBlock(m, FALSE)
  BY <1>1, <1>2 DEF CondRelock, At, Calling
<1>5. UNCHANGED runPtr
  BY <1>4 DEF LockFree, LockBlock, schedVars
<1>6. CASE LockFree(m)
  <2>1. lockCall'[x] = NoMutex /\ ownerPtr'[m] = x
    BY <1>1, <1>4, <1>6 DEF LockFree, IInv, TypeOK
  <2>2. LeaveInv(x)'
    BY <1>3, <2>1 DEF LeaveInv
  <2> QED
    BY <1>1, <1>5, <2>2
<1>7. CASE LockBlock(m, FALSE)
  <2>1. /\ lockCall' = [lockCall EXCEPT ![x] = m] /\ section' = "lock"
        /\ UNCHANGED ownerPtr /\ status[x] = "RUNNING"
        /\ timeoutType' = [timeoutType EXCEPT ![x] = @] /\ timeOut' = [timeOut EXCEPT ![x] = @]
        /\ waitingQueue' = [waitingQueue EXCEPT ![m] = TCBQEnqByPrio(@, x, priority)]
    BY <1>1, <1>7 DEF LockBlock, Enter
  <2>2. ~timeOut[x] /\ timeoutType[x] = "none"
    <3>1. ~timeOut[x]
      BY <1>4 DEF SuspendedInv, PendInv
    <3>2. timeoutType[x] \in {"none", "BLOCKING", "TIME_EVENT"}
      BY DEF IInv, TypeOK
    <3> QED
      BY <2>1, <3>1, <3>2 DEF IInv, TimeoutInv, Suspended
  <2>3. x \in ToSet(waitingQueue'[m])
    <3>1. waitingQueue[m] \in Seq(Task)
      BY DEF IInv, TypeOK
    <3>2. x \in ToSet(TCBQEnqByPrio(waitingQueue[m], x, priority))
      BY <3>1, TCBQEnqLemma
    <3> QED
      BY <2>1, <3>2 DEF IInv, TypeOK
  <2>4. lockCall'[x] = m /\ ~timeOut'[x] /\ timeoutType'[x] = "none" /\ ~Dropped(x)' /\ m # NoMutex
    BY <2>1, <2>2 DEF IInv, TypeOK, Dropped
  <2>5. LeaveInv(x)'
    BY <1>3, <2>3, <2>4 DEF LeaveInv
  <2> QED
    BY <1>1, <1>5, <2>5
<1> QED
  BY <1>4, <1>6, <1>7

LEMMA LeaveStep ==
    ASSUME IInv, WaitVarsOK, SuspendedInv, FlowInv, WaitNext, NEW t \in Task
    PROVE  LeaveInv(t)'
<1>0. runPtr \in Task /\ LeaveInv(t) /\ WaitKind
  BY WaitKinds DEF IInv, TypeOK, SchedTypeOK, FlowInv
<1>1. ASSUME NEW from, NEW to, MovesTo(from, to), "leave" \notin to PROVE LeaveInv(t)'
  <2>1. CASE t = runPtr
    BY <1>1, <2>1 DEF MovesTo, LeaveInv
  <2> QED
    BY <1>0, <1>1, <2>1, LeaveOthers DEF MovesTo
<1>2. CASE MutexStep \/ MutexCall \/ Resume \/ SemaStep \/ SleepKeeps \/ WakeNext
  <2>1. SameFlow(t)
    BY <1>2, SameFlows
  <2>2. CASE t # runPtr
    BY <1>0, <2>1, <2>2, LeaveOthers
  <2>3. CASE flow[t].at # "leave"
    BY <2>1, <2>3 DEF SameFlow, LeaveInv
  <2>4. CASE t = runPtr /\ flow[t].at = "leave"
    <3>1. ~At("none") /\ ~At("wake")
      BY <2>4 DEF At
    <3>2. \/ MutexStep \/ Resume \/ WakeKind
          \/ \E s \in Sema : PendTake(s) \/ PostCount(s)
          \/ \E q \in SleepQ, u \in Task : Unready(q, u)
      BY <1>2, <3>1, PostKinds DEF MutexCall, SemaStep, PendBlock, SleepKeeps, Sleep, WakeNext
    <3> QED
      BY <1>0, <2>1, <3>2, ClaimMutexStep, ClaimAside, ClaimHolds
  <2> QED
    BY <2>2, <2>3, <2>4
<1>3. CASE Starts
  <2>1. PICK to \in {{"wakelock"}, {"release"}} : MovesTo({"none"}, to)
    BY <1>3, OwnMoves DEF Starts
  <2> QED
    BY <1>1, <2>1
<1>4. CASE \/ WakeLock \/ WakeEnd \/ WakeUnlock \/ CondRelease \/ CondSleep \/ CondTooLate
           \/ CondLeave
  <2>1. PICK from \in {{"wakelock"}, {"wake"}, {"wakeunlock"}, {"release"}, {"sleep"}, {"leave"}},
             to \in {{"wake"}, {"wakeunlock"}, {"none"}, {"sleep"}, {"relock"},
                     {"none", "panic"}} :
          MovesTo(from, to)
    BY <1>4, OwnMoves, CondSleepMoves
  <2>2. "leave" \notin to
    BY <2>1
  <2> QED
    BY <1>1, <2>1, <2>2
<1>5. CASE CondRelock
  <2>1. CASE t = runPtr
    <3>1. PICK x \in Task : x = runPtr /\ x = t
      BY <2>1
    <3>2. UNCHANGED runPtr
      BY <1>5 DEF CondRelock, LockFree, LockBlock, schedVars
    <3>3. LeaveInv(runPtr)'
      BY <1>5, RelockLeave
    <3> QED
      BY <3>1, <3>2, <3>3 DEF LeaveInv, Dropped
  <2>2. CASE t # runPtr
    BY <1>0, <1>5, <2>2, OwnMoves, LeaveOthers DEF MovesTo
  <2> QED
    BY <2>1, <2>2
<1> QED
  BY <1>2, <1>3, <1>4, <1>5, WaitActs

LEMMA FlowInitial == WaitInit => FlowInv
<1> SUFFICES ASSUME WaitInit PROVE FlowInv
  OBVIOUS
<1>1. \A t \in Task : flow[t].at = "none"
  BY DEF WaitInit, NoFlow
<1>2. ChainClosed
  BY DEF WaitInit, Init, ChainClosed
<1> QED
  BY <1>1, <1>2 DEF FlowInv, DepthInv, HeldInv, LeaveInv, LockedSteps

LEMMA FlowInvStep ==
    ASSUME IInv, WaitVarsOK, SuspendedInv, FlowInv, [WaitNext]_allVars
    PROVE  FlowInv'
<1>1. CASE WaitNext
  <2>1. ChainClosed'
    BY <1>1, WaitKinds, ClosedStep DEF FlowInv
  <2> QED
    BY <1>1, <2>1, DepthStep, HeldStep, LeaveStep DEF FlowInv
<1>2. CASE UNCHANGED allVars
  <2>1. /\ UNCHANGED <<flow, ownerPtr, waitingQueue, timeoutVars, lockCall, sectionVars>>
        /\ UNCHANGED schedVars
    BY <1>2 DEF allVars, waitVars, vars, mutexVars
  <2>2. UNCHANGED <<section, chainPtr, wakePtr, timeoutType, timeOut, status, tcbSchLock, runPtr,
                    schLock, pendSV>>
    BY <2>1 DEF timeoutVars, sectionVars, schedVars
  <2> QED
    BY <2>1, <2>2 DEF FlowInv, ChainClosed, DepthInv, Depth, HeldInv, LeaveInv, Dropped
<1> QED
  BY <1>1, <1>2

(* A call of several critical sections keeps what it relies on between     *)
(* them: the scheduler lock, the processor, its claim to the mutex.        *)
THEOREM FlowInvariance == WaitSpec => [](IInv /\ WaitVarsOK /\ SuspendedInv /\ FlowInv)
<1>1. IInv /\ WaitVarsOK /\ SuspendedInv /\ FlowInv /\ [WaitNext]_allVars
        => (IInv /\ WaitVarsOK /\ SuspendedInv /\ FlowInv)'
  BY WaitStep, FlowInvStep
<1> QED
  BY WaitInitial, FlowInitial, <1>1, PTL DEF WaitSpec

LEMMA AtomicStep ==
    ASSUME IInv, WaitVarsOK, FlowInv, WaitNext, flow[runPtr].at \in {"release", "sleep"}
    PROVE  runPtr' = runPtr
<1>1. Holds
  <2>1. runPtr \in Task
    BY DEF IInv, TypeOK, SchedTypeOK
  <2> QED
    BY <2>1, HeldAt
<1>2. CASE MutexStep \/ MutexCall \/ Resume \/ SemaStep \/ SleepKeeps \/ WakeNext
  BY <1>1, <1>2, HeldKeeps DEF Goes
<1>3. CASE CondRelease \/ CondSleep \/ CondTooLate
  BY <1>1, <1>3, DepthStill DEF depthVars, PendSV, Holds
<1>4. ~(Starts \/ WakeLock \/ WakeEnd \/ WakeUnlock \/ CondRelock \/ CondLeave)
  BY DEF Starts, WakeStart, WakeLock, WakeEnd, WakeUnlock, CondWait, CondRelock, CondLeave, At
<1> QED
  BY <1>2, <1>3, <1>4, WaitActs

(* kCondVarWait: from the release of the mutex to the sleep no other task  *)
(* executes, with the scheduler locked or for a task that is never         *)
(* preempted; posts, signals, ticks and inheritance only defer the switch. *)
THEOREM CondAtomic == WaitSpec => CondWaitAtomic
<1>1. IInv /\ WaitVarsOK /\ FlowInv /\ [WaitNext]_allVars
        => [flow[runPtr].at \in {"release", "sleep"} => runPtr' = runPtr]_allVars
  BY AtomicStep
<1> QED
  BY <1>1, FlowInvariance, PTL DEF WaitSpec, CondWaitAtomic

(* A task that leaves kCondVarWait.                                        *)
Leaves(t) == flow[t].at = "leave" /\ flow'[t].at = "none"

LEMMA LeavesMoved ==
    ASSUME NEW t \in Task, Leaves(t)
    PROVE  /\ ~SameFlow(t)
           /\ \A from, to : MovesTo(from, to) => t = runPtr /\ "leave" \in from
  BY DEF Leaves, SameFlow, MovesTo

LEMMA LeavesByCondLeave ==
    ASSUME IInv, WaitVarsOK, WaitNext, NEW t \in Task, Leaves(t)
    PROVE  t = runPtr /\ CondLeave
<1>1. ~SameFlow(t) /\ \A from, to : MovesTo(from, to) => t = runPtr /\ "leave" \in from
  BY LeavesMoved
<1>2. CASE MutexStep \/ MutexCall \/ Resume \/ SemaStep \/ SleepKeeps \/ WakeNext
  BY <1>1, <1>2, SameFlows
<1>3. CASE Starts
  <2>1. PICK to \in {{"wakelock"}, {"release"}} : MovesTo({"none"}, to)
    BY <1>3, OwnMoves DEF Starts
  <2> QED
    BY <1>1, <2>1
<1>4. CASE WakeLock \/ WakeEnd \/ WakeUnlock \/ CondRelease \/ CondSleep \/ CondTooLate
           \/ CondRelock
  <2>1. PICK from \in {{"wakelock"}, {"wake"}, {"wakeunlock"}, {"release"}, {"sleep"},
                       {"relock"}},
             to \in {{"wake"}, {"wakeunlock"}, {"none"}, {"sleep"}, {"relock"}, {"leave"}} :
          MovesTo(from, to)
    BY <1>4, OwnMoves, CondSleepMoves
  <2> QED
    BY <1>1, <2>1
<1>5. CASE CondLeave
  <2>1. PICK from, to : MovesTo(from, to)
    BY <1>5, OwnMoves
  <2> QED
    BY <1>1, <1>5, <2>1
<1> QED
  BY <1>2, <1>3, <1>4, <1>5, WaitActs

LEMMA LeaveReturns ==
    ASSUME IInv, WaitVarsOK, FlowInv, WaitNext, NEW t \in Task, Leaves(t)
    PROVE  /\ ownerPtr[flow[t].m] = t
           /\ t \in Preemptible => schLock' = schLock - 1
<1>1. runPtr \in Task /\ schLock \in Nat /\ LeaveInv(t) /\ DepthInv(t)
  BY DEF IInv, TypeOK, SchedTypeOK, FlowInv
<1>2. t = runPtr /\ CondLeave
  BY LeavesByCondLeave
<1>3. flow[t].at = "leave"
  BY DEF Leaves
<1>4. lockCall[t] = NoMutex
  BY <1>2 DEF CondLeave, At, Calling
<1>5. ownerPtr[flow[t].m] = t
  BY <1>1, <1>3, <1>4 DEF LeaveInv
<1>6. ASSUME t \in Preemptible PROVE schLock' = schLock - 1
  <2>1. schLock > 0
    BY <1>1, <1>2, <1>3, <1>6 DEF DepthInv, Depth, LockedSteps
  <2>2. SchUnlock
    BY <1>2, <2>1 DEF CondLeave, UnlockCalls
  <2> QED
    BY <2>2 DEF SchUnlock
<1> QED
  BY <1>5, <1>6

(* kCondVarWait returns with the mutex, whether it was signalled or timed  *)
(* out, and one level less deep in scheduler locks than it went to leave.  *)
THEOREM CondReturns == WaitSpec => CondWaitReturnsOwner
<1> DEFINE Returned == \A t \in Task : flow[t].at = "leave" /\ flow'[t].at = "none" =>
                         /\ ownerPtr[flow[t].m] = t
                         /\ t \in Preemptible => schLock' = schLock - 1
<1>1. IInv /\ WaitVarsOK /\ FlowInv /\ [WaitNext]_allVars => [Returned]_allVars
  <2>1. ASSUME IInv, WaitVarsOK, FlowInv, WaitNext PROVE Returned
    <3>1. ASSUME NEW t \in Task, flow[t].at = "leave" /\ flow'[t].at = "none"
          PROVE  /\ ownerPtr[flow[t].m] = t
                 /\ t \in Preemptible => schLock' = schLock - 1
      BY <2>1, <3>1, LeaveReturns DEF Leaves
    <3> QED
      BY <3>1
  <2> QED
    BY <2>1
<1> QED
  BY <1>1, FlowInvariance, PTL DEF WaitSpec, CondWaitReturnsOwner
(***************************************************************************)
(* A flush owes its preemption to the task it chose.                       *)
(***************************************************************************)

(* The decision at the end of the flush will be about a task no worse.     *)
Answered(t) ==
    /\ flow[runPtr].at = "wake" /\ flow[runPtr].chosen # NoTask
    /\ priority[flow[runPtr].chosen] <= priority[t]

FlushOwed ==
    \E t \in Task : status[t] = "READY" /\ priority[t] < priority[runPtr] /\ ~Answered(t)

FlushOwedInv ==
    section \notin {"lock", "expire", "ticked"} /\ runPtr \in Preemptible /\ ~pendSV /\ FlushOwed
      => Deferred

LEMMA OwedFlush == OwedInv => FlushOwedInv
  BY DEF OwedInv, Owed, FlushOwedInv, FlushOwed

LEMMA FlushAside ==
    ASSUME FlushOwedInv, flow[runPtr].at # "wake" \/ runPtr \notin Preemptible
    PROVE  OwedInv
  BY DEF OwedInv, Owed, FlushOwedInv, FlushOwed, Answered

(* Outside a flush of a preemptible task RK0Mutex's steps answer for it.   *)
LEMMA NextFlush ==
    ASSUME IInv, FlushOwedInv, flow[runPtr].at # "wake" \/ runPtr \notin Preemptible,
           [Next]_vars
    PROVE  FlushOwedInv'
<1>1. OwedInv'
  BY FlushAside, OwedStep
<1> QED
  BY <1>1 DEF OwedInv, Owed, FlushOwedInv, FlushOwed

(* What the flush has chosen stays chosen. *)
ChosenKept ==
    /\ UNCHANGED <<runPtr, priority>>
    /\ flow[runPtr].at = "wake" =>
         flow'[runPtr].at = "wake" /\ flow'[runPtr].chosen = flow[runPtr].chosen

LEMMA AnsweredKept ==
    ASSUME ChosenKept, NEW t \in Task, Answered(t)
    PROVE  Answered(t)'
  BY DEF ChosenKept, Answered

LEMMA FlushKept ==
    ASSUME FlushOwedInv, ChosenKept, section \notin {"lock", "expire", "ticked"},
           \A t \in Task : status'[t] = "READY" => status[t] = "READY",
           ~pendSV' => ~pendSV, Deferred => Deferred' \/ pendSV'
    PROVE  FlushOwedInv'
<1>1. FlushOwed' => FlushOwed
  BY AnsweredKept DEF FlushOwed, ChosenKept
<1> QED
  BY Zenon, <1>1 DEF FlushOwedInv, ChosenKept

(* A post decides about the task it wakes. *)
LEMMA FlushPost ==
    ASSUME IInv, FlushOwedInv, ChosenKept, PostKind
    PROVE  FlushOwedInv'
<1>1. PICK w \in Task, q \in Queue : Woken(w, q) /\ ReschedTask(priority[w])
  BY DEF PostKind
<1>2. /\ UNCHANGED <<priority, runPtr, schLock, section>> /\ section = "open"
      /\ status' = [status EXCEPT ![w] = "READY"]
  BY <1>1 DEF Woken, ReadyNoSwtch, RestBut, sectionVars
<1>3. SchedTypeOK /\ runPtr \in Task /\ \A u \in Task : priority[u] \in Nat
  BY PrioNat DEF IInv, TypeOK, SchedTypeOK
<1> SUFFICES ASSUME runPtr \in Preemptible, ~pendSV', FlushOwed' PROVE Deferred'
  BY <1>2 DEF FlushOwedInv
<1>4. ~pendSV /\ (pendingCtxtSwtch => pendingCtxtSwtch')
  BY <1>1, <1>3, ReschedKeeps
<1>5. PICK u \in Task : status'[u] = "READY" /\ priority[u] < priority[runPtr] /\ ~Answered(u)'
  BY <1>2 DEF FlushOwed
<1>6. CASE u = w
  <2>1. priority[runPtr] > priority[w] /\ priority[w] \in Nat
    BY <1>3, <1>5, <1>6
  <2> QED
    BY <1>1, <1>2, <1>3, <2>1, ReschedAnswers
<1>7. CASE u # w
  <2>1. status[u] = "READY"
    BY <1>2, <1>3, <1>5, <1>7 DEF SchedTypeOK
  <2>2. ~Answered(u)
    BY <1>5, AnsweredKept
  <2>3. FlushOwed
    BY <1>5, <2>1, <2>2 DEF FlushOwed
  <2> QED
    BY <1>2, <1>4, <2>3 DEF FlushOwedInv, Deferred
<1> QED
  BY <1>6, <1>7

(* The flush: the task it wakes is the one it chose, or no better. *)
LEMMA ChosenFlow ==
    ASSUME IInv, WaitVarsOK, WakeNext
    PROVE  LET f == flow[runPtr] IN
           /\ flow'[runPtr].at = "wake"
           /\ flow'[runPtr].chosen = Chosen(f.chosen, Head(waitingQueue[f.q]))
           /\ f.chosen \in Task \cup {NoTask}
<1> DEFINE f == flow[runPtr]
           g == [f EXCEPT !.left = f.left - 1]
           flow1 == [flow EXCEPT ![runPtr] = g]
<1>1. runPtr \in Task /\ flow \in [Task -> Flow]
  BY DEF IInv, TypeOK, SchedTypeOK, WaitVarsOK
<1>2. f.at = "wake" /\ f \in WakeFlow
  BY <1>1, FlowKind DEF WakeNext, At
<1> DEFINE c == Chosen(f.chosen, Head(waitingQueue[f.q]))
<1>3. flow' = [flow1 EXCEPT ![runPtr] = [flow1[runPtr] EXCEPT !.chosen =
                               Chosen(flow1[runPtr].chosen, Head(waitingQueue[f.q]))]]
  BY DEF WakeNext
<1>4. flow1[runPtr] = g /\ DOMAIN flow1 = Task
  BY <1>1
<1>5. g.chosen = f.chosen /\ g.at = "wake" /\ "chosen" \in DOMAIN g /\ "at" \in DOMAIN g
  BY <1>2 DEF WakeFlow
<1>6. f.chosen \in Task \cup {NoTask}
  BY <1>2 DEF WakeFlow
<1> HIDE DEF g, flow1
<1>7. flow' = [flow1 EXCEPT ![runPtr] = [g EXCEPT !.chosen = c]]
  BY <1>3, <1>4, <1>5
<1> HIDE DEF c
<1>8. flow'[runPtr] = [g EXCEPT !.chosen = c]
  BY <1>1, <1>4, <1>7
<1>9. [g EXCEPT !.chosen = c].at = "wake" /\ [g EXCEPT !.chosen = c].chosen = c
  BY <1>5
<1> QED
  BY <1>6, <1>8, <1>9 DEF c

LEMMA FlushNext ==
    ASSUME IInv, WaitVarsOK, FlushOwedInv, WakeNext
    PROVE  FlushOwedInv'
<1>1. PICK q \in Queue, w \in Task :
        Woken(w, q) /\ UNCHANGED swtchVars /\ q = flow[runPtr].q /\ w = Head(waitingQueue[q])
  BY WakeNextWoken
<1>2. /\ UNCHANGED <<priority, runPtr, schLock, pendSV, pendingCtxtSwtch>> /\ section = "open"
      /\ status' = [status EXCEPT ![w] = "READY"]
  BY <1>1 DEF Woken, ReadyNoSwtch, RestBut, swtchVars
<1>3. runPtr \in Task /\ \A u \in Task : priority[u] \in Nat
  BY PrioNat DEF IInv, TypeOK, SchedTypeOK
<1>4. PICK c \in Task \cup {NoTask} : c = flow[runPtr].chosen
  BY ChosenFlow
<1>5. flow[runPtr].at = "wake" /\ flow'[runPtr].at = "wake"
      /\ flow'[runPtr].chosen = Chosen(c, w)
  BY <1>1, <1>4, ChosenFlow DEF WakeNext, At
<1>6. /\ Chosen(c, w) \in Task /\ priority[Chosen(c, w)] <= priority[w]
      /\ c # NoTask => priority[Chosen(c, w)] <= priority[c]
  BY <1>3 DEF Chosen
<1>7. ASSUME NEW u \in Task, u = w \/ Answered(u) PROVE Answered(u)'
  BY <1>2, <1>3, <1>4, <1>5, <1>6, <1>7 DEF Answered
<1>8. FlushOwed' => FlushOwed
  <2>1. ASSUME NEW u \in Task, status'[u] = "READY", ~Answered(u)'
        PROVE  status[u] = "READY" /\ ~Answered(u)
    BY <1>2, <1>7, <2>1 DEF IInv, TypeOK, SchedTypeOK
  <2> QED
    BY <1>2, <2>1 DEF FlushOwed
<1> QED
  BY <1>2, <1>8 DEF FlushOwedInv, Deferred

(* Its end: the decision about the chosen task is one about all it woke.   *)
LEMMA FlushEnd ==
    ASSUME IInv, WaitVarsOK, FlushOwedInv, WakeEnd
    PROVE  FlushOwedInv'
<1>1. SchedTypeOK /\ runPtr \in Task /\ \A u \in Task : priority[u] \in Nat
  BY PrioNat DEF IInv, TypeOK, SchedTypeOK
<1>2. /\ UNCHANGED <<status, priority, runPtr, schLock, section>> /\ section = "open"
      /\ flow[runPtr].at = "wake"
  BY DEF WakeEnd, Rest, sectionVars, At, Calling, Executing
<1>3. PICK c \in Task \cup {NoTask} : c = flow[runPtr].chosen
  BY <1>1, <1>2, FlowKind DEF WaitVarsOK, WakeFlow
<1>4. IF c = NoTask THEN UNCHANGED swtchVars ELSE ReschedTask(priority[c])
  BY <1>3 DEF WakeEnd
<1> SUFFICES ASSUME runPtr \in Preemptible, ~pendSV', FlushOwed' PROVE Deferred'
  BY <1>2 DEF FlushOwedInv
<1>5. ~pendSV /\ (pendingCtxtSwtch => pendingCtxtSwtch')
  BY <1>1, <1>4, ReschedKeeps
<1>6. PICK u \in Task : status[u] = "READY" /\ priority[u] < priority[runPtr]
  BY <1>2 DEF FlushOwed
<1>7. CASE Answered(u)
  <2>1. c \in Task /\ priority[c] <= priority[u]
    BY <1>3, <1>7 DEF Answered
  <2>2. ReschedTask(priority[c]) /\ priority[runPtr] > priority[c]
    BY <1>1, <1>4, <1>6, <2>1
  <2> QED
    BY <1>1, <1>2, <2>1, <2>2, ReschedAnswers
<1>8. CASE ~Answered(u)
  <2>1. FlushOwed
    BY <1>6, <1>8 DEF FlushOwed
  <2> QED
    BY <1>2, <1>5, <2>1 DEF FlushOwedInv, Deferred
<1> QED
  BY <1>7, <1>8

(* What a flush in its loop sees of the tick. *)
LEMMA FlushMutexStep ==
    ASSUME IInv, FlowInv, FlushOwedInv, MutexStep
    PROVE  FlushOwedInv'
<1>1. SchedTypeOK /\ runPtr \in Task /\ UNCHANGED flow
  BY DEF IInv, TypeOK, SchedTypeOK, MutexStep, waitVars
<1>2. CASE flow[runPtr].at # "wake" \/ runPtr \notin Preemptible
  <2>1. Next
    BY DEF MutexStep, Next, Lock, Unlock, SchedStep
  <2> QED
    BY <1>2, <2>1, NextFlush
<1>3. CASE flow[runPtr].at = "wake" /\ runPtr \in Preemptible
  <2>1. Holds /\ HeldInv(runPtr) /\ ChainClosed
    BY <1>1, <1>3, HeldAt DEF FlowInv
  <2>2. \/ Tick \/ TickEnd \/ (\E t \in Task : ExpireDelay(t) \/ ExpireWait(t))
        \/ ExpireReady \/ (ChainStep /\ section = "expire")
    BY <1>3, <2>1, HeldSection DEF HeldInv
  <2>3. CASE Tick
    BY <1>1, <2>3, FlushKept DEF Tick, schedVars, ChosenKept, Deferred
  <2>4. CASE \E t \in Task : ExpireDelay(t) \/ ExpireWait(t)
    BY <2>4 DEF ExpireDelay, ReadyExpired, ExpireWait, Enter, FlushOwedInv
  <2>5. CASE ExpireReady \/ (ChainStep /\ section = "expire")
    BY <2>5 DEF ExpireReady, ReadyExpired, Enter, ChainStep, FlushOwedInv
  <2>6. CASE TickEnd
    <3>1. /\ UNCHANGED <<status, priority, runPtr, schLock>>
          /\ TickResched(section = "ticked") /\ section \in {"tick", "ticked"}
      BY <2>6 DEF TickEnd
    <3>2. CASE section = "ticked"
      <4>1. PendCtxSwtch(status[runPtr])
        BY <1>3, <2>1, <3>1, <3>2 DEF TickResched
      <4>2. pendSV' \/ Deferred'
        BY <1>1, <3>1, <4>1, PendAnswers
      <4> QED
        BY <4>2, Zenon DEF FlushOwedInv
    <3>3. CASE section = "tick"
      <4>1. ~pendSV' => ~pendSV /\ (pendingCtxtSwtch => pendingCtxtSwtch')
        BY <1>1, <3>1, ReschedKeeps
      <4>2. ChosenKept
        BY <1>1, <3>1 DEF ChosenKept
      <4>3. Deferred => Deferred' \/ pendSV'
        BY <3>1, <4>1 DEF Deferred
      <4> QED
        BY <3>1, <3>3, <4>1, <4>2, <4>3, FlushKept
    <3> QED
      BY <3>1, <3>2, <3>3
  <2> QED
    BY <2>2, <2>3, <2>4, <2>5, <2>6
<1> QED
  BY <1>2, <1>3

(* The steps others may take in between leave the choice alone. *)
LEMMA NotDueChosen ==
    ASSUME WaitVarsOK, NEW t \in Task, NEW u \in Task, flow[u].at = "wake"
    PROVE  NotDue(flow, t)[u].at = "wake" /\ NotDue(flow, t)[u].chosen = flow[u].chosen
<1>1. flow[u] \in WakeFlow
  BY FlowKind DEF WaitVarsOK
<1>2. NotDue(flow, t)[u] = [flow[u] EXCEPT !.due = @ \ {t}]
  BY <1>1 DEF NotDue, WakeFlow
<1> QED
  BY <1>1, <1>2 DEF WakeFlow

LEMMA FlushSuspend ==
    ASSUME NEW q, NEW timed, NEW st \in Suspended, Suspend(q, timed, st)
    PROVE  FlushOwedInv'
<1>1. pendSV'
  BY DEF Suspend, PendCtxSwtch, PendCtxSwtchNow, Suspended
<1> QED
  BY <1>1, Zenon DEF FlushOwedInv

LEMMA FlushOthers ==
    ASSUME IInv, WaitVarsOK, FlushOwedInv, Resume \/ SemaStep \/ SleepKeeps
    PROVE  FlushOwedInv'
<1>0. runPtr \in Task /\ {"BLOCKED", "SLEEPING"} \subseteq Suspended
  BY DEF IInv, TypeOK, SchedTypeOK, Suspended
<1>1. CASE Resume
  <2>1. UNCHANGED <<schedVars, section>> /\ section = "open"
    BY <1>1 DEF Resume, Executing, sectionVars
  <2>2. ChosenKept
    BY <1>1, <2>1 DEF Resume, ChosenKept, schedVars
  <2> QED
    BY <2>1, <2>2, FlushKept DEF schedVars, Deferred
<1>2. ASSUME NEW s \in Sema, PendTake(s) \/ PostCount(s) PROVE FlushOwedInv'
  <2>1. UNCHANGED <<schedVars, section, flow>> /\ section = "open"
    BY <1>2 DEF PendTake, PostCount, vars, sectionVars
  <2> QED
    BY <2>1, FlushKept DEF schedVars, Deferred, ChosenKept
<1>3. ASSUME NEW s \in Sema, NEW timed \in BOOLEAN, PendBlock(s, timed) PROVE FlushOwedInv'
  BY <1>0, <1>3, FlushSuspend DEF PendBlock
<1>4. ASSUME NEW q \in SleepQ, NEW timed \in BOOLEAN, Sleep(q, timed) PROVE FlushOwedInv'
  BY <1>0, <1>4, FlushSuspend DEF Sleep
<1>5. CASE \/ \E s \in Sema : PostWake(s)
           \/ \E q \in SleepQ : Signal(q) \/ \E t \in Task : SleepQueueReady(q, t)
  <2>1. PostKind
    BY <1>5, PostKinds
  <2>2. UNCHANGED flow
    BY <1>5 DEF PostWake, Signal, SleepQueueReady, waitVars
  <2>3. ChosenKept
    BY <2>1, <2>2 DEF PostKind, Woken, RestBut, ChosenKept
  <2> QED
    BY <2>1, <2>3, FlushPost
<1>6. ASSUME NEW q \in SleepQ, NEW t \in Task, Unready(q, t) PROVE FlushOwedInv'
  <2>1. /\ UNCHANGED <<priority, runPtr, schLock, pendSV, pendingCtxtSwtch>> /\ section = "open"
        /\ status' = [status EXCEPT ![t] = "SLEEPQ_BLOCKED"] /\ flow' = NotDue(flow, t)
    BY <1>6 DEF Unready, RestBut, swtchVars
  <2>2. ChosenKept
    BY <1>0, <2>1, NotDueChosen DEF ChosenKept
  <2>3. \A u \in Task : status'[u] = "READY" => status[u] = "READY"
    BY <2>1 DEF IInv, TypeOK, SchedTypeOK
  <2> QED
    BY <2>1, <2>2, <2>3, FlushKept DEF Deferred
<1> QED
  BY <1>1, <1>2, <1>3, <1>4, <1>5, <1>6 DEF SemaStep, SleepKeeps

(* Calls of the scheduler and of the mutexes that a wait is made of. *)
LEMMA CallsNext ==
    ASSUME IInv, WaitVarsOK, MutexCalled \/ StutterKind
    PROVE  [Next]_vars
<1>1. CASE MutexCalled
  BY <1>1 DEF MutexCalled, Next, Lock, Unlock, SchedStep
<1> QED
  BY <1>1 DEF StutterKind

LEMMA FlushCalls ==
    ASSUME IInv, WaitVarsOK,
           \/ MutexCall \/ Starts \/ WakeLock \/ WakeUnlock
           \/ CondRelease \/ CondTooLate \/ CondRelock \/ CondLeave
    PROVE  flow[runPtr].at # "wake" /\ [Next]_vars
<1>1. flow[runPtr].at # "wake"
  BY DEF MutexCall, Starts, WakeStart, CondWait, WakeLock, WakeUnlock, CondRelease, CondTooLate,
         CondRelock, CondLeave, At
<1>2. MutexCalled \/ StutterKind
  <2>1. MutexCall => MutexCalled
    BY DEF MutexCall, MutexCalled, At, waitVars
  <2>2. CASE Starts \/ CondTooLate
    BY <2>2, LockCallsKind DEF Starts, WakeStart, CondWait, CondTooLate, StutterKind
  <2>3. CASE WakeLock \/ WakeUnlock \/ CondLeave
    BY <2>3, LockCallsKind DEF WakeLock, WakeUnlock, CondLeave
  <2>4. CASE CondRelease \/ CondRelock
    <3>1. runPtr \in Task
      BY DEF IInv, TypeOK, SchedTypeOK
    <3>2. PICK m \in Mutex : m = flow[runPtr].m
      BY <2>4, <3>1, FlowKind DEF CondRelease, CondRelock, At, WaitVarsOK
    <3> QED
      BY <2>4, <3>2 DEF CondRelease, CondRelock, At, MutexCalled
  <2> QED
    BY <2>1, <2>2, <2>3, <2>4
<1> QED
  BY <1>1, <1>2, CallsNext

LEMMA FlushOwedStep ==
    ASSUME IInv, WaitVarsOK, FlowInv, FlushOwedInv, [WaitNext]_allVars
    PROVE  FlushOwedInv'
<1>1. CASE WaitNext
  <2>1. CASE CondSleep
    BY <2>1, FlushSuspend DEF CondSleep, Suspended
  <2>2. CASE \/ MutexCall \/ Starts \/ WakeLock \/ WakeUnlock
             \/ CondRelease \/ CondTooLate \/ CondRelock \/ CondLeave
    BY <2>2, FlushCalls, NextFlush
  <2> QED
    BY <1>1, <2>1, <2>2, WaitActs, FlushMutexStep, FlushOthers, FlushNext, FlushEnd
<1>2. CASE UNCHANGED allVars
  <2>1. UNCHANGED <<section, flow>> /\ UNCHANGED schedVars
    BY <1>2 DEF allVars, waitVars, vars, sectionVars
  <2>2. UNCHANGED <<status, priority, runPtr, schLock, pendSV, pendingCtxtSwtch>>
    BY <2>1 DEF schedVars
  <2> QED
    BY <2>1, <2>2 DEF FlushOwedInv, FlushOwed, Answered, Deferred
<1> QED
  BY <1>1, <1>2

(* kReadyNoSwtch asks for no switch, but at the end of its loop the flush  *)
(* decides for the best task it woke: while it is in the loop, that one is *)
(* at least as good as any it has not answered for, whatever handlers post *)
(* or put to sleep and ticks expire meanwhile.  Outside the loop no        *)
(* preemption is ever missing.                                             *)
THEOREM PreemptionOwedSafe == WaitSpec => []NoPreemptionOwed
<1>1. WaitInit => FlushOwedInv
  BY OwedInitial, OwedFlush DEF WaitInit
<1>2. IInv /\ WaitVarsOK /\ FlowInv /\ FlushOwedInv /\ [WaitNext]_allVars => FlushOwedInv'
  BY FlushOwedStep
<1>3. FlushOwedInv => NoPreemptionOwed
  BY DEF FlushOwedInv, FlushOwed, Answered, Deferred, NoPreemptionOwed, NoLostPreemption
<1> QED
  BY <1>1, <1>2, <1>3, FlowInvariance, PTL DEF WaitSpec
=============================================================================
