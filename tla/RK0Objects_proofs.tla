------------------------- MODULE RK0Objects_proofs -------------------------
(***************************************************************************)
(* Proofs about what is taken from pools and given back at run time: tasks *)
(* and their stacks, kernel objects (RK0Objects), and at the end the       *)
(* buffers and blocks of most-recent messages (RK0MRM).                    *)
(***************************************************************************)
EXTENDS RK0Objects, RK0MRM, RK0Seqs, FiniteSetTheorems, TLAPS

Tcb == [init : BOOLEAN,
        status : {"NONE", "TERMINATED", "READY", "RUNNING", "SLEEPING", "BLOCKED", "PENDING"},
        priority : {0, 1}, preempt : BOOLEAN, stackBuf : Stack \cup {NULL}]

(***************************************************************************)
(* The invariant.                                                          *)
(***************************************************************************)

TcbsOK(tcbs) ==
    /\ tcbs \in [Thread -> Tcb]
    /\ \A t \in Thread : /\ tcbs[t].init <=> tcbs[t].status \notin {"NONE", "TERMINATED"}
                         /\ ~tcbs[t].init => tcbs[t].stackBuf = NULL
    /\ tcbs[Main].status \in {"READY", "RUNNING"} /\ tcbs[Main].priority = 1
    /\ tcbs[PostProc].status \in {"READY", "RUNNING", "SLEEPING"}
    /\ tcbs[PostProc].priority = 0 /\ ~tcbs[PostProc].preempt

(* Who is READY is queued at its level, PostProc ahead of the others. *)
QueuesOK(tcbs, rq) ==
    /\ rq \in [{0, 1} -> Seq(Thread)]
    /\ \A p \in {0, 1} : IsInjective(rq[p])
    /\ \A t \in Thread, p \in {0, 1} :
          t \in ToSet(rq[p]) <=> tcbs[t].status = "READY" /\ tcbs[t].priority = p
    /\ tcbs[PostProc].status = "READY" => Head(rq[0]) = PostProc

RunsAlone(tcbs, run) ==
    /\ run \in Thread
    /\ \A t \in Thread : tcbs[t].status = "RUNNING" <=> t = run

SchedOK(tcbs, rq, run) == TcbsOK(tcbs) /\ QueuesOK(tcbs, rq) /\ RunsAlone(tcbs, run)

Calling(t, op) == call[t].op = op

CallsOK ==
    /\ call \in [Thread -> {NoCall} \cup [op : {"lock"}] \cup [op : {"record"}, slot : Slot]
                   \cup [op : {"create"}, o : Obj]
                   \cup [op : {"spawn"}, h : Handle, attr : Attr, stackBuf : Stack,
                         refused : BOOLEAN]]
    /\ call[PostProc] = NoCall

(* Who has which block of the pools of TCBs and of stacks. *)
SlotsOK ==
    /\ PartitionOK(taskPool, Slot)
    /\ \A s \in Slot : tcb[s].init <=> s \notin ToSet(taskPool.freeList)
    /\ handle \in [Handle -> Slot \cup {NULL}]
    /\ handleByPid = [s \in Slot |-> IF tcb[s].init THEN s ELSE NULL]

StacksOK ==
    /\ PartitionOK(stackMem, Stack)
    /\ \A s \in Slot : tcb[s].init =>
          tcb[s].stackBuf \in Stack /\ tcb[s].stackBuf \notin ToSet(stackMem.freeList)
    /\ \A s, r \in Slot : tcb[s].init /\ tcb[r].init /\ s # r => tcb[s].stackBuf # tcb[r].stackBuf
    /\ \A t \in Thread : Calling(t, "spawn") =>
          /\ call[t].stackBuf \notin ToSet(stackMem.freeList)
          /\ \A s \in Slot : tcb[s].init => tcb[s].stackBuf # call[t].stackBuf
          /\ \A u \in Thread \ {t} : Calling(u, "spawn") => call[u].stackBuf # call[t].stackBuf

(* While a new task is not recorded, only the one that spawns it runs. *)
RecordOK ==
    /\ dynStackPart \subseteq {s \in Slot : tcb[s].init}
    /\ \A s \in Slot : tcb[s].init /\ s \notin dynStackPart =>
          Calling(runPtr, "record") /\ call[runPtr].slot = s
    /\ \A t \in Thread : Calling(t, "record") =>
          t = runPtr /\ call[t].slot \in Slot \ {t} /\ tcb[call[t].slot].init

ObjsOK ==
    /\ obj \in [Obj -> [init : BOOLEAN, waiters : Seq(Slot), owner : Thread \cup {NULL}, held : Int]]
    /\ DOMAIN objMem = Kind /\ \A k \in Kind : PartitionOK(objMem[k], ToSet(objects[k]))
    /\ \A o \in Obj : IF obj[o].init THEN o \notin ToSet(objMem[KindOf(o)].freeList)
                                     ELSE obj[o] = ZeroedObj
    /\ \A t \in Thread : Calling(t, "create") =>
          /\ ~obj[call[t].o].init
          /\ call[t].o \notin ToSet(objMem[KindOf(call[t].o)].freeList)
          /\ \A u \in Thread \ {t} : Calling(u, "create") => call[u].o # call[t].o

(* A task is BLOCKED where it is linked, and nowhere else. *)
WaitersOK ==
    /\ \A o \in Obj : IsInjective(obj[o].waiters)
    /\ \A o \in Obj : \A t \in ToSet(obj[o].waiters) : t \in Slot /\ tcb[t].status = "BLOCKED"
    /\ \A t \in Thread : tcb[t].status = "BLOCKED" => \E o \in Obj : t \in ToSet(obj[o].waiters)
    /\ \A o, p \in Obj : o # p => ToSet(obj[o].waiters) \cap ToSet(obj[p].waiters) = {}

OwnersOK ==
    \A o \in Obj : obj[o].owner # NULL =>
       tcb[obj[o].owner].init /\ tcb[obj[o].owner].status # "PENDING"

ArmedOK == armed \subseteq {s \in Slot : tcb[s].status \in {"SLEEPING", "BLOCKED"}}

(* Nobody but PostProc runs while somebody is to be terminated. *)
JobsOK ==
    /\ jobs \in Seq(Slot) /\ IsInjective(jobs)
    /\ \A t \in Thread : tcb[t].status = "PENDING" <=> t \in ToSet(jobs)
    /\ \A t \in Thread : tcb[t].status = "PENDING" => call[t] = NoCall
    /\ jobs # <<>> => runPtr = PostProc

ObjectsInv ==
    /\ SchedOK(tcb, readyQueue, runPtr)
    /\ CallsOK /\ SlotsOK /\ StacksOK /\ RecordOK
    /\ ObjsOK /\ WaitersOK /\ OwnersOK /\ ArmedOK /\ JobsOK

(***************************************************************************)
(* Constants.                                                              *)
(***************************************************************************)

LEMMA Ids ==
    /\ Main \in Thread /\ PostProc \in Thread /\ Main # PostProc /\ Slot \subseteq Thread
    /\ Main \notin Slot /\ PostProc \notin Slot /\ Thread = Slot \cup {Main, PostProc}
    /\ NULL \notin Thread /\ NULL \notin Slot /\ NULL \notin Obj /\ NULL \notin Stack
    /\ Attr \subseteq [prio : {0, 1}, preempt : BOOLEAN]
    /\ MaxHeld \in Nat
  BY ObjectsAssumption DEF Thread

(* An object is of one kind. *)
LEMMA KindLemma ==
    ASSUME NEW o \in Obj
    PROVE  /\ KindOf(o) \in Kind /\ o \in ToSet(objects[KindOf(o)])
           /\ \A k \in Kind : o \in ToSet(objects[k]) => k = KindOf(o)
<1>1. PICK k \in Kind : o \in ToSet(objects[k])
  BY DEF Obj
<1>2. \A j \in Kind : Contains(objects[j], o) <=> o \in ToSet(objects[j])
  BY ObjectsAssumption, InToSet
<1>3. KindOf(o) \in Kind /\ Contains(objects[KindOf(o)], o)
  BY <1>1, <1>2 DEF KindOf
<1> QED
  BY <1>2, <1>3, ObjectsAssumption

(***************************************************************************)
(* Scheduling.                                                             *)
(***************************************************************************)

(* What a switch changes of a task. *)
Switched(old, new) ==
    /\ new.init = old.init /\ new.priority = old.priority /\ new.preempt = old.preempt
    /\ new.stackBuf = old.stackBuf
    /\ \/ new.status = old.status
       \/ old.status \in {"READY", "RUNNING"} /\ new.status \in {"READY", "RUNNING"}

LEMMA DispatchLemma ==
    ASSUME NEW tcbs, NEW rq, TcbsOK(tcbs), QueuesOK(tcbs, rq),
           \A t \in Thread : tcbs[t].status # "RUNNING", Dispatch(tcbs, rq)
    PROVE  /\ SchedOK(tcb, readyQueue, runPtr)'
           /\ tcbs[runPtr'].status = "READY"
           /\ \A t \in Thread : Switched(tcbs[t], tcb'[t])
           /\ tcbs[PostProc].status = "READY" => runPtr' = PostProc
<1> DEFINE b == Best(rq)
           next == Head(rq[b])
           new == [tcbs EXCEPT ![next].status = "RUNNING"]
<1>1. b \in {0, 1} /\ rq[b] # <<>> /\ (rq[0] # <<>> => b = 0)
  <2>1. Main \in ToSet(rq[1])
    BY Ids DEF TcbsOK, QueuesOK
  <2>2. rq[1] # <<>>
    BY <2>1, ToSetEmpty
  <2> QED
    BY <2>2 DEF Best
<1>2. runPtr' = next /\ readyQueue' = [rq EXCEPT ![b] = Tail(@)] /\ tcb' = new
  BY DEF Dispatch
<1> HIDE DEF b
<1>3. /\ next \in Thread /\ next \in ToSet(rq[b]) /\ Tail(rq[b]) \in Seq(Thread)
      /\ ToSet(rq[b]) = ToSet(Tail(rq[b])) \cup {next}
      /\ IsInjective(Tail(rq[b])) /\ next \notin ToSet(Tail(rq[b]))
  BY <1>1, TailLemma DEF QueuesOK
<1>4. tcbs[next].status = "READY" /\ tcbs[next].priority = b
  BY <1>1, <1>3 DEF QueuesOK
<1> HIDE DEF next
<1>5. tcbs \in [Thread -> Tcb]
  BY DEF TcbsOK
<1>6. /\ new \in [Thread -> Tcb] /\ new[next].status = "RUNNING"
      /\ new[next].init = tcbs[next].init /\ new[next].priority = tcbs[next].priority
      /\ new[next].preempt = tcbs[next].preempt /\ new[next].stackBuf = tcbs[next].stackBuf
      /\ \A u \in Thread : u # next => new[u] = tcbs[u]
  BY <1>3, <1>5 DEF Tcb
<1> HIDE DEF new
<1>7. TcbsOK(new)
  BY <1>4, <1>6, Ids DEF TcbsOK
<1>8. RunsAlone(new, next)
  BY <1>3, <1>6 DEF RunsAlone
<1>9. tcbs[PostProc].status = "READY" => next = PostProc
  <2> SUFFICES ASSUME tcbs[PostProc].status = "READY" PROVE next = PostProc
    OBVIOUS
  <2>1. PostProc \in ToSet(rq[0])
    BY Ids DEF QueuesOK, TcbsOK
  <2>2. b = 0
    BY <1>1, <2>1, ToSetEmpty
  <2> QED
    BY <2>2 DEF QueuesOK, next
<1>10. QueuesOK(new, readyQueue')
  <2>1. /\ readyQueue' \in [{0, 1} -> Seq(Thread)]
        /\ readyQueue'[b] = Tail(rq[b])
        /\ \A p \in {0, 1} : p # b => readyQueue'[p] = rq[p]
    BY <1>1, <1>2, <1>3 DEF QueuesOK
  <2>2. \A p \in {0, 1} : IsInjective(readyQueue'[p])
    BY <1>3, <2>1 DEF QueuesOK
  <2>3. ASSUME NEW t \in Thread, NEW p \in {0, 1}
        PROVE  t \in ToSet(readyQueue'[p]) <=> new[t].status = "READY" /\ new[t].priority = p
    <3>1. t \in ToSet(rq[p]) <=> tcbs[t].status = "READY" /\ tcbs[t].priority = p
      BY DEF QueuesOK
    <3>2. CASE t = next
      BY <1>3, <1>4, <1>6, <2>1, <3>1, <3>2
    <3>3. CASE t # next
      BY <1>3, <1>6, <2>1, <3>1, <3>3
    <3> QED
      BY <3>2, <3>3
  <2>4. new[PostProc].status # "READY"
    BY <1>6, <1>9, Ids
  <2> QED
    BY <2>1, <2>2, <2>3, <2>4 DEF QueuesOK
<1>11. \A t \in Thread : Switched(tcbs[t], new[t])
  BY <1>4, <1>6 DEF Switched
<1> QED
  BY <1>2, <1>4, <1>7, <1>8, <1>9, <1>10, <1>11 DEF SchedOK

LEMMA MadeReadyLemma ==
    ASSUME NEW tcbs, TcbsOK(tcbs), NEW t \in Thread, tcbs[t].init, t # Main
    PROVE  /\ TcbsOK(MadeReady(tcbs, t))
           /\ MadeReady(tcbs, t)[t].status = "READY"
           /\ MadeReady(tcbs, t)[t].init /\ MadeReady(tcbs, t)[t].priority = tcbs[t].priority
           /\ MadeReady(tcbs, t)[t].stackBuf = tcbs[t].stackBuf
           /\ \A u \in Thread : u # t => MadeReady(tcbs, t)[u] = tcbs[u]
<1> DEFINE new == MadeReady(tcbs, t)
<1>1. tcbs \in [Thread -> Tcb] /\ new = [tcbs EXCEPT ![t].status = "READY"]
  BY DEF TcbsOK, MadeReady
<1> HIDE DEF new
<1>2. /\ new \in [Thread -> Tcb] /\ new[t].status = "READY"
      /\ new[t].init = tcbs[t].init /\ new[t].priority = tcbs[t].priority
      /\ new[t].preempt = tcbs[t].preempt /\ new[t].stackBuf = tcbs[t].stackBuf
      /\ \A u \in Thread : u # t => new[u] = tcbs[u]
  BY <1>1 DEF Tcb
<1>3. TcbsOK(new)
  BY <1>2, Ids DEF TcbsOK
<1> QED
  BY <1>2, <1>3 DEF new

(* Who was not queued is, at its level. *)
LEMMA EnqueueLemma ==
    ASSUME NEW old, NEW new, NEW rq, QueuesOK(old, rq), TcbsOK(new), NEW t \in Thread,
           old[t].status # "READY", new[t].status = "READY",
           \A u \in Thread : u # t => new[u].status = old[u].status /\ new[u].priority = old[u].priority
    PROVE  QueuesOK(new, ReadyEnqueued(new, rq, t))
<1> DEFINE p == new[t].priority
           q == IF t = PostProc THEN <<t>> \o rq[p] ELSE Append(rq[p], t)
           r == ReadyEnqueued(new, rq, t)
<1>1. p \in {0, 1} /\ rq[p] \in Seq(Thread) /\ t \notin ToSet(rq[p]) /\ IsInjective(rq[p])
  BY DEF QueuesOK, TcbsOK, Tcb
<1>2. /\ q \in Seq(Thread) /\ ToSet(q) = ToSet(rq[p]) \cup {t} /\ IsInjective(q) /\ q # <<>>
      /\ t = PostProc => Head(q) = t
      /\ t # PostProc /\ rq[p] # <<>> => Head(q) = Head(rq[p])
  <2>1. CASE t = PostProc
    <3>1. q = Cons(t, rq[p])
      BY <2>1 DEF Cons
    <3> HIDE DEF p, q
    <3>2. /\ Cons(t, rq[p]) \in Seq(Thread) /\ ToSet(Cons(t, rq[p])) = ToSet(rq[p]) \cup {t}
          /\ Cons(t, rq[p]) # <<>> /\ Head(Cons(t, rq[p])) = t /\ IsInjective(Cons(t, rq[p]))
      BY <1>1, ConsLemma
    <3> QED
      BY <2>1, <3>1, <3>2
  <2>2. CASE t # PostProc
    <3>1. q = Append(rq[p], t)
      BY <2>2
    <3> HIDE DEF q
    <3> QED
      BY <1>1, <2>2, <3>1, AppendLemma, HeadStays
  <2> QED
    BY <2>1, <2>2
<1>3. r = [rq EXCEPT ![p] = q]
  BY DEF ReadyEnqueued
<1> HIDE DEF q, r
<1>4. /\ r \in [{0, 1} -> Seq(Thread)] /\ r[p] = q
      /\ \A i \in {0, 1} : i # p => r[i] = rq[i]
  BY <1>1, <1>2, <1>3 DEF QueuesOK
<1> HIDE DEF p
<1>5. \A i \in {0, 1} : IsInjective(r[i])
  BY <1>2, <1>4 DEF QueuesOK
<1>6. ASSUME NEW u \in Thread, NEW i \in {0, 1}
      PROVE  u \in ToSet(r[i]) <=> new[u].status = "READY" /\ new[u].priority = i
  <2>1. u \in ToSet(rq[i]) <=> old[u].status = "READY" /\ old[u].priority = i
    BY DEF QueuesOK
  <2>2. CASE u = t
    BY <1>2, <1>4, <2>1, <2>2 DEF p
  <2>3. CASE u # t
    BY <1>2, <1>4, <2>1, <2>3
  <2> QED
    BY <2>2, <2>3
<1>7. ASSUME new[PostProc].status = "READY" PROVE Head(r[0]) = PostProc
  <2>1. CASE t = PostProc
    <3>1. p = 0
      BY <2>1 DEF p, TcbsOK
    <3> QED
      BY <1>2, <1>4, <2>1, <3>1
  <2>2. CASE t # PostProc
    <3>1. old[PostProc].status = "READY" /\ old[PostProc].priority = 0
      BY <1>7, <2>2, Ids DEF TcbsOK
    <3>2. Head(rq[0]) = PostProc /\ PostProc \in ToSet(rq[0])
      BY <3>1, Ids DEF QueuesOK
    <3>3. rq[0] # <<>>
      BY <3>2, ToSetEmpty
    <3> QED
      BY <1>2, <1>4, <2>2, <3>2, <3>3
  <2> QED
    BY <2>1, <2>2
<1> QED
  BY <1>4, <1>5, <1>6, <1>7 DEF QueuesOK, r

(* Who leaves the queues is in none. *)
LEMMA DequeueLemma ==
    ASSUME NEW old, NEW new, NEW rq, QueuesOK(old, rq), NEW t \in Thread,
           t # PostProc, old[PostProc].priority = 0, new[t].status # "READY",
           \A u \in Thread : u # t => new[u].status = old[u].status /\ new[u].priority = old[u].priority
    PROVE  QueuesOK(new, [p \in {0, 1} |-> TCBQRem(rq[p], t)])
<1> DEFINE r == [p \in {0, 1} |-> TCBQRem(rq[p], t)]
<1>1. \A p \in {0, 1} : r[p] = TCBQRem(rq[p], t) /\ rq[p] \in Seq(Thread) /\ IsInjective(rq[p])
  BY DEF QueuesOK
<1>2. ASSUME NEW p \in {0, 1}
      PROVE  /\ r[p] \in Seq(Thread) /\ IsInjective(r[p]) /\ ToSet(r[p]) \subseteq ToSet(rq[p])
             /\ ToSet(rq[p]) \ {t} \subseteq ToSet(r[p]) /\ t \notin ToSet(r[p])
  BY <1>1, TCBQRemLemma
<1>3. r \in [{0, 1} -> Seq(Thread)]
  BY <1>2
<1> HIDE DEF r
<1>4. ASSUME NEW u \in Thread, NEW p \in {0, 1}
      PROVE  u \in ToSet(r[p]) <=> new[u].status = "READY" /\ new[u].priority = p
  <2>1. u \in ToSet(rq[p]) <=> old[u].status = "READY" /\ old[u].priority = p
    BY DEF QueuesOK
  <2>2. CASE u = t
    BY <1>2, <2>2
  <2>3. CASE u # t
    BY <1>2, <2>1, <2>3
  <2> QED
    BY <2>2, <2>3
<1>5. ASSUME new[PostProc].status = "READY" PROVE Head(r[0]) = PostProc
  <2>1. old[PostProc].status = "READY"
    BY <1>5, Ids
  <2>2. Head(rq[0]) = PostProc /\ PostProc \in ToSet(rq[0])
    BY <2>1, Ids DEF QueuesOK
  <2>3. rq[0] # <<>>
    BY <2>2, ToSetEmpty
  <2>4. rq[0] \in Seq(Thread) /\ r[0] = RemoveFirst(rq[0], t)
    BY <1>1 DEF TCBQRem
  <2> QED
    BY <2>2, <2>3, <2>4, HeadStays
<1> QED
  BY <1>2, <1>3, <1>4, <1>5 DEF QueuesOK, r

(* The running task gives up the processor. *)
Left(tcbs, run, st) == [tcbs EXCEPT ![run].status = st]

LEMMA LeavesLemma ==
    ASSUME NEW tcbs, NEW rq, NEW run, SchedOK(tcbs, rq, run), run # Main,
           NEW st, st \in {"SLEEPING", "BLOCKED", "PENDING"},
           run = PostProc => st = "SLEEPING"
    PROVE  /\ TcbsOK(Left(tcbs, run, st)) /\ QueuesOK(Left(tcbs, run, st), rq)
           /\ \A t \in Thread : Left(tcbs, run, st)[t].status # "RUNNING"
           /\ Left(tcbs, run, st)[run].status = st /\ Left(tcbs, run, st)[run].init
           /\ Left(tcbs, run, st)[run].stackBuf = tcbs[run].stackBuf
           /\ \A u \in Thread : u # run => Left(tcbs, run, st)[u] = tcbs[u]
<1> DEFINE new == Left(tcbs, run, st)
<1>1. /\ run \in Thread /\ tcbs[run].status = "RUNNING" /\ tcbs[run].init
      /\ tcbs \in [Thread -> Tcb]
  BY DEF SchedOK, TcbsOK, RunsAlone
<1>2. /\ new \in [Thread -> Tcb] /\ new[run].status = st
      /\ new[run].init = tcbs[run].init /\ new[run].priority = tcbs[run].priority
      /\ new[run].preempt = tcbs[run].preempt /\ new[run].stackBuf = tcbs[run].stackBuf
      /\ \A u \in Thread : u # run => new[u] = tcbs[u]
  BY <1>1 DEF Tcb, Left
<1> HIDE DEF new
<1>3. TcbsOK(new)
  BY <1>1, <1>2, Ids DEF SchedOK, TcbsOK
<1>4. QueuesOK(new, rq)
  <2>1. \A t \in Thread : new[t].status = "READY" <=> tcbs[t].status = "READY"
    BY <1>1, <1>2
  <2>2. \A t \in Thread : new[t].priority = tcbs[t].priority
    BY <1>2
  <2> QED
    BY <2>1, <2>2, Ids DEF SchedOK, QueuesOK
<1>5. \A t \in Thread : new[t].status # "RUNNING"
  BY <1>2 DEF SchedOK, RunsAlone
<1> QED
  BY <1>1, <1>2, <1>3, <1>4, <1>5 DEF new

LEMMA ReschedLemma ==
    ASSUME NEW tcbs, NEW rq, NEW c, SchedOK(tcbs, rq, runPtr), Resched(tcbs, rq, c)
    PROVE  /\ SchedOK(tcb, readyQueue, runPtr)'
           /\ \A t \in Thread : Switched(tcbs[t], tcb'[t])
           /\ runPtr' # runPtr => ~SchLocked(c) /\ runPtr # PostProc
                                  /\ tcbs[runPtr'].status = "READY"
<1> DEFINE goes == Best(rq) < tcbs[runPtr].priority /\ rq[Best(rq)] # <<>>
                      /\ tcbs[runPtr].preempt /\ ~SchLocked(c)
<1>1. CASE goes
  <2> DEFINE p == tcbs[runPtr].priority
             new == [tcbs EXCEPT ![runPtr].status = "READY"]
             r == [rq EXCEPT ![p] = <<runPtr>> \o @]
  <2>1. /\ runPtr \in Thread /\ tcbs[runPtr].status = "RUNNING" /\ tcbs[runPtr].init
        /\ tcbs \in [Thread -> Tcb] /\ runPtr # PostProc
    BY <1>1 DEF SchedOK, RunsAlone, TcbsOK
  <2>2. p = 1
    BY <1>1, <2>1 DEF Best, Tcb
  <2>3. Dispatch(new, r)
    BY <1>1 DEF Resched
  <2> HIDE DEF r, p
  <2>4. /\ new \in [Thread -> Tcb] /\ new[runPtr].status = "READY"
        /\ new[runPtr].init = tcbs[runPtr].init /\ new[runPtr].priority = tcbs[runPtr].priority
        /\ new[runPtr].preempt = tcbs[runPtr].preempt
        /\ new[runPtr].stackBuf = tcbs[runPtr].stackBuf
        /\ \A u \in Thread : u # runPtr => new[u] = tcbs[u]
    BY <2>1 DEF Tcb
  <2> HIDE DEF new
  <2>5. TcbsOK(new)
    BY <2>1, <2>4, Ids DEF SchedOK, TcbsOK
  <2>6. /\ rq[1] \in Seq(Thread) /\ IsInjective(rq[1]) /\ runPtr \notin ToSet(rq[1])
    BY <2>1 DEF SchedOK, QueuesOK
  <2>7. r[1] = Cons(runPtr, rq[1]) /\ r[0] = rq[0] /\ DOMAIN r = {0, 1}
    BY <2>2 DEF r, Cons, SchedOK, QueuesOK
  <2>8. /\ r[1] \in Seq(Thread) /\ ToSet(r[1]) = ToSet(rq[1]) \cup {runPtr} /\ IsInjective(r[1])
    <3>1. /\ Cons(runPtr, rq[1]) \in Seq(Thread) /\ IsInjective(Cons(runPtr, rq[1]))
          /\ ToSet(Cons(runPtr, rq[1])) = ToSet(rq[1]) \cup {runPtr}
      BY <2>1, <2>6, ConsLemma
    <3> QED
      BY <2>7, <3>1
  <2>9. QueuesOK(new, r)
    <3>1. r \in [{0, 1} -> Seq(Thread)] /\ \A i \in {0, 1} : IsInjective(r[i])
      <4>1. r[0] \in Seq(Thread) /\ IsInjective(r[0])
        BY <2>7 DEF SchedOK, QueuesOK
      <4>2. r = [i \in {0, 1} |-> r[i]]
        BY <2>7 DEF r, SchedOK, QueuesOK
      <4> QED
        BY <2>8, <4>1, <4>2
    <3>2. ASSUME NEW u \in Thread, NEW i \in {0, 1}
          PROVE  u \in ToSet(r[i]) <=> new[u].status = "READY" /\ new[u].priority = i
      <4>1. u \in ToSet(rq[i]) <=> tcbs[u].status = "READY" /\ tcbs[u].priority = i
        BY DEF SchedOK, QueuesOK
      <4>2. tcbs[runPtr].priority = 1
        BY <2>2 DEF p
      <4>3. CASE u = runPtr
        BY <2>1, <2>4, <2>7, <2>8, <4>1, <4>2, <4>3
      <4>4. CASE u # runPtr
        BY <2>4, <2>7, <2>8, <4>1, <4>4
      <4> QED
        BY <4>3, <4>4
    <3>3. new[PostProc].status = "READY" => Head(r[0]) = PostProc
      BY <2>1, <2>4, <2>7, Ids DEF SchedOK, QueuesOK
    <3> QED
      BY <3>1, <3>2, <3>3 DEF QueuesOK
  <2>10. \A t \in Thread : new[t].status # "RUNNING"
    BY <2>4 DEF SchedOK, RunsAlone
  <2>11. /\ SchedOK(tcb, readyQueue, runPtr)'
         /\ new[runPtr'].status = "READY"
         /\ \A t \in Thread : Switched(new[t], tcb'[t])
    BY <2>3, <2>5, <2>9, <2>10, DispatchLemma
  <2>12. ASSUME NEW t \in Thread PROVE Switched(tcbs[t], tcb'[t])
    <3>1. Switched(new[t], tcb'[t])
      BY <2>11
    <3>2. CASE t = runPtr
      BY <2>1, <2>4, <3>1, <3>2 DEF Switched
    <3>3. CASE t # runPtr
      BY <2>4, <3>1, <3>3
    <3> QED
      BY <3>2, <3>3
  <2>13. runPtr' \in Thread
    BY <2>11 DEF SchedOK, RunsAlone
  <2> QED
    BY <1>1, <2>1, <2>4, <2>11, <2>12, <2>13
<1>2. CASE ~goes
  <2>1. runPtr' = runPtr /\ tcb' = tcbs /\ readyQueue' = rq
    BY <1>2 DEF Resched
  <2> QED
    BY <2>1 DEF Switched
<1> QED
  BY <1>1, <1>2

(***************************************************************************)
(* What the switches of an action do to the tasks: t comes to a status of  *)
(* the set st, the others at most change places on the processor.          *)
(***************************************************************************)

OnCpu == {"READY", "RUNNING"}

Moves(t, st) ==
    /\ \A u \in Thread : tcb'[u].init = tcb[u].init /\ tcb'[u].stackBuf = tcb[u].stackBuf
    /\ \A u \in Thread : u # t =>
          tcb'[u].status = tcb[u].status \/ {tcb[u].status, tcb'[u].status} \subseteq OnCpu
    /\ tcb'[t].status \in st

LEMMA WakeLemma ==
    ASSUME SchedOK(tcb, readyQueue, runPtr), NEW t \in Thread, tcb[t].init,
           tcb[t].status \notin OnCpu, NEW c,
           Resched(MadeReady(tcb, t), ReadyEnqueued(tcb, readyQueue, t), c)
    PROVE  /\ SchedOK(tcb, readyQueue, runPtr)'
           /\ Moves(t, OnCpu)
           /\ runPtr' # runPtr => ~SchLocked(c) /\ runPtr # PostProc
<1> DEFINE new == MadeReady(tcb, t)
           rq == ReadyEnqueued(tcb, readyQueue, t)
<1>1. t # Main
  BY DEF SchedOK, TcbsOK, OnCpu
<1>2. /\ TcbsOK(new) /\ new[t].status = "READY" /\ new[t].init
      /\ new[t].priority = tcb[t].priority /\ new[t].stackBuf = tcb[t].stackBuf
      /\ \A u \in Thread : u # t => new[u] = tcb[u]
  BY <1>1, MadeReadyLemma DEF SchedOK
<1>3. rq = ReadyEnqueued(new, readyQueue, t)
  BY <1>2 DEF ReadyEnqueued
<1> HIDE DEF new, rq
<1>4. QueuesOK(tcb, readyQueue) /\ tcb[t].status # "READY"
  BY DEF SchedOK, OnCpu
<1>5. \A u \in Thread : u # t => new[u].status = tcb[u].status /\ new[u].priority = tcb[u].priority
  BY <1>2
<1>6. QueuesOK(new, rq)
  BY <1>2, <1>3, <1>4, <1>5, EnqueueLemma
<1>7. RunsAlone(new, runPtr)
  BY <1>2 DEF SchedOK, RunsAlone, OnCpu
<1>8. SchedOK(new, rq, runPtr)
  BY <1>2, <1>6, <1>7 DEF SchedOK
<1>9. Resched(new, rq, c)
  BY DEF new, rq
<1>10. /\ SchedOK(tcb, readyQueue, runPtr)'
       /\ \A u \in Thread : Switched(new[u], tcb'[u])
       /\ runPtr' # runPtr => ~SchLocked(c) /\ runPtr # PostProc
  BY <1>8, <1>9, ReschedLemma
<1>11. Moves(t, OnCpu)
  <2>1. ASSUME NEW u \in Thread
        PROVE  /\ tcb'[u].init = tcb[u].init /\ tcb'[u].stackBuf = tcb[u].stackBuf
               /\ u # t => tcb'[u].status = tcb[u].status
                           \/ {tcb[u].status, tcb'[u].status} \subseteq OnCpu
    <3>1. Switched(new[u], tcb'[u])
      BY <1>10
    <3>2. CASE u = t
      BY <1>2, <3>1, <3>2 DEF Switched
    <3>3. CASE u # t
      BY <1>2, <3>1, <3>3 DEF Switched, OnCpu
    <3> QED
      BY <3>2, <3>3
  <2>2. tcb'[t].status \in OnCpu
    BY <1>2, <1>10 DEF Switched, OnCpu
  <2> QED
    BY <2>1, <2>2 DEF Moves
<1> QED
  BY <1>10, <1>11

(* The running task of a pool, or PostProc, waits. *)
LEMMA LeaveLemma ==
    ASSUME SchedOK(tcb, readyQueue, runPtr), runPtr # Main,
           NEW st, st \in {"SLEEPING", "BLOCKED", "PENDING"},
           runPtr = PostProc => st = "SLEEPING", Leave(runPtr, st)
    PROVE  SchedOK(tcb, readyQueue, runPtr)' /\ Moves(runPtr, {st})
<1> DEFINE new == Left(tcb, runPtr, st)
<1>1. Dispatch(new, readyQueue)
  BY DEF Leave, Left
<1>2. /\ TcbsOK(new) /\ QueuesOK(new, readyQueue)
      /\ \A t \in Thread : new[t].status # "RUNNING"
      /\ new[runPtr].status = st /\ new[runPtr].init
      /\ new[runPtr].stackBuf = tcb[runPtr].stackBuf
      /\ \A u \in Thread : u # runPtr => new[u] = tcb[u]
  BY LeavesLemma
<1> HIDE DEF new
<1>3. /\ SchedOK(tcb, readyQueue, runPtr)'
      /\ \A t \in Thread : Switched(new[t], tcb'[t])
  BY <1>1, <1>2, DispatchLemma
<1>4. runPtr \in Thread /\ tcb[runPtr].init
  BY DEF SchedOK, RunsAlone, TcbsOK
<1>5. ASSUME NEW u \in Thread
      PROVE  /\ tcb'[u].init = tcb[u].init /\ tcb'[u].stackBuf = tcb[u].stackBuf
             /\ u # runPtr => tcb'[u].status = tcb[u].status
                              \/ {tcb[u].status, tcb'[u].status} \subseteq OnCpu
             /\ u = runPtr => tcb'[u].status = st
  <2>1. Switched(new[u], tcb'[u])
    BY <1>3
  <2>2. CASE u = runPtr
    BY <1>2, <1>4, <2>1, <2>2 DEF Switched
  <2>3. CASE u # runPtr
    BY <1>2, <2>1, <2>3 DEF Switched, OnCpu
  <2> QED
    BY <2>2, <2>3
<1> QED
  BY <1>3, <1>4, <1>5 DEF Moves

(* The running task makes room for another that is READY. *)
LEMMA YieldLemma ==
    ASSUME SchedOK(tcb, readyQueue, runPtr), runPtr # PostProc,
           Dispatch(MadeReady(tcb, runPtr), ReadyEnqueued(tcb, readyQueue, runPtr))
    PROVE  SchedOK(tcb, readyQueue, runPtr)' /\ Moves(runPtr, OnCpu)
<1> DEFINE new == MadeReady(tcb, runPtr)
           rq == ReadyEnqueued(tcb, readyQueue, runPtr)
<1>1. /\ runPtr \in Thread /\ tcb[runPtr].status = "RUNNING" /\ tcb[runPtr].init
      /\ tcb \in [Thread -> Tcb]
  BY DEF SchedOK, RunsAlone, TcbsOK
<1>2. /\ new \in [Thread -> Tcb] /\ new[runPtr].status = "READY"
      /\ new[runPtr].init = tcb[runPtr].init /\ new[runPtr].priority = tcb[runPtr].priority
      /\ new[runPtr].preempt = tcb[runPtr].preempt /\ new[runPtr].stackBuf = tcb[runPtr].stackBuf
      /\ \A u \in Thread : u # runPtr => new[u] = tcb[u]
  BY <1>1 DEF MadeReady, Tcb
<1>3. rq = ReadyEnqueued(new, readyQueue, runPtr)
  BY <1>2 DEF ReadyEnqueued
<1>4. Dispatch(new, rq)
  OBVIOUS
<1> HIDE DEF new, rq
<1>5. TcbsOK(new)
  BY <1>1, <1>2, Ids DEF SchedOK, TcbsOK
<1>6. \A u \in Thread : u # runPtr => new[u].status = tcb[u].status
                                     /\ new[u].priority = tcb[u].priority
  BY <1>2
<1>7. QueuesOK(new, rq)
  BY <1>1, <1>2, <1>3, <1>5, <1>6, EnqueueLemma DEF SchedOK
<1>8. \A t \in Thread : new[t].status # "RUNNING"
  BY <1>2 DEF SchedOK, RunsAlone
<1>9. /\ SchedOK(tcb, readyQueue, runPtr)'
      /\ \A t \in Thread : Switched(new[t], tcb'[t])
  BY <1>4, <1>5, <1>7, <1>8, DispatchLemma
<1>10. ASSUME NEW u \in Thread
       PROVE  /\ tcb'[u].init = tcb[u].init /\ tcb'[u].stackBuf = tcb[u].stackBuf
              /\ u # runPtr => tcb'[u].status = tcb[u].status
                               \/ {tcb[u].status, tcb'[u].status} \subseteq OnCpu
              /\ u = runPtr => tcb'[u].status \in OnCpu
  <2>1. Switched(new[u], tcb'[u])
    BY <1>9
  <2>2. CASE u = runPtr
    BY <1>2, <2>1, <2>2 DEF Switched, OnCpu
  <2>3. CASE u # runPtr
    BY <1>2, <2>1, <2>3 DEF Switched, OnCpu
  <2> QED
    BY <2>2, <2>3
<1> QED
  BY <1>1, <1>9, <1>10 DEF Moves

(* A scheduling point with nothing new. *)
LEMMA PointLemma ==
    ASSUME SchedOK(tcb, readyQueue, runPtr), NEW c, Resched(tcb, readyQueue, c)
    PROVE  /\ SchedOK(tcb, readyQueue, runPtr)' /\ Moves(runPtr, OnCpu)
           /\ runPtr' # runPtr => ~SchLocked(c) /\ runPtr # PostProc
<1>1. /\ SchedOK(tcb, readyQueue, runPtr)'
      /\ \A t \in Thread : Switched(tcb[t], tcb'[t])
      /\ runPtr' # runPtr => ~SchLocked(c) /\ runPtr # PostProc
  BY ReschedLemma
<1>2. runPtr \in Thread /\ tcb[runPtr].status = "RUNNING"
  BY DEF SchedOK, RunsAlone
<1> QED
  BY <1>1, <1>2 DEF Moves, Switched, OnCpu

(***************************************************************************)
(* What a step that leaves a part of the state alone preserves.            *)
(***************************************************************************)

SameBlocks == \A u \in Thread : tcb'[u].init = tcb[u].init /\ tcb'[u].stackBuf = tcb[u].stackBuf

(* No call that spawns begins, goes on or ends. *)
SameSpawns ==
    \A u \in Thread : \/ call'[u] = call[u]
                      \/ {call[u].op, call'[u].op} \cap {"spawn", "record"} = {}

LEMMA TaskFrame ==
    ASSUME SlotsOK, StacksOK, RecordOK, UNCHANGED <<taskPool, stackMem, dynStackPart, handleByPid>>,
           handle' \in [Handle -> Slot \cup {NULL}], SameBlocks, SameSpawns,
           runPtr \in Thread, runPtr' # runPtr => ~Calling(runPtr, "record")
    PROVE  SlotsOK' /\ StacksOK' /\ RecordOK'
<1>1. /\ \A s \in Slot : s \in Thread /\ tcb'[s].init = tcb[s].init
                         /\ tcb'[s].stackBuf = tcb[s].stackBuf
      /\ UNCHANGED <<taskPool, stackMem, dynStackPart>>
  BY Ids DEF SameBlocks
<1>2. SlotsOK'
  <2>1. handleByPid' = [s \in Slot |-> IF tcb'[s].init THEN s ELSE NULL]
    BY <1>1 DEF SlotsOK
  <2> QED
    BY <1>1, <2>1 DEF SlotsOK
<1>3. \A u \in Thread : Calling(u, "spawn")' => Calling(u, "spawn") /\ call'[u] = call[u]
  BY DEF SameSpawns, Calling
<1>4. StacksOK'
  <2>1. \A s \in Slot : tcb'[s].init =>
          tcb'[s].stackBuf \in Stack /\ tcb'[s].stackBuf \notin ToSet(stackMem'.freeList)
    BY <1>1 DEF StacksOK
  <2>2. \A s, r \in Slot : tcb'[s].init /\ tcb'[r].init /\ s # r =>
          tcb'[s].stackBuf # tcb'[r].stackBuf
    BY <1>1 DEF StacksOK
  <2>3. ASSUME NEW t \in Thread, Calling(t, "spawn")'
        PROVE  /\ call'[t].stackBuf \notin ToSet(stackMem'.freeList)
               /\ \A s \in Slot : tcb'[s].init => tcb'[s].stackBuf # call'[t].stackBuf
               /\ \A u \in Thread \ {t} : Calling(u, "spawn")' =>
                    call'[u].stackBuf # call'[t].stackBuf
    BY <1>1, <1>3, <2>3 DEF StacksOK
  <2> QED
    BY <1>1, <2>1, <2>2, <2>3 DEF StacksOK
<1>5. \A u \in Thread : Calling(u, "record")' <=> Calling(u, "record")
  BY DEF SameSpawns, Calling
<1>6. \A u \in Thread : Calling(u, "record") => call'[u] = call[u]
  BY DEF SameSpawns, Calling
<1>7. RecordOK'
  <2>1. dynStackPart' \subseteq {s \in Slot : tcb'[s].init}
    BY <1>1 DEF RecordOK
  <2>2. ASSUME NEW s \in Slot, tcb'[s].init, s \notin dynStackPart'
        PROVE  Calling(runPtr, "record")' /\ call'[runPtr'].slot = s
    <3>1. Calling(runPtr, "record") /\ call[runPtr].slot = s /\ runPtr' = runPtr
      BY <1>1, <2>2 DEF RecordOK
    <3> QED
      BY <1>6, <3>1 DEF Calling
  <2>3. ASSUME NEW t \in Thread, Calling(t, "record")'
        PROVE  t = runPtr' /\ call'[t].slot \in Slot \ {t} /\ tcb'[call'[t].slot].init
    <3>1. /\ t = runPtr /\ call[t].slot \in Slot \ {t} /\ tcb[call[t].slot].init /\ call'[t] = call[t]
          /\ Calling(runPtr, "record")
      BY <1>5, <1>6, <2>3 DEF RecordOK
    <3> QED
      BY <1>1, <3>1 DEF RecordOK
  <2> QED
    BY <2>1, <2>2, <2>3 DEF RecordOK
<1> QED
  BY <1>2, <1>4, <1>7

(* Who is BLOCKED, or waits for PostProc to terminate it, is still. *)
SameStatus(st) == \A u \in Thread : tcb'[u].status = st <=> tcb[u].status = st

LEMMA MovesLemma ==
    ASSUME NEW t \in Thread, NEW to, Moves(t, to), NEW st, st \notin OnCpu
    PROVE  /\ SameBlocks
           /\ \A u \in Thread : u # t => (tcb'[u].status = st <=> tcb[u].status = st)
           /\ st \notin to => tcb'[t].status # st
           /\ st \notin to /\ tcb[t].status # st => SameStatus(st)
  BY DEF Moves, SameBlocks, SameStatus

LEMMA WaitersFrame ==
    ASSUME WaitersOK, SameStatus("BLOCKED"), \A o \in Obj : obj'[o].waiters = obj[o].waiters
    PROVE  WaitersOK'
<1>1. \A o \in Obj : IsInjective(obj'[o].waiters)
  BY DEF WaitersOK
<1>2. \A o \in Obj : \A t \in ToSet(obj'[o].waiters) : t \in Slot /\ tcb'[t].status = "BLOCKED"
  BY Ids DEF WaitersOK, SameStatus
<1>3. \A t \in Thread : tcb'[t].status = "BLOCKED" => \E o \in Obj : t \in ToSet(obj'[o].waiters)
  BY DEF WaitersOK, SameStatus
<1>4. \A o, p \in Obj : o # p => ToSet(obj'[o].waiters) \cap ToSet(obj'[p].waiters) = {}
  BY DEF WaitersOK
<1> QED
  BY <1>1, <1>2, <1>3, <1>4 DEF WaitersOK

LEMMA OwnersFrame ==
    ASSUME OwnersOK, SameBlocks, SameStatus("PENDING"),
           \A o \in Obj : obj[o].owner \in Thread \cup {NULL} /\ obj'[o].owner = obj[o].owner
    PROVE  OwnersOK'
  BY DEF OwnersOK, SameBlocks, SameStatus

LEMMA JobsFrame ==
    ASSUME JobsOK, UNCHANGED jobs, SameStatus("PENDING"),
           \A u \in Thread : call[u] = NoCall => call'[u] = NoCall \/ runPtr = u,
           \A u \in Thread : tcb[u].status = "PENDING" => u # runPtr,
           jobs # <<>> => runPtr' = runPtr
    PROVE  JobsOK'
  BY DEF JobsOK, SameStatus

LEMMA ObjsFrame ==
    ASSUME ObjsOK, UNCHANGED objMem,
           obj' \in [Obj -> [init : BOOLEAN, waiters : Seq(Slot), owner : Thread \cup {NULL},
                             held : Int]],
           \A o \in Obj : obj'[o].init = obj[o].init,
           \A o \in Obj : ~obj[o].init => obj'[o] = obj[o],
           \A u \in Thread : call'[u].op = "create" => call[u].op = "create" /\ call'[u] = call[u],
           \A u \in Thread : call[u].op = "create" => call[u].o \in Obj
    PROVE  ObjsOK'
<1>1. \A o \in Obj : IF obj'[o].init THEN o \notin ToSet(objMem'[KindOf(o)].freeList)
                                     ELSE obj'[o] = ZeroedObj
  BY DEF ObjsOK
<1>2. ASSUME NEW t \in Thread, Calling(t, "create")'
      PROVE  /\ ~obj'[call'[t].o].init
             /\ call'[t].o \notin ToSet(objMem'[KindOf(call'[t].o)].freeList)
             /\ \A u \in Thread \ {t} : Calling(u, "create")' => call'[u].o # call'[t].o
  BY <1>2 DEF ObjsOK, Calling
<1> QED
  BY <1>1, <1>2 DEF ObjsOK

(* What the invariant says of the running task and of calls. *)
LEMMA Basics ==
    ASSUME ObjectsInv
    PROVE  /\ runPtr \in Thread /\ tcb[runPtr].status = "RUNNING" /\ tcb[runPtr].init
           /\ tcb \in [Thread -> Tcb]
           /\ \A u \in Thread : tcb[u].status = "RUNNING" => u = runPtr
           /\ \A u \in Thread : tcb[u].init <=> tcb[u].status \notin {"NONE", "TERMINATED"}
           /\ call[PostProc] = NoCall
           /\ runPtr # PostProc => jobs = <<>>
  BY DEF ObjectsInv, SchedOK, TcbsOK, RunsAlone, CallsOK, JobsOK

LEMMA CallTypes ==
    ASSUME CallsOK, NEW u \in Thread
    PROVE  /\ call[u].op \in {"none", "lock", "record", "create", "spawn"}
           /\ call[u].op = "none" <=> call[u] = NoCall
           /\ Calling(u, "record") => call[u].slot \in Slot
           /\ Calling(u, "create") => call[u].o \in Obj
           /\ Calling(u, "spawn") => /\ call[u].h \in Handle /\ call[u].attr \in Attr
                                     /\ call[u].stackBuf \in Stack
                                     /\ call[u] \in [op : {"spawn"}, h : Handle, attr : Attr,
                                                     stackBuf : Stack, refused : BOOLEAN]
  BY DEF CallsOK, NoCall, Calling

(* A call of the running task begins, goes on or ends. *)
SameCalls == \A u \in Thread : u # runPtr => call'[u] = call[u]

LEMMA CallStep ==
    ASSUME CallsOK, NEW t \in Thread, t # PostProc, NEW c,
           \/ c \in {NoCall} \cup [op : {"lock"}]
           \/ c \in [op : {"record"}, slot : Slot] \cup [op : {"create"}, o : Obj]
           \/ c \in [op : {"spawn"}, h : Handle, attr : Attr, stackBuf : Stack,
                     refused : BOOLEAN],
           call' = [call EXCEPT ![t] = c]
    PROVE  CallsOK' /\ call'[t] = c /\ \A u \in Thread : u # t => call'[u] = call[u]
<1> DEFINE T == {NoCall} \cup [op : {"lock"}] \cup [op : {"record"}, slot : Slot]
                   \cup [op : {"create"}, o : Obj]
                   \cup [op : {"spawn"}, h : Handle, attr : Attr, stackBuf : Stack,
                         refused : BOOLEAN]
<1>1. call \in [Thread -> T] /\ call[PostProc] = NoCall
  BY DEF CallsOK
<1>2. c \in T
  OBVIOUS
<1> HIDE DEF T
<1>3. /\ call' \in [Thread -> T] /\ call'[t] = c
      /\ \A u \in Thread : u # t => call'[u] = call[u]
  BY <1>1, <1>2
<1> QED
  BY <1>1, <1>3, Ids DEF CallsOK, T

LEMMA TaskSteady ==
    ASSUME ObjectsInv, SameBlocks, SameStatus("PENDING"), UNCHANGED taskVars, SameCalls, SameSpawns,
           runPtr' # runPtr => ~Calling(runPtr, "record") /\ runPtr # PostProc
    PROVE  SlotsOK' /\ StacksOK' /\ RecordOK' /\ JobsOK'
<1>1. UNCHANGED <<taskPool, stackMem, dynStackPart, handleByPid, handle, jobs>>
  BY DEF taskVars
<1>2. SlotsOK' /\ StacksOK' /\ RecordOK'
  BY <1>1, TaskFrame, Basics DEF ObjectsInv, SlotsOK
<1>3. JobsOK'
  BY <1>1, JobsFrame, Basics DEF ObjectsInv, SameCalls
<1> QED
  BY <1>2, <1>3

LEMMA ObjSteady ==
    ASSUME ObjectsInv, SameBlocks, SameStatus("PENDING"), SameStatus("BLOCKED"), UNCHANGED objVars,
           \A u \in Thread : call'[u] = call[u] \/ call'[u].op # "create"
    PROVE  ObjsOK' /\ WaitersOK' /\ OwnersOK'
<1>1. UNCHANGED <<objMem, obj>>
  BY DEF objVars
<1>2. ObjsOK'
  BY <1>1, ObjsFrame, CallTypes DEF ObjectsInv, ObjsOK, Calling
<1>3. WaitersOK'
  BY <1>1, WaitersFrame DEF ObjectsInv
<1>4. OwnersOK'
  BY <1>1, OwnersFrame DEF ObjectsInv, ObjsOK
<1> QED
  BY <1>2, <1>3, <1>4

(* The timeouts still armed are of tasks that still wait. *)
LEMMA ArmedSteady ==
    ASSUME ArmedOK, NEW t \in Thread, NEW to, Moves(t, to), armed' \subseteq armed, t \notin armed'
    PROVE  ArmedOK'
<1>1. ASSUME NEW s \in armed' PROVE s \in Slot /\ tcb'[s].status \in {"SLEEPING", "BLOCKED"}
  BY Ids DEF ArmedOK, Moves, OnCpu
<1> QED
  BY <1>1 DEF ArmedOK

LEMMA RunsFacts ==
    ASSUME ObjectsInv, NEW t \in Thread, Runs(t)
    PROVE  /\ t = runPtr /\ t # PostProc /\ call[t] = NoCall /\ jobs = <<>>
           /\ tcb[t].status = "RUNNING" /\ tcb[t].init /\ t \notin armed
           /\ ~Calling(runPtr, "record") /\ ~SchLocked(NoCall)
  BY Basics DEF Runs, Calling, NoCall, SchLocked, ObjectsInv, ArmedOK

LEMMA YieldStep == ASSUME ObjectsInv, NEW t \in Thread, Yield(t) PROVE ObjectsInv'
<1>1. /\ Runs(t) /\ Dispatch(MadeReady(tcb, t), ReadyEnqueued(tcb, readyQueue, t))
      /\ UNCHANGED <<taskVars, call, armed, objVars>>
  BY DEF Yield
<1>2. SchedOK(tcb, readyQueue, runPtr)' /\ Moves(t, OnCpu)
  BY <1>1, RunsFacts, YieldLemma DEF ObjectsInv
<1>3. SameBlocks /\ SameStatus("PENDING") /\ SameStatus("BLOCKED")
  BY <1>1, <1>2, RunsFacts, MovesLemma DEF OnCpu
<1>4. SlotsOK' /\ StacksOK' /\ RecordOK' /\ JobsOK'
  BY <1>1, <1>3, TaskSteady, RunsFacts DEF SameCalls, SameSpawns
<1>5. ObjsOK' /\ WaitersOK' /\ OwnersOK'
  BY <1>1, <1>3, ObjSteady
<1>6. ArmedOK'
  BY <1>1, <1>2, RunsFacts, ArmedSteady DEF ObjectsInv
<1>7. CallsOK'
  BY <1>1 DEF ObjectsInv, CallsOK
<1> QED
  BY <1>2, <1>4, <1>5, <1>6, <1>7 DEF ObjectsInv

LEMMA SleepStep == ASSUME ObjectsInv, NEW t \in Thread, Sleep(t) PROVE ObjectsInv'
<1>1. /\ Runs(t) /\ t \in Slot /\ Leave(t, "SLEEPING") /\ armed' = armed \cup {t}
      /\ UNCHANGED <<taskVars, call, objVars>>
  BY DEF Sleep
<1>2. SchedOK(tcb, readyQueue, runPtr)' /\ Moves(t, {"SLEEPING"})
  BY <1>1, RunsFacts, LeaveLemma, Ids DEF ObjectsInv
<1>3. SameBlocks /\ SameStatus("PENDING") /\ SameStatus("BLOCKED")
  BY <1>1, <1>2, RunsFacts, MovesLemma DEF OnCpu
<1>4. SlotsOK' /\ StacksOK' /\ RecordOK' /\ JobsOK'
  BY <1>1, <1>3, TaskSteady, RunsFacts DEF SameCalls, SameSpawns
<1>5. ObjsOK' /\ WaitersOK' /\ OwnersOK'
  BY <1>1, <1>3, ObjSteady
<1>6. ArmedOK'
  BY <1>1, <1>2, Ids DEF ObjectsInv, ArmedOK, Moves, OnCpu
<1>7. CallsOK'
  BY <1>1 DEF ObjectsInv, CallsOK
<1> QED
  BY <1>2, <1>4, <1>5, <1>6, <1>7 DEF ObjectsInv

LEMMA PostProcSignalStep == ASSUME ObjectsInv, PostProcSignal PROVE ObjectsInv'
<1>1. /\ tcb[PostProc].status = "SLEEPING"
      /\ Resched(MadeReady(tcb, PostProc), ReadyEnqueued(tcb, readyQueue, PostProc), call[runPtr])
      /\ UNCHANGED <<taskVars, call, armed, objVars>>
  BY DEF PostProcSignal
<1>2. tcb[PostProc].init
  BY <1>1, Ids, Basics
<1>3. /\ SchedOK(tcb, readyQueue, runPtr)' /\ Moves(PostProc, OnCpu)
      /\ runPtr' # runPtr => ~SchLocked(call[runPtr]) /\ runPtr # PostProc
  BY <1>1, <1>2, Ids, WakeLemma DEF ObjectsInv, OnCpu
<1>4. SameBlocks /\ SameStatus("PENDING") /\ SameStatus("BLOCKED")
  BY <1>1, <1>3, Ids, MovesLemma DEF OnCpu
<1>5. SlotsOK' /\ StacksOK' /\ RecordOK' /\ JobsOK'
  BY <1>1, <1>3, <1>4, TaskSteady DEF SameCalls, SameSpawns, Calling, SchLocked
<1>6. ObjsOK' /\ WaitersOK' /\ OwnersOK'
  BY <1>1, <1>4, ObjSteady
<1>7. ArmedOK'
  BY <1>1, <1>3, Ids, ArmedSteady DEF ObjectsInv, ArmedOK
<1>8. CallsOK'
  BY <1>1 DEF ObjectsInv, CallsOK
<1> QED
  BY <1>3, <1>5, <1>6, <1>7, <1>8 DEF ObjectsInv

LEMMA PostProcSleepStep == ASSUME ObjectsInv, PostProcSleep PROVE ObjectsInv'
<1>1. /\ runPtr = PostProc /\ jobs = <<>> /\ Leave(PostProc, "SLEEPING")
      /\ UNCHANGED <<taskVars, call, armed, objVars>>
  BY DEF PostProcSleep
<1>2. SchedOK(tcb, readyQueue, runPtr)' /\ Moves(PostProc, {"SLEEPING"})
  BY <1>1, Ids, LeaveLemma DEF ObjectsInv
<1>3. SameBlocks /\ SameStatus("PENDING") /\ SameStatus("BLOCKED")
  BY <1>1, <1>2, Basics, MovesLemma DEF OnCpu
<1>4. SlotsOK' /\ StacksOK' /\ RecordOK'
  <2>1. ~Calling(runPtr, "record") /\ runPtr \in Thread
    BY <1>1, Basics DEF Calling, NoCall
  <2>2. /\ UNCHANGED <<taskPool, stackMem, dynStackPart, handleByPid>> /\ SameSpawns
        /\ handle' \in [Handle -> Slot \cup {NULL}]
    BY <1>1 DEF taskVars, ObjectsInv, SlotsOK, SameSpawns
  <2> QED
    BY <1>3, <2>1, <2>2, TaskFrame DEF ObjectsInv
<1>5. JobsOK'
  <2>1. \A u \in Thread : tcb[u].status = "PENDING" => u # runPtr
    BY Basics
  <2> QED
    BY <1>1, <1>3, <2>1, JobsFrame DEF ObjectsInv, taskVars
<1>6. ObjsOK' /\ WaitersOK' /\ OwnersOK'
  BY <1>1, <1>3, ObjSteady
<1>7. ArmedOK'
  BY <1>1, <1>2, Ids, ArmedSteady DEF ObjectsInv, ArmedOK
<1>8. CallsOK'
  BY <1>1 DEF ObjectsInv, CallsOK
<1> QED
  BY <1>2, <1>4, <1>5, <1>6, <1>7, <1>8 DEF ObjectsInv

(***************************************************************************)
(* Spawning.                                                               *)
(***************************************************************************)

(* Nobody starts or stops executing. *)
LEMMA SameTasks ==
    ASSUME ObjectsInv, UNCHANGED schedVars
    PROVE  /\ SchedOK(tcb, readyQueue, runPtr)' /\ SameBlocks
           /\ SameStatus("PENDING") /\ SameStatus("BLOCKED")
           /\ UNCHANGED armed => ArmedOK'
<1>1. UNCHANGED <<tcb, readyQueue, runPtr>>
  BY DEF schedVars
<1> QED
  BY <1>1 DEF ObjectsInv, SameBlocks, SameStatus, ArmedOK

LEMMA SpawnStackStep ==
    ASSUME ObjectsInv, NEW t \in Thread, NEW h \in Handle, NEW attr \in Attr, SpawnStack(t, h, attr)
    PROVE  ObjectsInv'
<1> DEFINE b == AllocPtr(stackMem)
           c == [op |-> "spawn", h |-> h, attr |-> attr, stackBuf |-> b, refused |-> FALSE]
<1>1. /\ Runs(t) /\ CanAlloc(stackMem) /\ stackMem' = AllocRest(stackMem)
      /\ call' = [call EXCEPT ![t] = c]
      /\ UNCHANGED <<taskPool, dynStackPart, handleByPid, handle, jobs>>
      /\ UNCHANGED <<schedVars, armed, objVars>>
  BY DEF SpawnStack
<1>2. /\ b \in Stack /\ b \in ToSet(stackMem.freeList)
      /\ PartitionOK(stackMem', Stack)
      /\ ToSet(stackMem'.freeList) = ToSet(stackMem.freeList) \ {b}
  BY <1>1, AllocLemma DEF ObjectsInv, StacksOK
<1> HIDE DEF b
<1>3. c \in [op : {"spawn"}, h : Handle, attr : Attr, stackBuf : Stack,
             refused : BOOLEAN]
  BY <1>2
<1>4. CallsOK' /\ call'[t] = c /\ \A u \in Thread : u # t => call'[u] = call[u]
  BY <1>1, <1>3, RunsFacts, CallStep DEF ObjectsInv
<1>5. /\ SchedOK(tcb, readyQueue, runPtr)' /\ SameBlocks
      /\ SameStatus("PENDING") /\ SameStatus("BLOCKED") /\ ArmedOK'
  BY <1>1, SameTasks
<1>6. UNCHANGED <<tcb, runPtr>> /\ call[t].op # "record" /\ t = runPtr
  BY <1>1, RunsFacts DEF schedVars, NoCall
<1>7. SlotsOK'
  BY <1>1, <1>6 DEF ObjectsInv, SlotsOK
<1>8. RecordOK'
  BY <1>1, <1>4, <1>6 DEF ObjectsInv, RecordOK, Calling
<1>9. StacksOK'
  <2>1. /\ \A s \in Slot : tcb[s].init =>
             /\ tcb[s].stackBuf \in Stack /\ tcb[s].stackBuf \notin ToSet(stackMem'.freeList)
             /\ tcb[s].stackBuf # b
        /\ \A s, r \in Slot : tcb[s].init /\ tcb[r].init /\ s # r =>
             tcb[s].stackBuf # tcb[r].stackBuf
    BY <1>2 DEF ObjectsInv, StacksOK
  <2>2. \A u \in Thread : u # t /\ call[u].op = "spawn" =>
             call[u].stackBuf \notin ToSet(stackMem'.freeList) /\ call[u].stackBuf # b
    BY <1>2 DEF ObjectsInv, StacksOK, Calling
  <2>3. ASSUME NEW u \in Thread, call'[u].op = "spawn"
        PROVE  /\ call'[u].stackBuf \notin ToSet(stackMem'.freeList)
               /\ \A s \in Slot : tcb[s].init => tcb[s].stackBuf # call'[u].stackBuf
               /\ \A v \in Thread \ {u} : call'[v].op = "spawn" =>
                    call'[v].stackBuf # call'[u].stackBuf
    <3>1. CASE u = t
      BY <1>2, <1>4, <2>1, <2>2, <3>1
    <3>2. CASE u # t
      <4>1. call[u].op = "spawn" /\ call'[u] = call[u]
        BY <1>4, <2>3, <3>2
      <4>2. \A s \in Slot : tcb[s].init => tcb[s].stackBuf # call'[u].stackBuf
        BY <4>1 DEF ObjectsInv, StacksOK, Calling
      <4>3. \A v \in Thread \ {u} : call[v].op = "spawn" => call[v].stackBuf # call'[u].stackBuf
        BY <4>1 DEF ObjectsInv, StacksOK, Calling
      <4> QED
        BY <1>4, <2>2, <3>2, <4>1, <4>2, <4>3
    <3> QED
      BY <3>1, <3>2
  <2> QED
    BY <1>2, <1>6, <2>1, <2>3 DEF StacksOK, Calling
<1>10. JobsOK'
  BY <1>1, <1>4, <1>5, <1>6, RunsFacts, Basics, JobsFrame DEF ObjectsInv
<1>11. ObjsOK' /\ WaitersOK' /\ OwnersOK'
  <2>1. \A u \in Thread : call'[u] = call[u] \/ call'[u].op # "create"
    BY <1>4
  <2> QED
    BY <1>1, <1>5, <2>1, ObjSteady
<1> QED
  BY <1>4, <1>5, <1>7, <1>8, <1>9, <1>10, <1>11 DEF ObjectsInv

(* The task in a call runs, and it is not PostProc. *)
LEMMA InCallFacts ==
    ASSUME ObjectsInv, NEW t \in Thread, NEW op, op # "none", InCall(t, op)
    PROVE  /\ t = runPtr /\ t # PostProc /\ call[t].op = op /\ Calling(t, op) /\ jobs = <<>>
           /\ tcb[t].status = "RUNNING" /\ tcb[t].init /\ t \notin armed
  BY Basics DEF InCall, Calling, NoCall, ObjectsInv, ArmedOK

LEMMA SpawnRefusedStep ==
    ASSUME ObjectsInv, NEW t \in Thread, SpawnRefused(t)
    PROVE  ObjectsInv'
<1> DEFINE c == [call[t] EXCEPT !.refused = TRUE]
<1>1. /\ InCall(t, "spawn") /\ handle' = [handle EXCEPT ![call[t].h] = NULL]
      /\ call' = [call EXCEPT ![t] = c]
      /\ UNCHANGED <<taskPool, stackMem, dynStackPart, handleByPid, jobs>>
      /\ UNCHANGED <<schedVars, armed, objVars>>
  BY DEF SpawnRefused
<1>2. /\ t = runPtr /\ t # PostProc /\ call[t].op = "spawn" /\ Calling(t, "spawn") /\ jobs = <<>>
  BY <1>1, InCallFacts
<1>3. /\ c \in [op : {"spawn"}, h : Handle, attr : Attr, stackBuf : Stack, refused : BOOLEAN]
      /\ c.stackBuf = call[t].stackBuf /\ c.op = "spawn"
  <2>1. call[t] \in [op : {"spawn"}, h : Handle, attr : Attr, stackBuf : Stack, refused : BOOLEAN]
    BY <1>2, CallTypes DEF ObjectsInv
  <2> QED
    BY <2>1
<1> HIDE DEF c
<1>4. CallsOK' /\ call'[t] = c /\ \A u \in Thread : u # t => call'[u] = call[u]
  BY <1>1, <1>2, <1>3, CallStep DEF ObjectsInv
<1>5. /\ SchedOK(tcb, readyQueue, runPtr)' /\ SameBlocks
      /\ SameStatus("PENDING") /\ SameStatus("BLOCKED") /\ ArmedOK'
  BY <1>1, SameTasks
<1>6. UNCHANGED <<tcb, runPtr>>
  BY <1>1 DEF schedVars
<1>7. SlotsOK'
  <2>1. handle' \in [Handle -> Slot \cup {NULL}]
    BY <1>1 DEF ObjectsInv, SlotsOK
  <2> QED
    BY <1>1, <1>6, <2>1 DEF ObjectsInv, SlotsOK
<1>8. RecordOK'
  BY <1>1, <1>2, <1>3, <1>4, <1>6 DEF ObjectsInv, RecordOK, Calling
<1>9. StacksOK'
  <2>1. ASSUME NEW u \in Thread
        PROVE  /\ call'[u].op = "spawn" <=> call[u].op = "spawn"
               /\ call[u].op = "spawn" => call'[u].stackBuf = call[u].stackBuf
    BY <1>2, <1>3, <1>4
  <2> QED
    BY <1>1, <1>6, <2>1 DEF ObjectsInv, StacksOK, Calling
<1>10. JobsOK'
  BY <1>1, <1>2, <1>4, <1>5, <1>6, Basics, JobsFrame DEF ObjectsInv
<1>11. ObjsOK' /\ WaitersOK' /\ OwnersOK'
  <2>1. \A u \in Thread : call'[u] = call[u] \/ call'[u].op # "create"
    BY <1>3, <1>4
  <2> QED
    BY <1>1, <1>5, <2>1, ObjSteady
<1> QED
  BY <1>4, <1>5, <1>7, <1>8, <1>9, <1>10, <1>11 DEF ObjectsInv

LEMMA SpawnFailsStep ==
    ASSUME ObjectsInv, NEW t \in Thread, SpawnFails(t)
    PROVE  ObjectsInv'
<1> DEFINE b == call[t].stackBuf
<1>1. /\ InCall(t, "spawn") /\ stackMem' = FreeBlock(stackMem, b)
      /\ call' = [call EXCEPT ![t] = NoCall]
      /\ UNCHANGED <<taskPool, dynStackPart, handleByPid, handle, jobs>>
      /\ UNCHANGED <<schedVars, armed, objVars>>
  BY DEF SpawnFails
<1>2. /\ t = runPtr /\ t # PostProc /\ call[t].op = "spawn" /\ Calling(t, "spawn") /\ jobs = <<>>
  BY <1>1, InCallFacts
<1>3. CallsOK' /\ call'[t] = NoCall /\ \A u \in Thread : u # t => call'[u] = call[u]
  BY <1>1, <1>2, CallStep DEF ObjectsInv
<1>4. b \in Stack /\ b \notin ToSet(stackMem.freeList)
  BY <1>2, CallTypes DEF ObjectsInv, StacksOK
<1> HIDE DEF b
<1>5. /\ PartitionOK(stackMem', Stack)
      /\ ToSet(stackMem'.freeList) = ToSet(stackMem.freeList) \cup {b}
  BY <1>1, <1>4, FreeLemma DEF ObjectsInv, StacksOK
<1>6. /\ SchedOK(tcb, readyQueue, runPtr)' /\ SameBlocks
      /\ SameStatus("PENDING") /\ SameStatus("BLOCKED") /\ ArmedOK'
  BY <1>1, SameTasks
<1>7. UNCHANGED <<tcb, runPtr>>
  BY <1>1 DEF schedVars
<1>8. SlotsOK'
  BY <1>1, <1>7 DEF ObjectsInv, SlotsOK
<1>9. RecordOK'
  BY <1>1, <1>2, <1>3, <1>7 DEF ObjectsInv, RecordOK, Calling, NoCall
<1>10. StacksOK'
  <2>1. \A s \in Slot : tcb[s].init =>
          tcb[s].stackBuf \in Stack /\ tcb[s].stackBuf \notin ToSet(stackMem'.freeList)
    BY <1>2, <1>5 DEF ObjectsInv, StacksOK, b
  <2>2. ASSUME NEW u \in Thread, call'[u].op = "spawn"
        PROVE  /\ u # t /\ call'[u] = call[u] /\ call[u].op = "spawn"
               /\ call'[u].stackBuf \notin ToSet(stackMem'.freeList)
    <3>1. u # t /\ call'[u] = call[u] /\ call[u].op = "spawn"
      BY <1>3, <2>2 DEF NoCall
    <3> QED
      BY <1>2, <1>5, <3>1 DEF ObjectsInv, StacksOK, Calling, b
  <2>3. ASSUME NEW u \in Thread, call'[u].op = "spawn"
        PROVE  /\ \A s \in Slot : tcb[s].init => tcb[s].stackBuf # call'[u].stackBuf
               /\ \A v \in Thread \ {u} : call'[v].op = "spawn" =>
                    call'[v].stackBuf # call'[u].stackBuf
    BY <2>2, <2>3 DEF ObjectsInv, StacksOK, Calling
  <2>4. \A s, r \in Slot : tcb[s].init /\ tcb[r].init /\ s # r => tcb[s].stackBuf # tcb[r].stackBuf
    BY DEF ObjectsInv, StacksOK
  <2> QED
    BY <1>5, <1>7, <2>1, <2>2, <2>3, <2>4 DEF StacksOK, Calling
<1>11. JobsOK'
  BY <1>1, <1>2, <1>3, <1>6, <1>7, Basics, JobsFrame DEF ObjectsInv
<1>12. ObjsOK' /\ WaitersOK' /\ OwnersOK'
  <2>1. \A u \in Thread : call'[u] = call[u] \/ call'[u].op # "create"
    BY <1>3 DEF NoCall
  <2> QED
    BY <1>1, <1>6, <2>1, ObjSteady
<1> QED
  BY <1>3, <1>6, <1>8, <1>9, <1>10, <1>11, <1>12 DEF ObjectsInv

LEMMA SpawnRecordStep ==
    ASSUME ObjectsInv, NEW t \in Thread, SpawnRecord(t)
    PROVE  ObjectsInv'
<1> DEFINE s == call[t].slot
<1>1. /\ InCall(t, "record") /\ dynStackPart' = dynStackPart \cup {s}
      /\ call' = [call EXCEPT ![t] = NoCall] /\ Resched(tcb, readyQueue, NoCall)
      /\ UNCHANGED <<taskPool, stackMem, handleByPid, handle, jobs>>
      /\ UNCHANGED <<armed, objVars>>
  BY DEF SpawnRecord
<1>2. /\ t = runPtr /\ t # PostProc /\ call[t].op = "record" /\ Calling(t, "record") /\ jobs = <<>>
      /\ tcb[t].status = "RUNNING" /\ t \notin armed
  BY <1>1, InCallFacts
<1>3. CallsOK' /\ call'[t] = NoCall /\ \A u \in Thread : u # t => call'[u] = call[u]
  BY <1>1, <1>2, CallStep DEF ObjectsInv
<1>4. s \in Slot /\ tcb[s].init
  BY <1>2 DEF ObjectsInv, RecordOK
<1>5. SchedOK(tcb, readyQueue, runPtr)' /\ Moves(t, OnCpu)
  BY <1>1, <1>2, PointLemma DEF ObjectsInv
<1>6. SameBlocks /\ SameStatus("PENDING") /\ SameStatus("BLOCKED")
  BY <1>2, <1>5, MovesLemma DEF OnCpu
<1>7. \A r \in Slot : tcb'[r].init = tcb[r].init /\ tcb'[r].stackBuf = tcb[r].stackBuf
  BY <1>6, Ids DEF SameBlocks
<1>8. SlotsOK'
  <2>1. handleByPid' = [r \in Slot |-> IF tcb'[r].init THEN r ELSE NULL]
    BY <1>1, <1>7 DEF ObjectsInv, SlotsOK
  <2> QED
    BY <1>1, <1>7, <2>1 DEF ObjectsInv, SlotsOK
<1>9. StacksOK'
  <2>1. \A r \in Slot : tcb'[r].init =>
          tcb'[r].stackBuf \in Stack /\ tcb'[r].stackBuf \notin ToSet(stackMem'.freeList)
    BY <1>1, <1>7 DEF ObjectsInv, StacksOK
  <2>2. \A p, r \in Slot : tcb'[p].init /\ tcb'[r].init /\ p # r =>
          tcb'[p].stackBuf # tcb'[r].stackBuf
    BY <1>7 DEF ObjectsInv, StacksOK
  <2>3. \A u \in Thread : call'[u].op = "spawn" => call'[u] = call[u]
    BY <1>3 DEF NoCall
  <2>4. ASSUME NEW u \in Thread, call'[u].op = "spawn"
        PROVE  /\ call'[u].stackBuf \notin ToSet(stackMem'.freeList)
               /\ \A r \in Slot : tcb'[r].init => tcb'[r].stackBuf # call'[u].stackBuf
               /\ \A v \in Thread \ {u} : call'[v].op = "spawn" =>
                    call'[v].stackBuf # call'[u].stackBuf
    BY <1>1, <1>7, <2>3, <2>4 DEF ObjectsInv, StacksOK, Calling
  <2> QED
    BY <1>1, <2>1, <2>2, <2>4 DEF ObjectsInv, StacksOK, Calling
<1>10. RecordOK'
  <2>1. dynStackPart' \subseteq {r \in Slot : tcb'[r].init}
    BY <1>1, <1>4, <1>7 DEF ObjectsInv, RecordOK
  <2>2. \A r \in Slot : tcb'[r].init => r \in dynStackPart'
    BY <1>1, <1>2, <1>7 DEF ObjectsInv, RecordOK
  <2>3. \A u \in Thread : call'[u].op # "record"
    BY <1>2, <1>3 DEF ObjectsInv, RecordOK, NoCall, Calling
  <2> QED
    BY <2>1, <2>2, <2>3 DEF RecordOK, Calling
<1>11. JobsOK'
  BY <1>1, <1>2, <1>3, <1>6, Basics, JobsFrame DEF ObjectsInv
<1>12. ObjsOK' /\ WaitersOK' /\ OwnersOK'
  <2>1. \A u \in Thread : call'[u] = call[u] \/ call'[u].op # "create"
    BY <1>3 DEF NoCall
  <2> QED
    BY <1>1, <1>6, <2>1, ObjSteady
<1>13. ArmedOK'
  BY <1>1, <1>2, <1>5, ArmedSteady DEF ObjectsInv
<1> QED
  BY <1>3, <1>5, <1>8, <1>9, <1>10, <1>11, <1>12, <1>13 DEF ObjectsInv

LEMMA SpawnInitStep ==
    ASSUME ObjectsInv, NEW t \in Thread, SpawnInit(t)
    PROVE  ObjectsInv'
<1> DEFINE s == AllocPtr(taskPool)
           c == call[t]
           new == [tcb EXCEPT ![s] = [init |-> TRUE, status |-> "READY", priority |-> c.attr.prio,
                                      preempt |-> c.attr.preempt, stackBuf |-> c.stackBuf]]
           rq == ReadyEnqueued(new, readyQueue, s)
           after == [op |-> "record", slot |-> s]
<1>1. /\ InCall(t, "spawn") /\ CanAlloc(taskPool) /\ taskPool' = AllocRest(taskPool)
      /\ handle' = [handle EXCEPT ![c.h] = s]
      /\ handleByPid' = [handleByPid EXCEPT ![s] = s]
      /\ dynStackPart' = dynStackPart \ {s} /\ call' = [call EXCEPT ![t] = after]
      /\ Resched(new, rq, after) /\ UNCHANGED <<stackMem, jobs, armed, objVars>>
  BY DEF SpawnInit
<1>2. /\ t = runPtr /\ t # PostProc /\ call[t].op = "spawn" /\ Calling(t, "spawn") /\ jobs = <<>>
      /\ tcb[t].status = "RUNNING" /\ tcb[t].init /\ t \notin armed
  BY <1>1, InCallFacts
<1>3. c.h \in Handle /\ c.attr.prio \in {0, 1} /\ c.attr.preempt \in BOOLEAN /\ c.stackBuf \in Stack
  <2>1. c.h \in Handle /\ c.attr \in [prio : {0, 1}, preempt : BOOLEAN] /\ c.stackBuf \in Stack
    BY <1>2, CallTypes, Ids DEF ObjectsInv
  <2> QED
    BY <2>1
<1>4. /\ s \in Slot /\ s \in ToSet(taskPool.freeList) /\ PartitionOK(taskPool', Slot)
      /\ ToSet(taskPool'.freeList) = ToSet(taskPool.freeList) \ {s}
  BY <1>1, AllocLemma DEF ObjectsInv, SlotsOK
<1>5. s \in Thread /\ ~tcb[s].init /\ tcb[s].status \in {"NONE", "TERMINATED"} /\ s # t
      /\ s # Main /\ s # PostProc
  BY <1>2, <1>4, Ids, Basics DEF ObjectsInv, SlotsOK
<1>6. tcb \in [Thread -> Tcb]
  BY Basics
<1> HIDE DEF s, c
<1>7. /\ new \in [Thread -> Tcb] /\ new[s].init /\ new[s].status = "READY"
      /\ new[s].stackBuf = c.stackBuf
      /\ \A u \in Thread : u # s => new[u] = tcb[u]
  BY <1>3, <1>5, <1>6 DEF Tcb
<1> HIDE DEF new
<1>8. TcbsOK(new)
  BY <1>5, <1>7, Ids DEF ObjectsInv, SchedOK, TcbsOK
<1>9. QueuesOK(new, rq)
  <2>1. QueuesOK(tcb, readyQueue) /\ tcb[s].status # "READY"
    BY <1>5 DEF ObjectsInv, SchedOK
  <2>2. \A u \in Thread : u # s => new[u].status = tcb[u].status /\ new[u].priority = tcb[u].priority
    BY <1>7
  <2> QED
    BY <1>5, <1>7, <1>8, <2>1, <2>2, EnqueueLemma
<1>10. RunsAlone(new, runPtr)
  BY <1>2, <1>5, <1>7 DEF ObjectsInv, SchedOK, RunsAlone
<1>11. SchedOK(new, rq, runPtr) /\ SchLocked(after)
  BY <1>8, <1>9, <1>10 DEF SchedOK, SchLocked
<1> HIDE DEF rq
<1>12. /\ SchedOK(tcb, readyQueue, runPtr)' /\ runPtr' = runPtr
       /\ \A u \in Thread : Switched(new[u], tcb'[u])
  BY <1>1, <1>11, ReschedLemma
<1>13. ASSUME NEW u \in Thread, u # s
       PROVE  /\ tcb'[u].init = tcb[u].init /\ tcb'[u].stackBuf = tcb[u].stackBuf
              /\ tcb'[u].status = tcb[u].status \/ {tcb[u].status, tcb'[u].status} \subseteq OnCpu
  BY <1>7, <1>12, <1>13 DEF Switched, OnCpu
<1>14. tcb'[s].init /\ tcb'[s].stackBuf = c.stackBuf /\ tcb'[s].status \in OnCpu
  BY <1>5, <1>7, <1>12 DEF Switched, OnCpu
<1>15. SameStatus("PENDING") /\ SameStatus("BLOCKED")
  BY <1>5, <1>13, <1>14 DEF SameStatus, OnCpu
<1>16. CallsOK' /\ call'[t] = after /\ \A u \in Thread : u # t => call'[u] = call[u]
  <2>1. after \in [op : {"record"}, slot : Slot]
    BY <1>4
  <2> QED
    BY <1>1, <1>2, <2>1, CallStep DEF ObjectsInv
<1>17. SlotsOK'
  <2>1. \A r \in Slot : tcb'[r].init <=> r \notin ToSet(taskPool'.freeList)
    BY <1>4, <1>13, <1>14, Ids DEF ObjectsInv, SlotsOK
  <2>2. handle' \in [Handle -> Slot \cup {NULL}]
    BY <1>1, <1>3, <1>4 DEF ObjectsInv, SlotsOK
  <2>3. handleByPid' = [r \in Slot |-> IF tcb'[r].init THEN r ELSE NULL]
    BY <1>1, <1>4, <1>13, <1>14, Ids DEF ObjectsInv, SlotsOK
  <2> QED
    BY <1>4, <2>1, <2>2, <2>3 DEF SlotsOK
<1>18. StacksOK'
  <2>1. /\ c.stackBuf \in Stack /\ c.stackBuf \notin ToSet(stackMem.freeList)
        /\ \A r \in Slot : tcb[r].init => tcb[r].stackBuf # c.stackBuf
        /\ \A u \in Thread \ {t} : call[u].op = "spawn" => call[u].stackBuf # c.stackBuf
    BY <1>2, <1>3 DEF ObjectsInv, StacksOK, Calling, c
  <2>2. ASSUME NEW r \in Slot, tcb'[r].init
        PROVE  tcb'[r].stackBuf \in Stack /\ tcb'[r].stackBuf \notin ToSet(stackMem.freeList)
    BY <1>13, <1>14, <2>1, <2>2, Ids DEF ObjectsInv, StacksOK
  <2>3. ASSUME NEW p \in Slot, NEW r \in Slot, tcb'[p].init, tcb'[r].init, p # r
        PROVE  tcb'[p].stackBuf # tcb'[r].stackBuf
    BY <1>13, <1>14, <2>1, <2>3, Ids DEF ObjectsInv, StacksOK
  <2>4. ASSUME NEW u \in Thread, call'[u].op = "spawn"
        PROVE  /\ call'[u].stackBuf \notin ToSet(stackMem.freeList)
               /\ \A r \in Slot : tcb'[r].init => tcb'[r].stackBuf # call'[u].stackBuf
               /\ \A v \in Thread \ {u} : call'[v].op = "spawn" =>
                    call'[v].stackBuf # call'[u].stackBuf
    <3>1. u # t /\ call'[u] = call[u] /\ \A v \in Thread : call'[v].op = "spawn" => call'[v] = call[v]
      BY <1>16, <2>4
    <3>2. /\ call'[u].stackBuf \notin ToSet(stackMem.freeList)
          /\ \A v \in Thread \ {u} : call'[v].op = "spawn" => call'[v].stackBuf # call'[u].stackBuf
      BY <2>4, <3>1 DEF ObjectsInv, StacksOK, Calling
    <3>3. ASSUME NEW r \in Slot, tcb'[r].init PROVE tcb'[r].stackBuf # call'[u].stackBuf
      BY <1>13, <1>14, <2>1, <2>4, <3>1, <3>3, Ids DEF ObjectsInv, StacksOK, Calling
    <3> QED
      BY <3>2, <3>3
  <2>5. stackMem' = stackMem
    BY <1>1
  <2> QED
    BY <2>2, <2>3, <2>4, <2>5 DEF ObjectsInv, StacksOK, Calling
<1>19. RecordOK'
  <2>1. \A u \in Thread : call[u].op # "record"
    BY <1>2 DEF ObjectsInv, RecordOK, Calling
  <2>2. \A u \in Thread : call'[u].op = "record" => u = t
    BY <1>16, <2>1
  <2>3. \A r \in Slot : tcb[r].init => r \in dynStackPart
    BY <1>2, <2>1 DEF ObjectsInv, RecordOK, Calling
  <2>4. dynStackPart' \subseteq {r \in Slot : tcb'[r].init}
    BY <1>1, <1>13, Ids DEF ObjectsInv, RecordOK
  <2>5. ASSUME NEW r \in Slot, tcb'[r].init, r \notin dynStackPart'
        PROVE  r = s
    BY <1>1, <1>13, <2>3, <2>5, Ids
  <2>6. call'[runPtr'].op = "record" /\ call'[runPtr'].slot = s /\ runPtr' = t
    BY <1>2, <1>12, <1>16
  <2> QED
    BY <1>4, <1>5, <1>14, <2>2, <2>4, <2>5, <2>6 DEF RecordOK, Calling
<1>20. JobsOK'
  BY <1>1, <1>2, <1>12, <1>15, <1>16, Basics, JobsFrame DEF ObjectsInv
<1>21. UNCHANGED <<objMem, obj>>
  BY <1>1 DEF objVars
<1>22. ObjsOK'
  <2>1. \A u \in Thread : call'[u].op = "create" => call[u].op = "create" /\ call'[u] = call[u]
    BY <1>16
  <2> QED
    BY <1>21, <2>1, ObjsFrame, CallTypes DEF ObjectsInv, ObjsOK, Calling
<1>23. WaitersOK'
  BY <1>15, <1>21, WaitersFrame DEF ObjectsInv
<1>24. OwnersOK'
  BY <1>5, <1>13, <1>15, <1>21 DEF ObjectsInv, ObjsOK, OwnersOK, SameStatus
<1>25. ArmedOK'
  <2>1. armed' = armed /\ s \notin armed
    BY <1>1, <1>5 DEF ObjectsInv, ArmedOK
  <2> QED
    BY <1>13, <2>1, Ids DEF ObjectsInv, ArmedOK, OnCpu
<1> QED
  BY <1>12, <1>16, <1>17, <1>18, <1>19, <1>20, <1>22, <1>23, <1>24, <1>25 DEF ObjectsInv

(***************************************************************************)
(* Terminating.                                                            *)
(***************************************************************************)

(* The running task hands itself over to PostProc, which runs next. *)
LEMMA HandOver ==
    ASSUME ObjectsInv, NEW t \in Thread, NEW handles, TerminateRunning(t, handles)
    PROVE  /\ SchedOK(tcb, readyQueue, runPtr)' /\ runPtr' = PostProc
           /\ \A u \in Thread : tcb'[u].init = tcb[u].init /\ tcb'[u].stackBuf = tcb[u].stackBuf
           /\ \A u \in Thread : u \notin {t, PostProc} =>
                 tcb'[u].status = tcb[u].status \/ {tcb[u].status, tcb'[u].status} \subseteq OnCpu
           /\ tcb'[t].status = "PENDING"
<1> DEFINE pp == tcb[PostProc].status = "SLEEPING"
           gone == Left(tcb, t, "PENDING")
           new == IF pp THEN MadeReady(gone, PostProc) ELSE gone
           rq == IF pp THEN ReadyEnqueued(tcb, readyQueue, PostProc) ELSE readyQueue
<1>1. Runs(t) /\ Terminable(t) /\ Dispatch(new, rq)
  BY DEF TerminateRunning, Left
<1>2. /\ t = runPtr /\ t # PostProc /\ t \in Slot /\ tcb[t].status = "RUNNING" /\ t # Main
  BY <1>1, RunsFacts, Ids DEF Terminable
<1>3. SchedOK(tcb, readyQueue, t)
  BY <1>2 DEF ObjectsInv
<1>4. /\ TcbsOK(gone) /\ QueuesOK(gone, readyQueue)
      /\ \A u \in Thread : gone[u].status # "RUNNING"
      /\ gone[t].status = "PENDING" /\ gone[t].init /\ gone[t].stackBuf = tcb[t].stackBuf
      /\ \A u \in Thread : u # t => gone[u] = tcb[u]
  BY <1>2, <1>3, LeavesLemma
<1> HIDE DEF gone
<1>5. PostProc \in Thread /\ gone[PostProc] = tcb[PostProc] /\ tcb[PostProc].init
  BY <1>2, <1>4, Ids, Basics DEF ObjectsInv, SchedOK, TcbsOK
<1>6. /\ TcbsOK(new) /\ QueuesOK(new, rq)
      /\ \A u \in Thread : new[u].status # "RUNNING"
      /\ new[PostProc].status = "READY" /\ new[PostProc].init
      /\ new[PostProc].stackBuf = tcb[PostProc].stackBuf
      /\ \A u \in Thread : u # PostProc => new[u] = gone[u]
  <2>1. CASE pp
    <3> DEFINE made == MadeReady(gone, PostProc)
    <3>1. /\ TcbsOK(made) /\ made[PostProc].status = "READY" /\ made[PostProc].init
          /\ made[PostProc].priority = gone[PostProc].priority
          /\ made[PostProc].stackBuf = gone[PostProc].stackBuf
          /\ \A u \in Thread : u # PostProc => made[u] = gone[u]
      BY <1>4, <1>5, Ids, MadeReadyLemma
    <3>2. new = made /\ rq = ReadyEnqueued(made, readyQueue, PostProc)
      BY <1>5, <2>1, <3>1 DEF ReadyEnqueued
    <3> HIDE DEF made, new, rq
    <3>3. \A u \in Thread : u # PostProc =>
             made[u].status = gone[u].status /\ made[u].priority = gone[u].priority
      BY <3>1
    <3>4. gone[PostProc].status # "READY"
      BY <1>5, <2>1
    <3>5. QueuesOK(made, ReadyEnqueued(made, readyQueue, PostProc))
      BY <1>4, <1>5, <3>1, <3>3, <3>4, EnqueueLemma
    <3>6. \A u \in Thread : made[u].status # "RUNNING"
      BY <1>4, <3>1
    <3> QED
      BY <1>5, <3>1, <3>2, <3>5, <3>6
  <2>2. CASE ~pp
    <3>1. gone[PostProc].status = "READY"
      BY <1>2, <1>4, <1>5, <2>2 DEF TcbsOK
    <3> QED
      BY <1>4, <1>5, <2>2, <3>1
  <2> QED
    BY <2>1, <2>2
<1> HIDE DEF new, rq
<1>7. /\ SchedOK(tcb, readyQueue, runPtr)' /\ runPtr' = PostProc
      /\ \A u \in Thread : Switched(new[u], tcb'[u])
  BY <1>1, <1>6, DispatchLemma
<1>8. ASSUME NEW u \in Thread
      PROVE  /\ tcb'[u].init = tcb[u].init /\ tcb'[u].stackBuf = tcb[u].stackBuf
             /\ u \notin {t, PostProc} =>
                  tcb'[u].status = tcb[u].status \/ {tcb[u].status, tcb'[u].status} \subseteq OnCpu
             /\ u = t => tcb'[u].status = "PENDING"
  <2>1. Switched(new[u], tcb'[u])
    BY <1>7
  <2>2. tcb[t].init
    BY <1>2, Basics
  <2>3. CASE u = PostProc
    BY <1>2, <1>5, <1>6, <2>1, <2>3 DEF Switched
  <2>4. CASE u = t
    BY <1>2, <1>4, <1>6, <2>1, <2>2, <2>4 DEF Switched
  <2>5. CASE u \notin {t, PostProc}
    BY <1>4, <1>6, <2>1, <2>5 DEF Switched, OnCpu
  <2> QED
    BY <2>3, <2>4, <2>5
<1> QED
  BY <1>7, <1>8

LEMMA TerminateRunningStep ==
    ASSUME ObjectsInv, NEW t \in Thread, NEW handles \in [Handle -> Slot \cup {NULL}],
           TerminateRunning(t, handles)
    PROVE  ObjectsInv'
<1>1. /\ Runs(t) /\ Terminable(t) /\ jobs' = Append(jobs, t) /\ handle' = handles
      /\ UNCHANGED <<taskPool, stackMem, dynStackPart, handleByPid, call, armed, objVars>>
  BY DEF TerminateRunning
<1>2. /\ t = runPtr /\ t # PostProc /\ t \in Slot /\ call[t] = NoCall /\ jobs = <<>>
      /\ tcb[t].status = "RUNNING" /\ t \notin armed /\ ~Calling(runPtr, "record") /\ ~Owns(t)
  BY <1>1, RunsFacts DEF Terminable
<1>3. /\ SchedOK(tcb, readyQueue, runPtr)' /\ runPtr' = PostProc
      /\ \A u \in Thread : tcb'[u].init = tcb[u].init /\ tcb'[u].stackBuf = tcb[u].stackBuf
      /\ \A u \in Thread : u \notin {t, PostProc} =>
            tcb'[u].status = tcb[u].status \/ {tcb[u].status, tcb'[u].status} \subseteq OnCpu
      /\ tcb'[t].status = "PENDING"
  BY HandOver
<1>4. tcb[PostProc].status \notin {"BLOCKED", "PENDING"} /\ tcb'[PostProc].status = "RUNNING"
  BY <1>3, Ids DEF ObjectsInv, SchedOK, TcbsOK, RunsAlone
<1>5. SameBlocks /\ SameStatus("BLOCKED") /\ SameSpawns
  BY <1>1, <1>2, <1>3, <1>4 DEF SameBlocks, SameStatus, OnCpu, SameSpawns
<1>6. SlotsOK' /\ StacksOK' /\ RecordOK'
  BY <1>1, <1>2, <1>5, TaskFrame DEF ObjectsInv
<1>7. JobsOK'
  <2>1. \A u \in Thread : tcb[u].status # "PENDING"
    BY <1>2, ToSetEmpty DEF ObjectsInv, JobsOK
  <2>2. \A u \in Thread : tcb'[u].status = "PENDING" <=> u = t
    BY <1>3, <1>4, <2>1 DEF OnCpu
  <2>3. /\ jobs' \in Seq(Slot) /\ IsInjective(jobs') /\ ToSet(jobs') = {t}
    <3>1. t \in Slot /\ jobs \in Seq(Slot) /\ IsInjective(jobs) /\ ToSet(jobs) = {}
      BY <1>2, ToSetEmpty DEF ObjectsInv, JobsOK
    <3>2. /\ Append(jobs, t) \in Seq(Slot) /\ IsInjective(Append(jobs, t))
          /\ ToSet(Append(jobs, t)) = ToSet(jobs) \cup {t}
      BY <3>1, AppendLemma
    <3> QED
      BY <1>1, <3>1, <3>2
  <2>4. call'[t] = NoCall /\ runPtr' = PostProc
    BY <1>1, <1>2, <1>3
  <2> QED
    BY <2>2, <2>3, <2>4 DEF JobsOK
<1>8. UNCHANGED <<objMem, obj, call, armed>>
  BY <1>1 DEF objVars
<1>9. ObjsOK' /\ CallsOK'
  BY <1>8 DEF ObjectsInv, ObjsOK, CallsOK, Calling
<1>10. WaitersOK'
  BY <1>5, <1>8, WaitersFrame DEF ObjectsInv
<1>11. OwnersOK'
  <2>1. \A o \in Obj : obj[o].owner # t
    BY <1>2 DEF Owns
  <2>2. \A o \in Obj : obj[o].owner # NULL => obj[o].owner \in Thread
    BY DEF ObjectsInv, ObjsOK
  <2>3. \A u \in Thread : u # t /\ tcb'[u].status = "PENDING" => tcb[u].status = "PENDING"
    BY <1>3, <1>4 DEF OnCpu
  <2> QED
    BY <1>3, <1>8, <2>1, <2>2, <2>3 DEF ObjectsInv, OwnersOK
<1>12. ArmedOK'
  <2>1. \A s \in armed : s \in Thread /\ s \notin {t, PostProc}
    BY <1>2, Ids DEF ObjectsInv, ArmedOK
  <2> QED
    BY <1>3, <1>8, <2>1 DEF ObjectsInv, ArmedOK, OnCpu
<1> QED
  BY <1>3, <1>6, <1>7, <1>9, <1>10, <1>11, <1>12 DEF ObjectsInv

(* A task that does not run ends; its blocks go back to their pools. *)
LEMMA TerminatedStep ==
    ASSUME ObjectsInv, NEW s \in Slot, Terminated(s), s # runPtr,
           call[runPtr] = NoCall, runPtr' = runPtr,
           handleByPid' = [handleByPid EXCEPT ![s] = NULL],
           handle' \in [Handle -> Slot \cup {NULL}],
           \/ UNCHANGED jobs /\ jobs = <<>>
           \/ jobs # <<>> /\ Head(jobs) = s /\ jobs' = Tail(jobs)
    PROVE  ObjectsInv'
<1> DEFINE dead == [Zeroed EXCEPT !.status = "TERMINATED"]
           b == tcb[s].stackBuf
<1>1. /\ Terminable(s) /\ tcb[s].status \in {"READY", "SLEEPING", "PENDING"}
      /\ readyQueue' = [p \in {0, 1} |-> TCBQRem(readyQueue[p], s)]
      /\ armed' = armed \ {s} /\ taskPool' = FreeBlock(taskPool, s)
      /\ stackMem' = FreeBlock(stackMem, b) /\ tcb' = [tcb EXCEPT ![s] = dead]
      /\ dynStackPart' = dynStackPart \ {s} /\ call' = [call EXCEPT ![s] = NoCall]
      /\ UNCHANGED <<objMem, obj>>
  BY DEF Terminated, objVars
<1>2. s \in Thread /\ s # Main /\ s # PostProc /\ tcb[s].init /\ s \in dynStackPart /\ ~Owns(s)
  BY <1>1, Ids DEF Terminable
<1>3. b \in Stack /\ b \notin ToSet(stackMem.freeList) /\ s \notin ToSet(taskPool.freeList)
  BY <1>2 DEF ObjectsInv, StacksOK, SlotsOK
<1>4. tcb \in [Thread -> Tcb]
  BY Basics
<1>5. /\ tcb' \in [Thread -> Tcb] /\ ~tcb'[s].init /\ tcb'[s].status = "TERMINATED"
      /\ tcb'[s].stackBuf = NULL
      /\ \A u \in Thread : u # s => tcb'[u] = tcb[u]
  BY <1>1, <1>2, <1>4 DEF Tcb, Zeroed
<1> HIDE DEF b, dead
<1>6. SchedOK(tcb, readyQueue, runPtr)'
  <2>1. TcbsOK(tcb')
    BY <1>2, <1>5, Ids DEF ObjectsInv, SchedOK, TcbsOK
  <2>2. QueuesOK(tcb', readyQueue')
    <3>1. QueuesOK(tcb, readyQueue) /\ tcb[PostProc].priority = 0
      BY DEF ObjectsInv, SchedOK, TcbsOK
    <3>2. \A u \in Thread : u # s =>
             tcb'[u].status = tcb[u].status /\ tcb'[u].priority = tcb[u].priority
      BY <1>5
    <3>3. QueuesOK(tcb', [p \in {0, 1} |-> TCBQRem(readyQueue[p], s)])
      BY <1>2, <1>5, <3>1, <3>2, DequeueLemma
    <3> QED
      BY <1>1, <3>3
  <2>3. RunsAlone(tcb', runPtr')
    BY <1>2, <1>5 DEF ObjectsInv, SchedOK, RunsAlone
  <2> QED
    BY <2>1, <2>2, <2>3 DEF SchedOK
<1>7. CallsOK' /\ call'[s] = NoCall /\ \A u \in Thread : u # s => call'[u] = call[u]
  BY <1>1, <1>2, CallStep DEF ObjectsInv
<1>8. /\ PartitionOK(taskPool', Slot) /\ PartitionOK(stackMem', Stack)
      /\ ToSet(taskPool'.freeList) = ToSet(taskPool.freeList) \cup {s}
      /\ ToSet(stackMem'.freeList) = ToSet(stackMem.freeList) \cup {b}
  <2>1. PartitionOK(taskPool, Slot) /\ PartitionOK(stackMem, Stack)
    BY DEF ObjectsInv, SlotsOK, StacksOK
  <2>2. /\ PartitionOK(FreeBlock(taskPool, s), Slot)
        /\ ToSet(FreeBlock(taskPool, s).freeList) = ToSet(taskPool.freeList) \cup {s}
    BY <1>3, <2>1, FreeLemma
  <2>3. /\ PartitionOK(FreeBlock(stackMem, b), Stack)
        /\ ToSet(FreeBlock(stackMem, b).freeList) = ToSet(stackMem.freeList) \cup {b}
    BY <1>3, <2>1, FreeLemma
  <2> QED
    BY <1>1, <2>2, <2>3
<1>9. SlotsOK'
  <2>1. \A r \in Slot : tcb'[r].init <=> r \notin ToSet(taskPool'.freeList)
    BY <1>5, <1>8, Ids DEF ObjectsInv, SlotsOK
  <2>2. handleByPid' = [r \in Slot |-> IF tcb'[r].init THEN r ELSE NULL]
    BY <1>5, Ids DEF ObjectsInv, SlotsOK
  <2> QED
    BY <1>8, <2>1, <2>2 DEF SlotsOK
<1>10. StacksOK'
  <2>1. ASSUME NEW r \in Slot, tcb'[r].init
        PROVE  /\ r # s /\ tcb[r].init /\ tcb'[r] = tcb[r] /\ tcb[r].stackBuf \in Stack
               /\ tcb[r].stackBuf \notin ToSet(stackMem'.freeList)
    <3>1. r # s /\ tcb[r].init /\ tcb'[r] = tcb[r]
      BY <1>5, <2>1, Ids
    <3>2. tcb[r].stackBuf # b
      BY <1>2, <3>1 DEF ObjectsInv, StacksOK, b
    <3> QED
      BY <1>8, <3>1, <3>2 DEF ObjectsInv, StacksOK
  <2>2. \A p, r \in Slot : tcb'[p].init /\ tcb'[r].init /\ p # r =>
          tcb'[p].stackBuf # tcb'[r].stackBuf
    BY <2>1 DEF ObjectsInv, StacksOK
  <2>3. ASSUME NEW u \in Thread, call'[u].op = "spawn"
        PROVE  /\ call'[u] = call[u] /\ call[u].op = "spawn"
               /\ call'[u].stackBuf \notin ToSet(stackMem'.freeList)
               /\ \A r \in Slot : tcb'[r].init => tcb'[r].stackBuf # call'[u].stackBuf
    <3>1. u # s /\ call'[u] = call[u]
      BY <1>7, <2>3 DEF NoCall
    <3>2. call[u].stackBuf # b
      BY <1>2, <2>3, <3>1 DEF ObjectsInv, StacksOK, Calling, b
    <3>3. \A r \in Slot : tcb[r].init => tcb[r].stackBuf # call[u].stackBuf
      BY <2>3, <3>1 DEF ObjectsInv, StacksOK, Calling
    <3>4. call[u].stackBuf \notin ToSet(stackMem.freeList)
      BY <2>3, <3>1 DEF ObjectsInv, StacksOK, Calling
    <3> QED
      BY <1>8, <2>1, <2>3, <3>1, <3>2, <3>3, <3>4
  <2>4. ASSUME NEW u \in Thread, NEW v \in Thread \ {u}, call'[u].op = "spawn", call'[v].op = "spawn"
        PROVE  call'[v].stackBuf # call'[u].stackBuf
    BY <2>3, <2>4 DEF ObjectsInv, StacksOK, Calling
  <2> QED
    BY <1>8, <2>1, <2>2, <2>3, <2>4 DEF StacksOK, Calling
<1>11. \A u \in Thread : call[u].op # "record"
  BY DEF ObjectsInv, RecordOK, Calling, NoCall
<1>12. RecordOK'
  <2>1. \A u \in Thread : call'[u].op # "record"
    BY <1>7, <1>11 DEF NoCall
  <2>2. \A r \in Slot : tcb[r].init => r \in dynStackPart
    BY <1>11, Basics DEF ObjectsInv, RecordOK, Calling
  <2>3. dynStackPart' \subseteq {r \in Slot : tcb'[r].init}
    BY <1>1, <1>5, Ids DEF ObjectsInv, RecordOK
  <2>4. \A r \in Slot : tcb'[r].init => r \in dynStackPart'
    BY <1>1, <1>5, <2>2, Ids
  <2> QED
    BY <2>1, <2>3, <2>4 DEF RecordOK, Calling
<1>13. ObjsOK'
  <2>1. \A u \in Thread : call'[u].op = "create" => call[u].op = "create" /\ call'[u] = call[u]
    BY <1>7 DEF NoCall
  <2> QED
    BY <1>1, <2>1, ObjsFrame, CallTypes DEF ObjectsInv, ObjsOK, Calling
<1>14. SameStatus("BLOCKED")
  BY <1>1, <1>5 DEF SameStatus
<1>15. WaitersOK'
  BY <1>1, <1>14, WaitersFrame DEF ObjectsInv
<1>16. OwnersOK'
  <2>1. \A o \in Obj : obj[o].owner # s
    BY <1>2 DEF Owns
  <2>2. \A o \in Obj : obj[o].owner # NULL => obj[o].owner \in Thread
    BY DEF ObjectsInv, ObjsOK
  <2> QED
    BY <1>1, <1>5, <2>1, <2>2 DEF ObjectsInv, OwnersOK
<1>17. ArmedOK'
  BY <1>1, <1>5, Ids DEF ObjectsInv, ArmedOK
<1>18. JobsOK'
  <2>1. /\ jobs \in Seq(Slot) /\ IsInjective(jobs)
        /\ \A u \in Thread : tcb[u].status = "PENDING" <=> u \in ToSet(jobs)
        /\ \A u \in Thread : tcb[u].status = "PENDING" => call[u] = NoCall
        /\ jobs # <<>> => runPtr = PostProc
    BY DEF ObjectsInv, JobsOK
  <2>2. /\ jobs' \in Seq(Slot) /\ IsInjective(jobs')
        /\ \A u \in Thread : u \in ToSet(jobs') <=> u \in ToSet(jobs) /\ u # s
    <3>1. CASE UNCHANGED jobs /\ jobs = <<>>
      BY <2>1, <3>1, ToSetEmpty
    <3>2. CASE jobs # <<>> /\ Head(jobs) = s /\ jobs' = Tail(jobs)
      BY <2>1, <3>2, TailLemma
    <3> QED
      BY <3>1, <3>2
  <2>3. \A u \in Thread : tcb'[u].status = "PENDING" <=> u \in ToSet(jobs')
    BY <1>5, <2>1, <2>2
  <2>4. \A u \in Thread : tcb'[u].status = "PENDING" => call'[u] = NoCall
    BY <1>5, <1>7, <2>1
  <2>5. jobs' # <<>> => runPtr' = PostProc
    BY <2>1
  <2> QED
    BY <2>2, <2>3, <2>4, <2>5 DEF JobsOK
<1> QED
  BY <1>6, <1>7, <1>9, <1>10, <1>12, <1>13, <1>15, <1>16, <1>17, <1>18 DEF ObjectsInv

LEMMA TerminateStep ==
    ASSUME ObjectsInv, NEW t \in Thread, NEW h \in Handle, Terminate(t, h)
    PROVE  ObjectsInv'
<1> DEFINE s == handle[h]
           handles == [handle EXCEPT ![h] = NULL]
<1>1. Runs(t) /\ s # NULL
  BY DEF Terminate
<1>2. s \in Slot /\ handles \in [Handle -> Slot \cup {NULL}]
  BY <1>1 DEF ObjectsInv, SlotsOK
<1>3. CASE s = t
  <2>1. TerminateRunning(t, handles)
    BY <1>3 DEF Terminate
  <2> HIDE DEF handles
  <2> QED
    BY <1>2, <2>1, TerminateRunningStep
<1>4. CASE s # t
  <2>1. /\ Terminated(s) /\ handleByPid' = [handleByPid EXCEPT ![s] = NULL]
        /\ handle' = handles /\ UNCHANGED <<jobs, runPtr>>
    BY <1>4 DEF Terminate
  <2>2. t = runPtr /\ call[runPtr] = NoCall /\ jobs = <<>>
    BY <1>1, RunsFacts
  <2> HIDE DEF s, handles
  <2> QED
    BY <1>2, <1>4, <2>1, <2>2, TerminatedStep
<1> QED
  BY <1>3, <1>4

(* The job finds its task in its slot, and ends it. *)
LEMMA TerminateJobStep == ASSUME ObjectsInv, TerminateJob PROVE ObjectsInv'
<1> DEFINE p == Head(jobs)
           s == handleByPid[p]
<1>1. /\ runPtr = PostProc /\ jobs # <<>> /\ jobs' = Tail(jobs) /\ UNCHANGED <<handle, runPtr>>
  BY DEF TerminateJob
<1>2. p \in Slot /\ p \in ToSet(jobs)
  BY <1>1, TailLemma DEF ObjectsInv, JobsOK
<1> HIDE DEF p
<1>3. p \in Thread /\ tcb[p].status = "PENDING" /\ call[p] = NoCall
  BY <1>2, Ids DEF ObjectsInv, JobsOK
<1>4. tcb[p].init
  BY <1>3, Basics
<1>5. s = p
  BY <1>2, <1>4 DEF ObjectsInv, SlotsOK
<1>6. ~Calling(runPtr, "record") /\ call[runPtr] = NoCall /\ p # runPtr
  BY <1>1, <1>2, Ids, Basics DEF Calling, NoCall
<1>7. Terminable(p)
  <2>1. p \in dynStackPart
    BY <1>2, <1>4, <1>6 DEF ObjectsInv, RecordOK
  <2>2. ~Owns(p)
    BY <1>2, <1>3, Ids DEF ObjectsInv, OwnersOK, Owns
  <2> QED
    BY <1>2, <1>3, <1>4, <2>1, <2>2 DEF Terminable, NoCall
<1>8. s # NULL
  BY <1>2, <1>5, Ids
<1>9. Terminated(p) /\ handleByPid' = [handleByPid EXCEPT ![p] = NULL]
  BY <1>3, <1>5, <1>7, <1>8 DEF TerminateJob, p
<1>10. handle' \in [Handle -> Slot \cup {NULL}]
  BY <1>1 DEF ObjectsInv, SlotsOK
<1> QED
  BY <1>1, <1>2, <1>6, <1>9, <1>10, TerminatedStep DEF p

(***************************************************************************)
(* Creating and destroying objects.                                        *)
(***************************************************************************)

(* What the steps of an object's life and use have in common: no task      *)
(* comes or goes.                                                          *)
LEMMA TasksSteady ==
    ASSUME ObjectsInv, NEW t \in Thread, t = runPtr, t # PostProc, UNCHANGED <<taskVars, schedVars, armed>>,
           NEW c, c.op \notin {"spawn", "record"}, call[t].op \notin {"spawn", "record"},
           c \in {NoCall} \cup [op : {"lock"}] \cup [op : {"create"}, o : Obj],
           call' = [call EXCEPT ![t] = c]
    PROVE  /\ SchedOK(tcb, readyQueue, runPtr)' /\ CallsOK' /\ SlotsOK' /\ StacksOK'
           /\ RecordOK' /\ JobsOK' /\ ArmedOK'
           /\ call'[t] = c /\ \A u \in Thread : u # t => call'[u] = call[u]
           /\ SameBlocks /\ SameStatus("PENDING") /\ SameStatus("BLOCKED")
<1>1. CallsOK' /\ call'[t] = c /\ \A u \in Thread : u # t => call'[u] = call[u]
  BY CallStep DEF ObjectsInv
<1>2. /\ SchedOK(tcb, readyQueue, runPtr)' /\ SameBlocks
      /\ SameStatus("PENDING") /\ SameStatus("BLOCKED") /\ ArmedOK'
  BY SameTasks
<1>3. SameCalls /\ SameSpawns /\ runPtr' = runPtr
  BY <1>1 DEF SameCalls, SameSpawns, schedVars
<1> QED
  BY <1>1, <1>2, <1>3, TaskSteady

LEMMA CreateAllocStep ==
    ASSUME ObjectsInv, NEW t \in Thread, NEW k \in Kind, CreateAlloc(t, k)
    PROVE  ObjectsInv'
<1> DEFINE o == AllocPtr(objMem[k])
           c == [op |-> "create", o |-> o]
<1>1. /\ Runs(t) /\ CanAlloc(objMem[k]) /\ objMem' = [objMem EXCEPT ![k] = AllocRest(@)]
      /\ call' = [call EXCEPT ![t] = c] /\ UNCHANGED <<taskVars, schedVars, armed>>
      /\ UNCHANGED obj
  BY DEF CreateAlloc
<1>2. /\ o \in ToSet(objects[k]) /\ o \in ToSet(objMem[k].freeList)
      /\ PartitionOK(AllocRest(objMem[k]), ToSet(objects[k]))
      /\ ToSet(AllocRest(objMem[k]).freeList) = ToSet(objMem[k].freeList) \ {o}
  BY <1>1, AllocLemma DEF ObjectsInv, ObjsOK
<1>3. o \in Obj /\ KindOf(o) = k
  <2>1. o \in Obj
    BY <1>2 DEF Obj
  <2> QED
    BY <1>2, <2>1, KindLemma
<1>4. t = runPtr /\ t # PostProc /\ call[t].op = "none"
  BY <1>1, RunsFacts DEF NoCall
<1>5. /\ SchedOK(tcb, readyQueue, runPtr)' /\ CallsOK' /\ SlotsOK' /\ StacksOK'
      /\ RecordOK' /\ JobsOK' /\ ArmedOK'
      /\ call'[t] = c /\ \A u \in Thread : u # t => call'[u] = call[u]
      /\ SameBlocks /\ SameStatus("PENDING") /\ SameStatus("BLOCKED")
  <2>1. c \in [op : {"create"}, o : Obj] /\ c.op = "create"
    BY <1>3
  <2> HIDE DEF c
  <2> QED
    BY <1>1, <1>4, <2>1, TasksSteady
<1> HIDE DEF o
<1>6. ObjsOK'
  <2>1. /\ DOMAIN objMem' = Kind /\ objMem'[k] = AllocRest(objMem[k])
        /\ \A j \in Kind : j # k => objMem'[j] = objMem[j]
    BY <1>1 DEF ObjectsInv, ObjsOK
  <2>2. \A j \in Kind : PartitionOK(objMem'[j], ToSet(objects[j]))
    BY <1>2, <2>1 DEF ObjectsInv, ObjsOK
  <2>3. ~obj[o].init /\ o \notin ToSet(objMem'[KindOf(o)].freeList)
    BY <1>2, <1>3, <2>1 DEF ObjectsInv, ObjsOK
  <2>4. ASSUME NEW p \in Obj, p \notin ToSet(objMem[KindOf(p)].freeList)
        PROVE  p \notin ToSet(objMem'[KindOf(p)].freeList)
    <3>1. KindOf(p) \in Kind
      BY KindLemma
    <3> QED
      BY <1>2, <2>1, <2>4, <3>1
  <2>5. \A p \in Obj : IF obj[p].init THEN p \notin ToSet(objMem'[KindOf(p)].freeList)
                                      ELSE obj[p] = ZeroedObj
    BY <2>4 DEF ObjectsInv, ObjsOK
  <2>6. \A u \in Thread : u # t /\ call[u].op = "create" =>
           call[u].o \in Obj /\ call[u].o # o
    <3>1. ASSUME NEW u \in Thread, u # t, call[u].op = "create" PROVE call[u].o \in Obj /\ call[u].o # o
      <4>1. call[u].o \in Obj /\ call[u].o \notin ToSet(objMem[KindOf(call[u].o)].freeList)
        BY <3>1, CallTypes DEF ObjectsInv, ObjsOK, Calling
      <4> QED
        BY <1>2, <1>3, <4>1
    <3> QED
      BY <3>1
  <2>7. ASSUME NEW u \in Thread, call'[u].op = "create"
        PROVE  /\ ~obj[call'[u].o].init
               /\ call'[u].o \notin ToSet(objMem'[KindOf(call'[u].o)].freeList)
               /\ \A v \in Thread \ {u} : call'[v].op = "create" => call'[v].o # call'[u].o
    <3>1. CASE u = t
      BY <1>5, <2>3, <2>6, <3>1
    <3>2. CASE u # t
      <4>1. call[u].op = "create" /\ call'[u] = call[u]
        BY <1>5, <2>7, <3>2
      <4>2. /\ ~obj[call[u].o].init /\ call[u].o \notin ToSet(objMem[KindOf(call[u].o)].freeList)
            /\ \A v \in Thread \ {u} : call[v].op = "create" => call[v].o # call[u].o
        BY <4>1 DEF ObjectsInv, ObjsOK, Calling
      <4>3. call[u].o \in Obj /\ call[u].o # o
        BY <2>6, <3>2, <4>1
      <4>4. call[u].o \notin ToSet(objMem'[KindOf(call[u].o)].freeList)
        BY <2>4, <4>2, <4>3
      <4>5. \A v \in Thread \ {u} : call'[v].op = "create" => call'[v].o # call[u].o
        BY <1>5, <4>2, <4>3
      <4> QED
        BY <4>1, <4>2, <4>4, <4>5
    <3> QED
      BY <3>1, <3>2
  <2>8. obj' = obj
    BY <1>1
  <2> QED
    BY <2>1, <2>2, <2>5, <2>7, <2>8 DEF ObjectsInv, ObjsOK, Calling
<1>7. WaitersOK' /\ OwnersOK'
  BY <1>1, <1>5, WaitersFrame, OwnersFrame DEF ObjectsInv, ObjsOK
<1> QED
  BY <1>5, <1>6, <1>7 DEF ObjectsInv

ObjType == [init : BOOLEAN, waiters : Seq(Slot), owner : Thread \cup {NULL}, held : Int]

LEMMA ZeroedType == ZeroedObj \in ObjType /\ [ZeroedObj EXCEPT !.init = TRUE] \in ObjType
<1>1. PICK none : none = <<>> /\ none \in Seq(Slot)
  BY EmptySeq
<1>2. ZeroedObj = [init |-> FALSE, waiters |-> none, owner |-> NULL, held |-> 0]
  BY <1>1 DEF ZeroedObj
<1>3. [init |-> FALSE, waiters |-> none, owner |-> NULL, held |-> 0] \in ObjType
  BY <1>1 DEF ObjType
<1>4. ZeroedObj \in ObjType
  BY <1>2, <1>3
<1>5. \A x \in ObjType : [x EXCEPT !.init = TRUE] \in ObjType
  BY DEF ObjType
<1> QED
  BY <1>4, <1>5

(* An object that nobody waits for or owns, before and after. *)
LEMMA IdleObject ==
    ASSUME WaitersOK, OwnersOK, NEW o \in Obj, UNCHANGED <<tcb>>,
           obj \in [Obj -> ObjType], obj' \in [Obj -> ObjType],
           \A p \in Obj : p # o => obj'[p] = obj[p],
           obj'[o].waiters = obj[o].waiters, obj'[o].owner \in {NULL, obj[o].owner}
    PROVE  WaitersOK' /\ OwnersOK'
<1>1. SameStatus("BLOCKED")
  BY DEF SameStatus
<1>2. WaitersOK'
  BY <1>1, WaitersFrame
<1>3. \A p \in Obj : obj'[p].owner \in {NULL, obj[p].owner}
  OBVIOUS
<1>4. OwnersOK'
  BY <1>3 DEF OwnersOK
<1> QED
  BY <1>2, <1>4

LEMMA CreateInitStep ==
    ASSUME ObjectsInv, NEW t \in Thread, CreateInit(t)
    PROVE  ObjectsInv'
<1> DEFINE o == call[t].o
           fresh == [ZeroedObj EXCEPT !.init = TRUE]
<1>1. /\ InCall(t, "create") /\ obj' = [obj EXCEPT ![o] = fresh]
      /\ call' = [call EXCEPT ![t] = NoCall] /\ UNCHANGED <<taskVars, schedVars, armed>>
      /\ UNCHANGED objMem
  BY DEF CreateInit
<1>2. t = runPtr /\ t # PostProc /\ call[t].op = "create" /\ Calling(t, "create")
  BY <1>1, InCallFacts
<1>3. /\ o \in Obj /\ ~obj[o].init /\ o \notin ToSet(objMem[KindOf(o)].freeList)
      /\ \A u \in Thread : u # t /\ call[u].op = "create" => call[u].o # o
  BY <1>2, CallTypes DEF ObjectsInv, ObjsOK, Calling
<1>4. /\ SchedOK(tcb, readyQueue, runPtr)' /\ CallsOK' /\ SlotsOK' /\ StacksOK'
      /\ RecordOK' /\ JobsOK' /\ ArmedOK'
      /\ call'[t] = NoCall /\ \A u \in Thread : u # t => call'[u] = call[u]
  BY <1>1, <1>2, TasksSteady DEF NoCall
<1> HIDE DEF o, fresh
<1>5. obj \in [Obj -> ObjType]
  BY DEF ObjectsInv, ObjsOK, ObjType
<1>6. fresh \in ObjType /\ fresh.init /\ fresh.waiters = <<>> /\ fresh.owner = NULL
  BY ZeroedType DEF fresh, ZeroedObj
<1>7. /\ obj' \in [Obj -> ObjType] /\ obj'[o] = fresh /\ \A p \in Obj : p # o => obj'[p] = obj[p]
  BY <1>1, <1>3, <1>5, <1>6
<1>8. ObjsOK'
  <2>1. \A p \in Obj : IF obj'[p].init THEN p \notin ToSet(objMem[KindOf(p)].freeList)
                                       ELSE obj'[p] = ZeroedObj
    <3>1. \A p \in Obj : IF obj[p].init THEN p \notin ToSet(objMem[KindOf(p)].freeList)
                                         ELSE obj[p] = ZeroedObj
      BY DEF ObjectsInv, ObjsOK
    <3> QED
      BY <1>3, <1>6, <1>7, <3>1
  <2>2. ASSUME NEW u \in Thread, call'[u].op = "create"
        PROVE  /\ ~obj'[call'[u].o].init /\ call'[u].o \notin ToSet(objMem[KindOf(call'[u].o)].freeList)
               /\ \A v \in Thread \ {u} : call'[v].op = "create" => call'[v].o # call'[u].o
    <3>1. u # t /\ call'[u] = call[u] /\ call[u].op = "create"
      BY <1>4, <2>2 DEF NoCall
    <3>2. call[u].o \in Obj /\ call[u].o # o
      BY <1>3, <3>1, CallTypes DEF ObjectsInv, Calling
    <3>3. /\ ~obj[call[u].o].init /\ call[u].o \notin ToSet(objMem[KindOf(call[u].o)].freeList)
          /\ \A v \in Thread \ {u} : call[v].op = "create" => call[v].o # call[u].o
      BY <3>1 DEF ObjectsInv, ObjsOK, Calling
    <3>4. \A v \in Thread : call'[v].op = "create" => call'[v] = call[v]
      BY <1>4 DEF NoCall
    <3> QED
      BY <1>7, <3>1, <3>2, <3>3, <3>4
  <2>3. objMem' = objMem /\ obj' \in [Obj -> [init : BOOLEAN, waiters : Seq(Slot),
                                              owner : Thread \cup {NULL}, held : Int]]
    BY <1>1, <1>7 DEF ObjType
  <2> QED
    BY <2>1, <2>2, <2>3 DEF ObjectsInv, ObjsOK, Calling
<1>9. obj[o] = ZeroedObj
  BY <1>3 DEF ObjectsInv, ObjsOK
<1>10. UNCHANGED <<tcb>> /\ obj'[o].waiters = obj[o].waiters /\ obj'[o].owner \in {NULL, obj[o].owner}
  BY <1>1, <1>6, <1>7, <1>9 DEF schedVars, ZeroedObj
<1>11. WaitersOK' /\ OwnersOK'
  BY <1>3, <1>5, <1>7, <1>10, IdleObject DEF ObjectsInv
<1> QED
  BY <1>4, <1>8, <1>11 DEF ObjectsInv

LEMMA DestroyStep ==
    ASSUME ObjectsInv, NEW t \in Thread, NEW o \in Obj, Destroy(t, o)
    PROVE  ObjectsInv'
<1> DEFINE k == KindOf(o)
<1>1. /\ Runs(t) /\ obj[o].init /\ ~InUse(o) /\ obj' = [obj EXCEPT ![o] = ZeroedObj]
      /\ objMem' = [objMem EXCEPT ![k] = FreeBlock(@, o)]
      /\ UNCHANGED <<taskVars, schedVars, armed>> /\ UNCHANGED call
  BY DEF Destroy
<1>2. t = runPtr /\ t # PostProc
  BY <1>1, RunsFacts
<1>3. k \in Kind /\ o \in ToSet(objects[k]) /\ o \notin ToSet(objMem[k].freeList)
      /\ PartitionOK(objMem[k], ToSet(objects[k])) /\ DOMAIN objMem = Kind
  BY <1>1, KindLemma DEF ObjectsInv, ObjsOK
<1>4. obj[o].waiters = <<>>
  BY <1>1, KindLemma DEF InUse, SemaphoreInUse, MutexInUse, MesgQueueInUse, Kind
<1> HIDE DEF k
<1>5. /\ PartitionOK(objMem'[k], ToSet(objects[k]))
      /\ ToSet(objMem'[k].freeList) = ToSet(objMem[k].freeList) \cup {o}
      /\ DOMAIN objMem' = Kind /\ \A j \in Kind : j # k => objMem'[j] = objMem[j]
  <2>1. /\ PartitionOK(FreeBlock(objMem[k], o), ToSet(objects[k]))
        /\ ToSet(FreeBlock(objMem[k], o).freeList) = ToSet(objMem[k].freeList) \cup {o}
    BY <1>3, FreeLemma
  <2> QED
    BY <1>1, <1>3, <2>1
<1>6. /\ SchedOK(tcb, readyQueue, runPtr)' /\ SameBlocks
      /\ SameStatus("PENDING") /\ SameStatus("BLOCKED") /\ ArmedOK'
  BY <1>1, SameTasks
<1>7. SlotsOK' /\ StacksOK' /\ RecordOK' /\ JobsOK'
  <2>1. SameCalls /\ SameSpawns /\ runPtr' = runPtr
    BY <1>1 DEF SameCalls, SameSpawns, schedVars
  <2> QED
    BY <1>1, <1>6, <2>1, TaskSteady
<1>8. CallsOK'
  BY <1>1 DEF ObjectsInv, CallsOK
<1>9. obj \in [Obj -> ObjType]
  BY DEF ObjectsInv, ObjsOK, ObjType
<1>10. obj' \in [Obj -> ObjType] /\ obj'[o] = ZeroedObj /\ \A p \in Obj : p # o => obj'[p] = obj[p]
  BY <1>1, <1>9, ZeroedType
<1>11. ObjsOK'
  <2>1. ASSUME NEW p \in Obj, p # o, p \notin ToSet(objMem[KindOf(p)].freeList)
        PROVE  p \notin ToSet(objMem'[KindOf(p)].freeList)
    <3>1. KindOf(p) \in Kind
      BY KindLemma
    <3> QED
      BY <1>5, <2>1, <3>1
  <2>2. \A p \in Obj : IF obj'[p].init THEN p \notin ToSet(objMem'[KindOf(p)].freeList)
                                       ELSE obj'[p] = ZeroedObj
    BY <1>10, <2>1 DEF ObjectsInv, ObjsOK, ZeroedObj
  <2>3. ASSUME NEW u \in Thread, call[u].op = "create"
        PROVE  /\ ~obj'[call[u].o].init /\ call[u].o \notin ToSet(objMem'[KindOf(call[u].o)].freeList)
               /\ \A v \in Thread \ {u} : call[v].op = "create" => call[v].o # call[u].o
    <3>1. /\ call[u].o \in Obj /\ ~obj[call[u].o].init
          /\ call[u].o \notin ToSet(objMem[KindOf(call[u].o)].freeList)
          /\ \A v \in Thread \ {u} : call[v].op = "create" => call[v].o # call[u].o
      BY <2>3, CallTypes DEF ObjectsInv, ObjsOK, Calling
    <3> QED
      BY <1>1, <1>10, <2>1, <3>1
  <2>4. \A j \in Kind : PartitionOK(objMem'[j], ToSet(objects[j]))
    BY <1>5 DEF ObjectsInv, ObjsOK
  <2>5. call' = call
    BY <1>1
  <2> QED
    BY <1>5, <1>10, <2>2, <2>3, <2>4, <2>5 DEF ObjType, ObjsOK, Calling
<1>12. UNCHANGED <<tcb>> /\ obj'[o].waiters = obj[o].waiters /\ obj'[o].owner \in {NULL, obj[o].owner}
  BY <1>1, <1>4, <1>10 DEF schedVars, ZeroedObj
<1>13. WaitersOK' /\ OwnersOK'
  BY <1>9, <1>10, <1>12, IdleObject DEF ObjectsInv
<1> QED
  BY <1>6, <1>7, <1>8, <1>11, <1>13 DEF ObjectsInv

(***************************************************************************)
(* Using the objects.                                                      *)
(***************************************************************************)

(* A call on an object that exists. *)
LEMMA UseLemma ==
    ASSUME ObjectsInv, NEW o \in Obj, obj[o].init, NEW r \in ObjType, r.init,
           obj' = [obj EXCEPT ![o] = r], UNCHANGED objMem,
           \A u \in Thread : call'[u] = call[u] \/ call'[u].op # "create"
    PROVE  /\ ObjsOK' /\ obj \in [Obj -> ObjType] /\ obj' \in [Obj -> ObjType]
           /\ obj'[o] = r /\ \A p \in Obj : p # o => obj'[p] = obj[p]
<1>1. obj \in [Obj -> ObjType]
  BY DEF ObjectsInv, ObjsOK, ObjType
<1>2. obj' \in [Obj -> ObjType] /\ obj'[o] = r /\ \A p \in Obj : p # o => obj'[p] = obj[p]
  BY <1>1
<1>3. ObjsOK'
  <2>1. obj' \in [Obj -> [init : BOOLEAN, waiters : Seq(Slot), owner : Thread \cup {NULL},
                          held : Int]]
    BY <1>2 DEF ObjType
  <2>2. \A u \in Thread : call'[u].op = "create" => call[u].op = "create" /\ call'[u] = call[u]
    OBVIOUS
  <2>3. \A u \in Thread : call[u].op = "create" => call[u].o \in Obj
    BY CallTypes DEF ObjectsInv, Calling
  <2>4. \A p \in Obj : obj'[p].init = obj[p].init
    BY <1>2
  <2>5. \A p \in Obj : ~obj[p].init => obj'[p] = obj[p]
    BY <1>2
  <2> QED
    BY <2>1, <2>2, <2>3, <2>4, <2>5, ObjsFrame DEF ObjectsInv
<1> QED
  BY <1>1, <1>2, <1>3

LEMMA FieldTypes ==
    ASSUME NEW r \in ObjType
    PROVE  /\ \A x \in Int : /\ [r EXCEPT !.held = x] \in ObjType
                             /\ [r EXCEPT !.held = x].init = r.init
                             /\ [r EXCEPT !.held = x].waiters = r.waiters
                             /\ [r EXCEPT !.held = x].owner = r.owner
           /\ \A x \in Thread \cup {NULL} : /\ [r EXCEPT !.owner = x] \in ObjType
                                            /\ [r EXCEPT !.owner = x].init = r.init
                                            /\ [r EXCEPT !.owner = x].waiters = r.waiters
                                            /\ [r EXCEPT !.owner = x].owner = x
           /\ \A x \in Seq(Slot) : /\ [r EXCEPT !.waiters = x] \in ObjType
                                   /\ [r EXCEPT !.waiters = x].init = r.init
                                   /\ [r EXCEPT !.waiters = x].waiters = x
                                   /\ [r EXCEPT !.waiters = x].owner = r.owner
  BY DEF ObjType

(* The tasks' part of a call that changes objects only. *)
LEMMA OnlyObjects ==
    ASSUME ObjectsInv, NEW t \in Thread, Runs(t), UNCHANGED <<taskVars, schedVars, call, armed>>
    PROVE  /\ SchedOK(tcb, readyQueue, runPtr)' /\ CallsOK' /\ SlotsOK' /\ StacksOK'
           /\ RecordOK' /\ JobsOK' /\ ArmedOK' /\ UNCHANGED <<tcb>>
<1>1. /\ SchedOK(tcb, readyQueue, runPtr)' /\ SameBlocks
      /\ SameStatus("PENDING") /\ SameStatus("BLOCKED") /\ ArmedOK'
  BY SameTasks
<1>2. SameCalls /\ SameSpawns /\ UNCHANGED <<tcb, runPtr, call>>
  BY DEF SameCalls, SameSpawns, schedVars
<1>3. SlotsOK' /\ StacksOK' /\ RecordOK' /\ JobsOK'
  BY <1>1, <1>2, TaskSteady
<1> QED
  BY <1>1, <1>2, <1>3 DEF ObjectsInv, CallsOK

LEMMA TakeStep ==
    ASSUME ObjectsInv, NEW t \in Thread, NEW o \in Obj, Take(t, o)
    PROVE  ObjectsInv'
<1> DEFINE x == obj[o].held - 1
           r == [obj[o] EXCEPT !.held = x]
<1>1. /\ Runs(t) /\ obj[o].init /\ obj' = [obj EXCEPT ![o] = r]
      /\ UNCHANGED <<taskVars, schedVars, call, armed>> /\ UNCHANGED objMem
  BY DEF Take, UsesQueue
<1>2. obj[o] \in ObjType /\ x \in Int
  BY DEF ObjectsInv, ObjsOK, ObjType
<1> HIDE DEF x
<1>3. r \in ObjType /\ r.init /\ r.waiters = obj[o].waiters /\ r.owner = obj[o].owner
  BY <1>1, <1>2, FieldTypes
<1> HIDE DEF r
<1>4. /\ ObjsOK' /\ obj \in [Obj -> ObjType] /\ obj' \in [Obj -> ObjType]
      /\ obj'[o] = r /\ \A p \in Obj : p # o => obj'[p] = obj[p]
  BY <1>1, <1>3, UseLemma
<1>5. /\ SchedOK(tcb, readyQueue, runPtr)' /\ CallsOK' /\ SlotsOK' /\ StacksOK'
      /\ RecordOK' /\ JobsOK' /\ ArmedOK' /\ UNCHANGED <<tcb>>
  BY <1>1, OnlyObjects
<1>6. WaitersOK' /\ OwnersOK'
  BY <1>3, <1>4, <1>5, IdleObject DEF ObjectsInv
<1> QED
  BY <1>4, <1>5, <1>6 DEF ObjectsInv

LEMMA LockStep ==
    ASSUME ObjectsInv, NEW t \in Thread, NEW o \in Obj, Lock(t, o)
    PROVE  ObjectsInv'
<1> DEFINE r == [obj[o] EXCEPT !.owner = t]
<1>1. /\ Runs(t) /\ obj[o].init /\ obj' = [obj EXCEPT ![o] = r]
      /\ UNCHANGED <<taskVars, schedVars, call, armed>> /\ UNCHANGED objMem
  BY DEF Lock
<1>2. obj[o] \in ObjType
  BY DEF ObjectsInv, ObjsOK, ObjType
<1>3. r \in ObjType /\ r.init /\ r.waiters = obj[o].waiters /\ r.owner = t
  BY <1>1, <1>2, FieldTypes
<1> HIDE DEF r
<1>4. /\ ObjsOK' /\ obj \in [Obj -> ObjType] /\ obj' \in [Obj -> ObjType]
      /\ obj'[o] = r /\ \A p \in Obj : p # o => obj'[p] = obj[p]
  BY <1>1, <1>3, UseLemma
<1>5. /\ SchedOK(tcb, readyQueue, runPtr)' /\ CallsOK' /\ SlotsOK' /\ StacksOK'
      /\ RecordOK' /\ JobsOK' /\ ArmedOK' /\ UNCHANGED <<tcb>>
  BY <1>1, OnlyObjects
<1>6. SameStatus("BLOCKED") /\ \A p \in Obj : obj'[p].waiters = obj[p].waiters
  BY <1>3, <1>4, <1>5 DEF SameStatus
<1>7. WaitersOK'
  BY <1>6, WaitersFrame DEF ObjectsInv
<1>8. OwnersOK'
  <2>1. tcb[t].init /\ tcb[t].status = "RUNNING"
    BY <1>1, RunsFacts
  <2> QED
    BY <1>3, <1>4, <1>5, <2>1 DEF ObjectsInv, OwnersOK
<1> QED
  BY <1>4, <1>5, <1>7, <1>8 DEF ObjectsInv

LEMMA LockResumeStep ==
    ASSUME ObjectsInv, NEW t \in Thread, LockResume(t)
    PROVE  ObjectsInv'
<1>1. /\ InCall(t, "lock") /\ call' = [call EXCEPT ![t] = NoCall]
      /\ UNCHANGED <<taskVars, schedVars, armed>> /\ UNCHANGED objVars
  BY DEF LockResume
<1>2. t = runPtr /\ t # PostProc /\ call[t].op = "lock"
  BY <1>1, InCallFacts
<1>3. /\ SchedOK(tcb, readyQueue, runPtr)' /\ CallsOK' /\ SlotsOK' /\ StacksOK'
      /\ RecordOK' /\ JobsOK' /\ ArmedOK'
      /\ call'[t] = NoCall /\ \A u \in Thread : u # t => call'[u] = call[u]
      /\ SameBlocks /\ SameStatus("PENDING") /\ SameStatus("BLOCKED")
  BY <1>1, <1>2, TasksSteady DEF NoCall
<1>4. \A u \in Thread : call'[u] = call[u] \/ call'[u].op # "create"
  BY <1>3 DEF NoCall
<1>5. ObjsOK' /\ WaitersOK' /\ OwnersOK'
  BY <1>1, <1>3, <1>4, ObjSteady
<1> QED
  BY <1>3, <1>5 DEF ObjectsInv

(* Who waited and is woken is linked nowhere any more. *)
LEMMA Unlinked ==
    ASSUME WaitersOK, NEW w \in Thread, tcb'[w].status # "BLOCKED",
           \A u \in Thread : u # w => (tcb'[u].status = "BLOCKED" <=> tcb[u].status = "BLOCKED"),
           \A o \in Obj : /\ IsInjective(obj'[o].waiters)
                          /\ ToSet(obj'[o].waiters) = ToSet(obj[o].waiters) \ {w}
    PROVE  WaitersOK'
<1>1. \A o \in Obj : \A t \in ToSet(obj'[o].waiters) : t \in Slot /\ tcb'[t].status = "BLOCKED"
  BY Ids DEF WaitersOK
<1>2. ASSUME NEW t \in Thread, tcb'[t].status = "BLOCKED"
      PROVE  \E o \in Obj : t \in ToSet(obj'[o].waiters)
  BY <1>2 DEF WaitersOK
<1>3. \A o, p \in Obj : o # p => ToSet(obj'[o].waiters) \cap ToSet(obj'[p].waiters) = {}
  BY DEF WaitersOK
<1> QED
  BY <1>1, <1>2, <1>3 DEF WaitersOK

(* The first waiter of o is woken. *)
LEMMA WakesFirst ==
    ASSUME ObjectsInv, NEW t \in Thread, Runs(t), NEW o \in Obj, obj[o].init, obj[o].waiters # <<>>,
           NEW r \in ObjType, r.init, r.waiters = Tail(obj[o].waiters),
           r.owner \in {obj[o].owner, Head(obj[o].waiters)},
           obj' = [obj EXCEPT ![o] = r], armed' = armed \ {Head(obj[o].waiters)},
           Resched(MadeReady(tcb, Head(obj[o].waiters)),
                   ReadyEnqueued(tcb, readyQueue, Head(obj[o].waiters)), NoCall),
           UNCHANGED <<taskVars, call, objMem>>
    PROVE  ObjectsInv'
<1> DEFINE q == obj[o].waiters
           w == Head(q)
<1>1. q \in Seq(Slot) /\ IsInjective(q)
  BY DEF ObjectsInv, ObjsOK, WaitersOK
<1>2. /\ w \in Slot /\ w \in ToSet(q) /\ IsInjective(Tail(q)) /\ w \notin ToSet(Tail(q))
      /\ ToSet(q) = ToSet(Tail(q)) \cup {w}
  BY <1>1, TailLemma
<1>3. w \in Thread /\ tcb[w].status = "BLOCKED"
  BY <1>2, Ids DEF ObjectsInv, WaitersOK
<1>4. tcb[w].init
  BY <1>3, Basics
<1> HIDE DEF w
<1>5. /\ SchedOK(tcb, readyQueue, runPtr)' /\ Moves(w, OnCpu)
  BY <1>3, <1>4, WakeLemma DEF ObjectsInv, OnCpu, w
<1>6. /\ SameBlocks /\ SameStatus("PENDING") /\ tcb'[w].status # "BLOCKED"
      /\ \A u \in Thread : u # w => (tcb'[u].status = "BLOCKED" <=> tcb[u].status = "BLOCKED")
  BY <1>3, <1>5, MovesLemma DEF OnCpu
<1>7. SlotsOK' /\ StacksOK' /\ RecordOK' /\ JobsOK'
  BY <1>6, TaskSteady, RunsFacts DEF SameCalls, SameSpawns
<1>8. /\ ObjsOK' /\ obj \in [Obj -> ObjType] /\ obj' \in [Obj -> ObjType]
      /\ obj'[o] = r /\ \A p \in Obj : p # o => obj'[p] = obj[p]
  BY UseLemma
<1>9. WaitersOK'
  <2>1. ASSUME NEW p \in Obj
        PROVE  /\ IsInjective(obj'[p].waiters)
               /\ ToSet(obj'[p].waiters) = ToSet(obj[p].waiters) \ {w}
    <3>1. CASE p = o
      BY <1>2, <1>8, <3>1
    <3>2. CASE p # o
      BY <1>2, <1>8, <3>2 DEF ObjectsInv, WaitersOK
    <3> QED
      BY <3>1, <3>2
  <2> QED
    BY <1>3, <1>6, <2>1, Unlinked DEF ObjectsInv
<1>10. OwnersOK'
  <2>1. ASSUME NEW p \in Obj, obj'[p].owner # NULL
        PROVE  tcb'[obj'[p].owner].init /\ tcb'[obj'[p].owner].status # "PENDING"
    <3>1. CASE obj'[p].owner = w
      BY <1>3, <1>4, <1>6, <3>1 DEF SameBlocks, SameStatus
    <3>2. CASE obj'[p].owner # w
      <4>1. obj'[p].owner = obj[p].owner
        BY <1>8, <3>2 DEF w
      <4>2. obj[p].owner \in Thread
        BY <1>8, <2>1, <4>1 DEF ObjType
      <4> QED
        BY <1>6, <2>1, <4>1, <4>2 DEF ObjectsInv, OwnersOK, SameBlocks, SameStatus
    <3> QED
      BY <3>1, <3>2
  <2> QED
    BY <2>1 DEF OwnersOK
<1>11. ArmedOK'
  <2>1. armed' = armed \ {w}
    BY DEF w
  <2> QED
    BY <1>3, <1>5, <2>1, ArmedSteady DEF ObjectsInv
<1>12. CallsOK'
  BY DEF ObjectsInv, CallsOK
<1> QED
  BY <1>5, <1>7, <1>8, <1>9, <1>10, <1>11, <1>12 DEF ObjectsInv

LEMMA GiveStep ==
    ASSUME ObjectsInv, NEW t \in Thread, NEW o \in Obj, Give(t, o)
    PROVE  ObjectsInv'
<1>1. Runs(t) /\ obj[o].init /\ UNCHANGED <<taskVars, call>> /\ UNCHANGED objMem
  BY DEF Give, UsesQueue
<1>2. obj[o] \in ObjType /\ obj[o].waiters \in Seq(Slot) /\ obj[o].held + 1 \in Int
  BY DEF ObjectsInv, ObjsOK, ObjType
<1>3. CASE obj[o].waiters # <<>>
  <2> DEFINE q == Tail(obj[o].waiters)
             r == [obj[o] EXCEPT !.waiters = q]
  <2>1. /\ obj' = [obj EXCEPT ![o] = r] /\ armed' = armed \ {Head(obj[o].waiters)}
        /\ Resched(MadeReady(tcb, Head(obj[o].waiters)),
                   ReadyEnqueued(tcb, readyQueue, Head(obj[o].waiters)), NoCall)
    BY <1>3 DEF Give
  <2>2. q \in Seq(Slot)
    BY <1>2, <1>3, TailLemma
  <2> HIDE DEF q
  <2>3. r \in ObjType /\ r.init /\ r.waiters = q /\ r.owner = obj[o].owner
    BY <1>1, <1>2, <2>2, FieldTypes
  <2> HIDE DEF r
  <2> QED
    BY <1>1, <1>3, <2>1, <2>3, WakesFirst DEF q
<1>4. CASE obj[o].waiters = <<>>
  <2> DEFINE x == obj[o].held + 1
             r == [obj[o] EXCEPT !.held = x]
  <2>1. obj' = [obj EXCEPT ![o] = r] /\ UNCHANGED <<schedVars, armed>>
    BY <1>4 DEF Give
  <2> HIDE DEF x
  <2>2. r \in ObjType /\ r.init /\ r.waiters = obj[o].waiters /\ r.owner = obj[o].owner
    BY <1>1, <1>2, FieldTypes DEF x
  <2> HIDE DEF r
  <2>3. /\ ObjsOK' /\ obj \in [Obj -> ObjType] /\ obj' \in [Obj -> ObjType]
        /\ obj'[o] = r /\ \A p \in Obj : p # o => obj'[p] = obj[p]
    BY <1>1, <2>1, <2>2, UseLemma
  <2>4. /\ SchedOK(tcb, readyQueue, runPtr)' /\ CallsOK' /\ SlotsOK' /\ StacksOK'
        /\ RecordOK' /\ JobsOK' /\ ArmedOK' /\ UNCHANGED <<tcb>>
    BY <1>1, <2>1, OnlyObjects
  <2>5. WaitersOK' /\ OwnersOK'
    BY <2>2, <2>3, <2>4, IdleObject DEF ObjectsInv
  <2> QED
    BY <2>3, <2>4, <2>5 DEF ObjectsInv
<1> QED
  BY <1>3, <1>4

LEMMA UnlockStep ==
    ASSUME ObjectsInv, NEW t \in Thread, NEW o \in Obj, Unlock(t, o)
    PROVE  ObjectsInv'
<1>1. Runs(t) /\ obj[o].owner = t /\ UNCHANGED <<taskVars, call>> /\ UNCHANGED objMem
  BY DEF Unlock
<1>2. obj[o] \in ObjType /\ obj[o].waiters \in Seq(Slot) /\ obj[o].init
  BY <1>1, Ids DEF ObjectsInv, ObjsOK, ObjType, ZeroedObj
<1>3. CASE obj[o].waiters # <<>>
  <2> DEFINE w == Head(obj[o].waiters)
             q == Tail(obj[o].waiters)
             r == [[obj[o] EXCEPT !.owner = w] EXCEPT !.waiters = q]
  <2>1. /\ armed' = armed \ {w}
        /\ Resched(MadeReady(tcb, w), ReadyEnqueued(tcb, readyQueue, w), NoCall)
        /\ obj' = [obj EXCEPT ![o].owner = w, ![o].waiters = Tail(@)]
    BY <1>3 DEF Unlock
  <2>2. q \in Seq(Slot) /\ w \in Slot
    BY <1>2, <1>3, TailLemma
  <2>3. obj' = [obj EXCEPT ![o] = r]
    BY <1>2, <2>1 DEF ObjType, ObjectsInv, ObjsOK
  <2> HIDE DEF q, w
  <2>4. r \in ObjType /\ r.init /\ r.waiters = q /\ r.owner = w
    <3>1. w \in Thread \cup {NULL}
      BY <2>2, Ids
    <3>2. [obj[o] EXCEPT !.owner = w] \in ObjType /\ [obj[o] EXCEPT !.owner = w].init
          /\ [obj[o] EXCEPT !.owner = w].owner = w
      BY <1>2, <3>1, FieldTypes
    <3> DEFINE r1 == [obj[o] EXCEPT !.owner = w]
    <3>3. r1 \in ObjType /\ r1.init /\ r1.owner = w /\ r = [r1 EXCEPT !.waiters = q]
      BY <3>2
    <3> HIDE DEF r1, r
    <3> QED
      BY <2>2, <3>3, FieldTypes
  <2> HIDE DEF r
  <2> QED
    BY <1>1, <1>2, <1>3, <2>1, <2>3, <2>4, WakesFirst DEF q, w
<1>4. CASE obj[o].waiters = <<>>
  <2> DEFINE r == [obj[o] EXCEPT !.owner = NULL]
  <2>1. obj' = [obj EXCEPT ![o] = r] /\ UNCHANGED <<schedVars, armed>>
    BY <1>4 DEF Unlock
  <2>2. r \in ObjType /\ r.init /\ r.waiters = obj[o].waiters /\ r.owner = NULL
    <3>1. NULL \in Thread \cup {NULL}
      OBVIOUS
    <3> QED
      BY <1>2, <3>1, FieldTypes
  <2> HIDE DEF r
  <2>3. /\ ObjsOK' /\ obj \in [Obj -> ObjType] /\ obj' \in [Obj -> ObjType]
        /\ obj'[o] = r /\ \A p \in Obj : p # o => obj'[p] = obj[p]
    BY <1>1, <1>2, <2>1, <2>2, UseLemma
  <2>4. /\ SchedOK(tcb, readyQueue, runPtr)' /\ CallsOK' /\ SlotsOK' /\ StacksOK'
        /\ RecordOK' /\ JobsOK' /\ ArmedOK' /\ UNCHANGED <<tcb>>
    BY <1>1, <2>1, OnlyObjects
  <2>5. WaitersOK' /\ OwnersOK'
    BY <2>2, <2>3, <2>4, IdleObject DEF ObjectsInv
  <2> QED
    BY <2>3, <2>4, <2>5 DEF ObjectsInv
<1> QED
  BY <1>3, <1>4

(* The running task is linked in o's queue and waits. *)
LEMMA WaitsStep ==
    ASSUME ObjectsInv, NEW t \in Slot, Runs(t), NEW o \in Obj, obj[o].init,
           NEW c \in {NoCall} \cup [op : {"lock"}], Waits(t, o, c)
    PROVE  ObjectsInv'
<1> DEFINE q == TCBQEnqByPrio(obj[o].waiters, t, prio(tcb))
           r == [obj[o] EXCEPT !.waiters = q]
<1>1. /\ Leave(t, "BLOCKED") /\ obj' = [obj EXCEPT ![o] = r] /\ armed' = armed \cup {t}
      /\ call' = [call EXCEPT ![t] = c] /\ UNCHANGED taskVars /\ UNCHANGED objMem
  BY DEF Waits
<1>2. /\ t \in Thread /\ t = runPtr /\ t # PostProc /\ t # Main /\ call[t] = NoCall
      /\ tcb[t].status = "RUNNING" /\ ~Calling(runPtr, "record")
  BY RunsFacts, Ids
<1>3. obj[o] \in ObjType /\ obj[o].waiters \in Seq(Slot) /\ IsInjective(obj[o].waiters)
  BY DEF ObjectsInv, ObjsOK, ObjType, WaitersOK
<1>4. \A p \in Obj : t \notin ToSet(obj[p].waiters)
  BY <1>2 DEF ObjectsInv, WaitersOK
<1>5. q \in Seq(Slot) /\ ToSet(q) = ToSet(obj[o].waiters) \cup {t} /\ IsInjective(q)
  BY <1>3, <1>4, TCBQEnqLemma
<1> HIDE DEF q
<1>6. r \in ObjType /\ r.init /\ r.waiters = q /\ r.owner = obj[o].owner
  BY <1>3, <1>5, FieldTypes
<1> HIDE DEF r
<1>7. SchedOK(tcb, readyQueue, runPtr)' /\ Moves(t, {"BLOCKED"})
  BY <1>1, <1>2, LeaveLemma DEF ObjectsInv
<1>8. /\ SameBlocks /\ SameStatus("PENDING") /\ tcb'[t].status = "BLOCKED"
      /\ \A u \in Thread : u # t => (tcb'[u].status = "BLOCKED" <=> tcb[u].status = "BLOCKED")
  <2>1. tcb'[t].status = "BLOCKED"
    BY <1>7 DEF Moves
  <2>2. SameBlocks /\ SameStatus("PENDING")
    BY <1>2, <1>7, MovesLemma DEF OnCpu
  <2>3. \A u \in Thread : u # t => (tcb'[u].status = "BLOCKED" <=> tcb[u].status = "BLOCKED")
    BY <1>2, <1>7, MovesLemma DEF OnCpu
  <2> QED
    BY <2>1, <2>2, <2>3
<1>9. CallsOK' /\ call'[t] = c /\ \A u \in Thread : u # t => call'[u] = call[u]
  BY <1>1, <1>2, CallStep DEF ObjectsInv
<1>10. c.op \notin {"spawn", "record", "create"} /\ call[t].op \notin {"spawn", "record"}
  BY <1>2 DEF NoCall
<1>11. SlotsOK' /\ StacksOK' /\ RecordOK' /\ JobsOK'
  BY <1>1, <1>2, <1>8, <1>9, <1>10, TaskSteady DEF SameCalls, SameSpawns
<1>12. /\ ObjsOK' /\ obj \in [Obj -> ObjType] /\ obj' \in [Obj -> ObjType]
       /\ obj'[o] = r /\ \A p \in Obj : p # o => obj'[p] = obj[p]
  <2>1. \A u \in Thread : call'[u] = call[u] \/ call'[u].op # "create"
    BY <1>9, <1>10
  <2> QED
    BY <1>1, <1>6, <2>1, UseLemma
<1>13. WaitersOK'
  <2>1. \A p \in Obj : IsInjective(obj'[p].waiters)
    BY <1>5, <1>6, <1>12 DEF ObjectsInv, WaitersOK
  <2>2. /\ ToSet(obj'[o].waiters) = ToSet(obj[o].waiters) \cup {t}
        /\ \A p \in Obj : p # o => ToSet(obj'[p].waiters) = ToSet(obj[p].waiters)
    BY <1>5, <1>6, <1>12
  <2>3. \A p \in Obj : \A u \in ToSet(obj'[p].waiters) : u \in Slot /\ tcb'[u].status = "BLOCKED"
    BY <1>8, <2>2, Ids DEF ObjectsInv, WaitersOK
  <2>4. ASSUME NEW u \in Thread, tcb'[u].status = "BLOCKED"
        PROVE  \E p \in Obj : u \in ToSet(obj'[p].waiters)
    <3>1. CASE u = t
      BY <2>2, <3>1
    <3>2. CASE u # t
      <4>1. PICK p \in Obj : u \in ToSet(obj[p].waiters)
        BY <1>8, <2>4, <3>2 DEF ObjectsInv, WaitersOK
      <4> QED
        BY <2>2, <4>1
    <3> QED
      BY <3>1, <3>2
  <2>5. ASSUME NEW p \in Obj, NEW v \in Obj, p # v
        PROVE  ToSet(obj'[p].waiters) \cap ToSet(obj'[v].waiters) = {}
    BY <1>4, <2>2, <2>5 DEF ObjectsInv, WaitersOK
  <2> QED
    BY <2>1, <2>3, <2>4, <2>5 DEF WaitersOK
<1>14. OwnersOK'
  <2>1. \A p \in Obj : obj[p].owner \in Thread \cup {NULL} /\ obj'[p].owner = obj[p].owner
    BY <1>6, <1>12 DEF ObjType
  <2> QED
    BY <1>8, <2>1, OwnersFrame DEF ObjectsInv
<1>15. ArmedOK'
  BY <1>1, <1>7, Ids DEF ObjectsInv, ArmedOK, Moves, OnCpu
<1> QED
  BY <1>7, <1>9, <1>11, <1>12, <1>13, <1>14, <1>15 DEF ObjectsInv

LEMMA TakeBlockStep ==
    ASSUME ObjectsInv, NEW t \in Thread, NEW o \in Obj, TakeBlock(t, o)
    PROVE  ObjectsInv'
<1>1. t \in Slot /\ Runs(t) /\ obj[o].init /\ Waits(t, o, NoCall)
  BY DEF TakeBlock, UsesQueue
<1> QED
  BY <1>1, WaitsStep

LEMMA LockBlockStep ==
    ASSUME ObjectsInv, NEW t \in Thread, NEW o \in Obj, LockBlock(t, o)
    PROVE  ObjectsInv'
<1> DEFINE c == [op |-> "lock"]
<1>1. t \in Slot /\ Runs(t) /\ obj[o].init /\ Waits(t, o, c)
  BY DEF LockBlock
<1>2. c \in {NoCall} \cup [op : {"lock"}]
  OBVIOUS
<1> HIDE DEF c
<1> QED
  BY <1>1, <1>2, WaitsStep

LEMMA ExpireStep ==
    ASSUME ObjectsInv, NEW t \in Thread, Expire(t)
    PROVE  ObjectsInv'
<1>1. /\ t \in armed /\ armed' = armed \ {t}
      /\ Resched(MadeReady(tcb, t), ReadyEnqueued(tcb, readyQueue, t), call[runPtr])
      /\ obj' = [o \in Obj |-> [obj[o] EXCEPT !.waiters = TCBQRem(@, t)]]
      /\ UNCHANGED <<taskVars, call>> /\ UNCHANGED objMem
  BY DEF Expire
<1>2. t \in Slot /\ tcb[t].status \in {"SLEEPING", "BLOCKED"} /\ tcb[t].init
  BY <1>1, Basics DEF ObjectsInv, ArmedOK
<1>3. /\ SchedOK(tcb, readyQueue, runPtr)' /\ Moves(t, OnCpu)
      /\ runPtr' # runPtr => ~SchLocked(call[runPtr]) /\ runPtr # PostProc
  BY <1>1, <1>2, WakeLemma DEF ObjectsInv, OnCpu
<1>4. /\ SameBlocks /\ SameStatus("PENDING") /\ tcb'[t].status # "BLOCKED"
      /\ \A u \in Thread : u # t => (tcb'[u].status = "BLOCKED" <=> tcb[u].status = "BLOCKED")
  BY <1>2, <1>3, MovesLemma DEF OnCpu
<1>5. SlotsOK' /\ StacksOK' /\ RecordOK' /\ JobsOK'
  <2>1. SameCalls /\ SameSpawns
    BY <1>1 DEF SameCalls, SameSpawns
  <2> QED
    BY <1>1, <1>3, <1>4, <2>1, TaskSteady DEF Calling, SchLocked
<1>6. CallsOK'
  BY <1>1 DEF ObjectsInv, CallsOK
<1>7. ASSUME NEW o \in Obj
      PROVE  /\ obj'[o] \in ObjType /\ obj'[o].init = obj[o].init /\ obj'[o].owner = obj[o].owner
             /\ obj[o].owner \in Thread \cup {NULL}
             /\ IsInjective(obj'[o].waiters)
             /\ ToSet(obj'[o].waiters) = ToSet(obj[o].waiters) \ {t}
             /\ ~obj[o].init => obj'[o] = obj[o]
  <2> DEFINE q == TCBQRem(obj[o].waiters, t)
  <2>1. obj[o] \in ObjType /\ obj[o].waiters \in Seq(Slot) /\ IsInjective(obj[o].waiters)
    BY DEF ObjectsInv, ObjsOK, ObjType, WaitersOK
  <2>2. obj'[o] = [obj[o] EXCEPT !.waiters = q]
    BY <1>1
  <2>3. /\ q \in Seq(Slot) /\ ToSet(q) = ToSet(obj[o].waiters) \ {t} /\ IsInjective(q)
    BY <1>2, <2>1, TCBQRemLemma
  <2>4. ~obj[o].init => obj[o].waiters = <<>> /\ q = obj[o].waiters
    <3>1. ~obj[o].init => obj[o].waiters = <<>>
      BY DEF ObjectsInv, ObjsOK, ZeroedObj
    <3>2. TCBQRem(<<>>, t) = <<>>
      BY DEF TCBQRem, RemoveFirst
    <3> QED
      BY <3>1, <3>2
  <2> HIDE DEF q
  <2>5. ~obj[o].init => obj'[o] = obj[o]
    BY <2>1, <2>2, <2>4 DEF ObjType
  <2>6. /\ obj'[o] \in ObjType /\ obj'[o].init = obj[o].init /\ obj'[o].owner = obj[o].owner
        /\ obj'[o].waiters = q
    BY <2>1, <2>2, <2>3, FieldTypes
  <2>7. obj[o].owner \in Thread \cup {NULL}
    BY <2>1 DEF ObjType
  <2> QED
    BY <2>3, <2>5, <2>6, <2>7
<1>8. ObjsOK'
  <2>1. obj' \in [Obj -> [init : BOOLEAN, waiters : Seq(Slot), owner : Thread \cup {NULL},
                          held : Int]]
    BY <1>1, <1>7 DEF ObjType
  <2>2. \A u \in Thread : /\ call'[u].op = "create" => call[u].op = "create" /\ call'[u] = call[u]
                          /\ call[u].op = "create" => call[u].o \in Obj
    BY <1>1, CallTypes DEF ObjectsInv, Calling
  <2>3. \A o \in Obj : obj'[o].init = obj[o].init /\ (~obj[o].init => obj'[o] = obj[o])
    BY <1>7
  <2>4. objMem' = objMem
    BY <1>1
  <2> QED
    BY <2>1, <2>2, <2>3, <2>4, ObjsFrame DEF ObjectsInv
<1>9. WaitersOK'
  BY <1>4, <1>7, Unlinked DEF ObjectsInv
<1>10. OwnersOK'
  BY <1>4, <1>7, OwnersFrame DEF ObjectsInv
<1>11. ArmedOK'
  BY <1>1, <1>3, ArmedSteady DEF ObjectsInv
<1> QED
  BY <1>3, <1>5, <1>6, <1>8, <1>9, <1>10, <1>11 DEF ObjectsInv

(***************************************************************************)
(* The theorems.                                                           *)
(***************************************************************************)

LEMMA StartSched == ObjectsInit => SchedOK(tcb, readyQueue, runPtr)
<1> SUFFICES ASSUME ObjectsInit PROVE SchedOK(tcb, readyQueue, runPtr)
  OBVIOUS
<1> DEFINE main == [init |-> TRUE, status |-> "RUNNING", priority |-> 1, preempt |-> TRUE,
                    stackBuf |-> NULL]
           post == [init |-> TRUE, status |-> "SLEEPING", priority |-> 0, preempt |-> FALSE,
                    stackBuf |-> NULL]
           start(t) == IF t = Main THEN main ELSE IF t = PostProc THEN post ELSE Zeroed
<1>1. tcb = [t \in Thread |-> start(t)]
  BY DEF ObjectsInit
<1>2. main \in Tcb /\ post \in Tcb /\ Zeroed \in Tcb
  BY DEF Tcb, Zeroed
<1>3. tcb[Main] = main /\ tcb[PostProc] = post
  BY <1>1, Ids
<1>4. \A t \in Thread : t # Main /\ t # PostProc => tcb[t] = Zeroed
  BY <1>1
<1>5. tcb \in [Thread -> Tcb]
  <2>1. \A t \in Thread : start(t) \in Tcb
    BY <1>2
  <2> HIDE DEF start
  <2> QED
    BY <1>1, <2>1
<1>6. ASSUME NEW t \in Thread
      PROVE  /\ tcb[t].init <=> tcb[t].status \notin {"NONE", "TERMINATED"}
             /\ tcb[t].stackBuf = NULL /\ tcb[t].status # "READY"
             /\ tcb[t].status = "RUNNING" <=> t = Main
  <2>1. CASE t = Main
    BY <1>3, <2>1
  <2>2. CASE t = PostProc
    BY <1>3, <2>2, Ids
  <2>3. CASE t # Main /\ t # PostProc
    BY <1>4, <2>3 DEF Zeroed
  <2> QED
    BY <2>1, <2>2, <2>3
<1>7. TcbsOK(tcb)
  <2>1. /\ tcb[Main].status = "RUNNING" /\ tcb[Main].priority = 1
        /\ tcb[PostProc].status = "SLEEPING" /\ tcb[PostProc].priority = 0
        /\ ~tcb[PostProc].preempt
    BY <1>3
  <2> QED
    BY <1>5, <1>6, <2>1 DEF TcbsOK
<1>8. RunsAlone(tcb, runPtr)
  BY <1>6, Ids DEF ObjectsInit, RunsAlone
<1>9. QueuesOK(tcb, readyQueue)
  <2>1. readyQueue = [p \in {0, 1} |-> <<>>]
    BY DEF ObjectsInit
  <2>2. <<>> \in Seq(Thread) /\ IsInjective(<<>>)
    BY EmptySeq DEF IsInjective
  <2>3. readyQueue \in [{0, 1} -> Seq(Thread)] /\ \A p \in {0, 1} : readyQueue[p] = <<>>
    BY <2>1, <2>2
  <2> QED
    BY <1>6, <2>2, <2>3, ToSetEmpty, Ids DEF QueuesOK
<1> QED
  BY <1>7, <1>8, <1>9 DEF SchedOK

LEMMA StartInv == ObjectsInit => ObjectsInv
<1> SUFFICES ASSUME ObjectsInit PROVE ObjectsInv
  OBVIOUS
<1>1. SchedOK(tcb, readyQueue, runPtr)
  BY StartSched
<1>2. \A t \in Thread : call[t] = NoCall /\ ~Calling(t, "record") /\ ~Calling(t, "spawn")
                        /\ ~Calling(t, "create")
  BY DEF ObjectsInit, NoCall, Calling
<1>3. CallsOK
  BY Ids DEF ObjectsInit, CallsOK
<1>4. \A s \in Slot : ~tcb[s].init /\ tcb[s].status = "NONE"
  BY Ids DEF ObjectsInit, Zeroed
<1>5. \A t \in Thread : tcb[t].status \notin {"BLOCKED", "PENDING"}
  BY DEF ObjectsInit, Zeroed
<1>6. SlotsOK
  <2>1. PartitionOK(taskPool, Slot) /\ taskPool.freeList = RK_gTcbs
    BY ObjectsAssumption, PartitionInitLemma DEF ObjectsInit
  <2>2. \A s \in Slot : s \in ToSet(taskPool.freeList)
    BY <2>1 DEF Slot
  <2>3. handleByPid = [s \in Slot |-> IF tcb[s].init THEN s ELSE NULL]
    BY <1>4 DEF ObjectsInit
  <2>4. handle \in [Handle -> Slot \cup {NULL}]
    BY DEF ObjectsInit
  <2> QED
    BY <1>4, <2>1, <2>2, <2>3, <2>4 DEF SlotsOK
<1>7. StacksOK
  <2>1. PartitionOK(stackMem, Stack)
    BY ObjectsAssumption, PartitionInitLemma DEF ObjectsInit
  <2> QED
    BY <1>2, <1>4, <2>1 DEF StacksOK
<1>8. RecordOK
  BY <1>2, <1>4 DEF ObjectsInit, RecordOK
<1>9. \A o \in Obj : obj[o] = ZeroedObj /\ obj[o].waiters = <<>> /\ obj[o].owner = NULL
                     /\ ~obj[o].init
  BY DEF ObjectsInit, ZeroedObj
<1>10. ObjsOK
  <2>1. obj \in [Obj -> ObjType]
    BY ZeroedType DEF ObjectsInit
  <2>2. ASSUME NEW k \in Kind PROVE PartitionOK(objMem[k], ToSet(objects[k]))
    <3>1. objMem[k] = PartitionInit(objects[k])
      BY DEF ObjectsInit
    <3>2. objects[k] \in Seq(Obj) /\ IsInjective(objects[k])
      BY ObjectsAssumption
    <3>3. objects[k] \in Seq(ToSet(objects[k]))
      BY <3>2, LenProperties, SeqDef DEF ToSet
    <3> QED
      BY <3>1, <3>2, <3>3, PartitionInitLemma
  <2>3. DOMAIN objMem = Kind
    BY DEF ObjectsInit
  <2> QED
    BY <1>2, <1>9, <2>1, <2>2, <2>3 DEF ObjsOK, ObjType
<1>11. WaitersOK
  <2>1. IsInjective(<<>>)
    BY DEF IsInjective
  <2> QED
    BY <1>5, <1>9, <2>1, ToSetEmpty DEF WaitersOK
<1>12. OwnersOK /\ ArmedOK
  BY <1>9 DEF ObjectsInit, OwnersOK, ArmedOK
<1>13. JobsOK
  <2>1. jobs = <<>> /\ <<>> \in Seq(Slot) /\ IsInjective(<<>>)
    BY EmptySeq DEF ObjectsInit, IsInjective
  <2> QED
    BY <1>5, <2>1, ToSetEmpty DEF JobsOK
<1> QED
  BY <1>1, <1>3, <1>6, <1>7, <1>8, <1>10, <1>11, <1>12, <1>13 DEF ObjectsInv

LEMMA NextInv == ObjectsInv /\ [ObjectsNext]_vars => ObjectsInv'
<1> SUFFICES ASSUME ObjectsInv, [ObjectsNext]_vars PROVE ObjectsInv'
  OBVIOUS
<1>1. ASSUME NEW t \in Thread, TaskLife(t) PROVE ObjectsInv'
  <2>1. CASE \E h \in Handle : Terminate(t, h) \/ \E a \in Attr : SpawnStack(t, h, a)
    BY <2>1, TerminateStep, SpawnStackStep
  <2>2. CASE SpawnInit(t) \/ SpawnRecord(t) \/ SpawnRefused(t) \/ SpawnFails(t)
    BY <2>2, SpawnInitStep, SpawnRecordStep, SpawnRefusedStep, SpawnFailsStep
  <2>3. CASE TerminateSelf(t)
    <3>1. TerminateRunning(t, handle) /\ handle \in [Handle -> Slot \cup {NULL}]
      BY <2>3 DEF TerminateSelf, ObjectsInv, SlotsOK
    <3> QED
      BY <3>1, TerminateRunningStep
  <2>4. CASE Yield(t) \/ Sleep(t) \/ Expire(t)
    BY <2>4, YieldStep, SleepStep, ExpireStep
  <2> QED
    BY <1>1, <2>1, <2>2, <2>3, <2>4 DEF TaskLife
<1>2. ASSUME NEW t \in Thread, ObjectLife(t) PROVE ObjectsInv'
  <2>1. CASE CreateInit(t) \/ LockResume(t) \/ \E k \in Kind : CreateAlloc(t, k)
    BY <2>1, CreateInitStep, LockResumeStep, CreateAllocStep
  <2>2. ASSUME NEW o \in Obj, Destroy(t, o) \/ Give(t, o) \/ Take(t, o) \/ TakeBlock(t, o)
        PROVE  ObjectsInv'
    BY <2>2, DestroyStep, GiveStep, TakeStep, TakeBlockStep
  <2>3. ASSUME NEW o \in Obj, Lock(t, o) \/ LockBlock(t, o) \/ Unlock(t, o)
        PROVE  ObjectsInv'
    BY <2>3, LockStep, LockBlockStep, UnlockStep
  <2> QED
    BY <1>2, <2>1, <2>2, <2>3 DEF ObjectLife
<1>3. CASE TerminateJob \/ PostProcSignal \/ PostProcSleep
  BY <1>3, TerminateJobStep, PostProcSignalStep, PostProcSleepStep
<1>4. CASE UNCHANGED vars
  <2>1. UNCHANGED <<taskPool, stackMem, dynStackPart, handleByPid, handle, jobs, tcb,
                    readyQueue, runPtr, call, armed, objMem, obj>>
    BY <1>4 DEF vars, taskVars, schedVars, objVars
  <2>2. SchedOK(tcb, readyQueue, runPtr)'
    BY <2>1 DEF ObjectsInv
  <2>3. CallsOK' /\ SlotsOK' /\ StacksOK' /\ RecordOK'
    BY <2>1 DEF ObjectsInv, CallsOK, SlotsOK, StacksOK, RecordOK, Calling
  <2>4. ObjsOK' /\ WaitersOK' /\ OwnersOK' /\ ArmedOK' /\ JobsOK'
    BY <2>1 DEF ObjectsInv, ObjsOK, WaitersOK, OwnersOK, ArmedOK, JobsOK, Calling
  <2> QED
    BY <2>2, <2>3, <2>4 DEF ObjectsInv
<1> QED
  BY <1>1, <1>2, <1>3, <1>4 DEF ObjectsNext

(* The pools, the queues and the calls agree on who is where, for any      *)
(* number of slots, stacks, handles and objects.                           *)
THEOREM ObjectsConsistent == ObjectsSpec => []ObjectsInv
<1> QED
  BY StartInv, NextInv, PTL DEF ObjectsSpec

LEMMA DanglingFollows == ASSUME ObjectsInv PROVE NoDangling
<1>1. /\ tcb \in [Thread -> Tcb] /\ TcbsOK(tcb) /\ QueuesOK(tcb, readyQueue)
      /\ RunsAlone(tcb, runPtr)
  BY DEF ObjectsInv, SchedOK, TcbsOK
<1>2. \A t \in Thread : t \in Live <=> tcb[t].init
  BY DEF Live
<1>3. \A t \in Thread : tcb[t].status \notin {"NONE", "TERMINATED"} => t \in Live
  BY <1>1, <1>2 DEF TcbsOK
<1>4. ASSUME NEW s \in Slot PROVE s \in Live <=> ~Contains(taskPool.freeList, s)
  <2>1. taskPool.freeList \in Seq(Slot)
    BY DEF ObjectsInv, SlotsOK, PartitionOK
  <2>2. Contains(taskPool.freeList, s) <=> s \in ToSet(taskPool.freeList)
    BY <2>1, InToSet
  <2> QED
    BY <1>2, <2>2, Ids DEF ObjectsInv, SlotsOK
<1>5. ASSUME NEW s \in Slot PROVE handleByPid[s] = IF s \in Live THEN s ELSE NULL
  BY <1>2, Ids DEF ObjectsInv, SlotsOK
<1>6. ASSUME NEW s \in Slot, s \in Live PROVE ~Contains(stackMem.freeList, tcb[s].stackBuf)
  <2>1. stackMem.freeList \in Seq(Stack)
    BY DEF ObjectsInv, StacksOK, PartitionOK
  <2>2. tcb[s].stackBuf \in Stack /\ tcb[s].stackBuf \notin ToSet(stackMem.freeList)
    BY <1>2, <1>6, Ids DEF ObjectsInv, StacksOK
  <2> QED
    BY <2>1, <2>2, InToSet
<1>7. ASSUME NEW s \in Slot, NEW r \in (Live \cap Slot) \ {s}
      PROVE  tcb[s].stackBuf # tcb[r].stackBuf
  <2>1. tcb[r].init /\ tcb[r].stackBuf \in Stack /\ r # s
    BY <1>2, Ids DEF ObjectsInv, StacksOK
  <2>2. CASE tcb[s].init
    BY <2>1, <2>2 DEF ObjectsInv, StacksOK
  <2>3. CASE ~tcb[s].init
    <3>1. tcb[s].stackBuf = NULL
      BY <1>1, <2>3, Ids DEF TcbsOK
    <3> QED
      BY <2>1, <3>1, Ids
  <2> QED
    BY <2>2, <2>3
<1>8. {runPtr} \cup armed \cup ToSet(readyQueue[0]) \cup ToSet(readyQueue[1]) \subseteq Live
  <2>1. runPtr \in Live
    BY <1>1, <1>3 DEF RunsAlone
  <2>2. armed \subseteq Live
    BY <1>3, Ids DEF ObjectsInv, ArmedOK
  <2>3. ASSUME NEW p \in {0, 1} PROVE ToSet(readyQueue[p]) \subseteq Live
    <3>1. readyQueue[p] \in Seq(Thread)
      BY <1>1 DEF QueuesOK
    <3>2. ToSet(readyQueue[p]) \subseteq Thread
      BY <3>1 DEF ToSet
    <3> QED
      BY <1>1, <1>3, <3>2 DEF QueuesOK
  <2> QED
    BY <2>1, <2>2, <2>3
<1>9. \A t \in armed : tcb[t].status \in {"SLEEPING", "BLOCKED"}
  BY DEF ObjectsInv, ArmedOK
<1>10. ASSUME NEW o \in Obj
       PROVE  ToSet(obj[o].waiters) \cup ({obj[o].owner} \ {NULL}) \subseteq Live
  <2>1. ToSet(obj[o].waiters) \subseteq Live
    BY <1>3, Ids DEF ObjectsInv, WaitersOK
  <2>2. obj[o].owner # NULL => obj[o].owner \in Live
    <3>1. obj[o].owner \in Thread \cup {NULL}
      BY DEF ObjectsInv, ObjsOK
    <3> QED
      BY <1>2, <3>1 DEF ObjectsInv, OwnersOK
  <2> QED
    BY <2>1, <2>2
<1>11. ASSUME NEW o \in Obj, obj[o].init PROVE ~Contains(objMem[KindOf(o)].freeList, o)
  <2>1. KindOf(o) \in Kind
    BY KindLemma
  <2>2. /\ PartitionOK(objMem[KindOf(o)], ToSet(objects[KindOf(o)]))
        /\ o \notin ToSet(objMem[KindOf(o)].freeList)
    BY <1>11, <2>1 DEF ObjectsInv, ObjsOK
  <2>3. objMem[KindOf(o)].freeList \in Seq(ToSet(objects[KindOf(o)]))
    BY <2>2 DEF PartitionOK
  <2> QED
    BY <2>2, <2>3, InToSet
<1>12. \A o \in Obj : ~obj[o].init => obj[o] = ZeroedObj
  BY DEF ObjectsInv, ObjsOK
<1>13. \A o \in Obj : \A t \in ToSet(obj[o].waiters) : tcb[t].status = "BLOCKED"
  BY DEF ObjectsInv, WaitersOK
<1>14. ASSUME NEW t \in Thread, tcb[t].status = "BLOCKED"
       PROVE  \E o \in Obj : obj[o].init /\ Contains(obj[o].waiters, t)
  <2>1. PICK o \in Obj : t \in ToSet(obj[o].waiters)
    BY <1>14 DEF ObjectsInv, WaitersOK
  <2>2. obj[o].waiters \in Seq(Slot)
    BY DEF ObjectsInv, ObjsOK
  <2>3. obj[o].init
    <3>1. obj[o].waiters # <<>>
      BY <2>1, <2>2, ToSetEmpty
    <3> QED
      BY <1>12, <3>1 DEF ZeroedObj
  <2>4. Contains(obj[o].waiters, t)
    BY <2>1, <2>2, InToSet
  <2> QED
    BY <2>3, <2>4
<1> QED
  BY <1>4, <1>5, <1>6, <1>7, <1>8, <1>9, <1>10, <1>11, <1>12, <1>13, <1>14 DEF NoDangling

(* Nothing the kernel follows leads to a freed TCB, stack or object.       *)
THEOREM NoDanglingHolds == ObjectsSpec => []NoDangling
<1>1. ObjectsInv => NoDangling
  BY DanglingFollows
<1> QED
  BY <1>1, ObjectsConsistent, PTL

LEMMA SelfTerminationFollows == ASSUME ObjectsInv PROVE SelfTerminationSafe
<1>1. jobs \in Seq(Slot) /\ \A t \in Thread : tcb[t].status = "PENDING" <=> t \in ToSet(jobs)
  BY DEF ObjectsInv, JobsOK
<1>2. ASSUME NEW s \in Slot, tcb[s].init,
             runPtr = s \/ runPtr = PostProc
      PROVE  s \in dynStackPart
  <2>1. runPtr = PostProc => ~Calling(runPtr, "record")
    BY DEF ObjectsInv, CallsOK, Calling, NoCall
  <2>2. runPtr = s => ~(Calling(runPtr, "record") /\ call[runPtr].slot = s)
    BY Ids DEF ObjectsInv, RecordOK
  <2> QED
    BY <1>2, <2>1, <2>2 DEF ObjectsInv, RecordOK
<1>3. \A t \in Thread : tcb[t].status \notin {"NONE", "TERMINATED"} => tcb[t].init
  BY DEF ObjectsInv, SchedOK, TcbsOK
<1>4. ASSUME NEW i \in 1 .. Len(jobs)
      PROVE  tcb[jobs[i]].status = "PENDING" /\ jobs[i] \in dynStackPart
  <2>1. jobs[i] \in Slot /\ jobs[i] \in ToSet(jobs) /\ jobs # <<>>
    BY <1>1, EmptySeq DEF ToSet
  <2>2. tcb[jobs[i]].status = "PENDING"
    BY <1>1, <2>1, Ids
  <2>3. runPtr = PostProc
    BY <2>1 DEF ObjectsInv, JobsOK
  <2> QED
    BY <1>2, <1>3, <2>1, <2>2, <2>3, Ids
<1>5. ASSUME NEW s \in Slot, tcb[s].status = "PENDING" PROVE Contains(jobs, s)
  BY <1>1, <1>5, InToSet, Ids
<1>6. runPtr \in Slot => runPtr \in dynStackPart
  <2>1. runPtr \in Thread /\ tcb[runPtr].status = "RUNNING"
    BY DEF ObjectsInv, SchedOK, RunsAlone
  <2> QED
    BY <1>2, <1>3, <2>1
<1> QED
  BY <1>4, <1>5, <1>6 DEF SelfTerminationSafe, JobsFindTheirTask

(* A task that ends itself is the one the deferred job ends, and a task    *)
(* executes only once the kernel knows that it was spawned.                *)
THEOREM SelfTerminationHolds == ObjectsSpec => []SelfTerminationSafe
<1>1. ObjectsInv => SelfTerminationSafe
  BY SelfTerminationFollows
<1> QED
  BY <1>1, ObjectsConsistent, PTL

(***************************************************************************)
(* RK0MRM: the invariant, for any number of writers.                       *)
(***************************************************************************)
UsedBuf == Used(mrmMem, Buf)
ReadersOf(b) == {r \in Reader : b \in reading[r]}

MRMTypes ==
    /\ mrmInit \in BOOLEAN
    /\ PartitionOK(mrmMem, Buf) /\ mrmMem.nMaxBlocks = Len(mrmPool)
    /\ PartitionOK(mrmDataMem, Data) /\ mrmDataMem.nMaxBlocks = Len(mesgPool)
    /\ currBufPtr \in Buf \cup {None}
    /\ nUsers \in [Buf -> Int]
    /\ mrmData \in [Buf -> Data]
    /\ DOMAIN content = Data
    /\ reserved \in [Writer -> Buf \cup {None}]
    /\ reading \in [Reader -> SUBSET Buf]

(* A buffer that is in use has a message block of its own. *)
PairInv ==
    /\ \A d \in Data : d \in Used(mrmDataMem, Data) <=> \E b \in UsedBuf : mrmData[b] = d
    /\ \A b, c \in UsedBuf : mrmData[b] = mrmData[c] => b = c

(* A buffer that is read is in use, and knows its readers. *)
ReadInv ==
    \A b \in Buf : /\ IsFiniteSet(ReadersOf(b))
                   /\ nUsers[b] = Cardinality(ReadersOf(b))
                   /\ ReadersOf(b) # {} => b \in UsedBuf

CurrInv == currBufPtr # None => currBufPtr \in UsedBuf

(* Of an object that was destroyed nobody has a buffer. *)
GoneInv ==
    ~mrmInit => /\ currBufPtr = None
                /\ \A w \in Writer : reserved[w] = None
                /\ \A b \in Buf : ReadersOf(b) = {}

MRMInv == MRMTypes /\ PairInv /\ ReadInv /\ CurrInv /\ GoneInv

USE MRMAssumption

LEMMA PoolsOnce ==
    /\ IsInjective(mrmPool) /\ IsInjective(mesgPool)
    /\ IsFiniteSet(Buf) /\ IsFiniteSet(Data)
  BY InjectiveLength DEF Buf, Data

(* Both partitions of a new object are full. *)
LEMMA CreatedPools ==
    ASSUME NEW mem, mem = PartitionInit(mrmPool), NEW dataMem, dataMem = PartitionInit(mesgPool)
    PROVE  /\ PartitionOK(mem, Buf) /\ mem.nMaxBlocks = Len(mrmPool)
           /\ PartitionOK(dataMem, Data) /\ dataMem.nMaxBlocks = Len(mesgPool)
           /\ Used(mem, Buf) = {} /\ Used(dataMem, Data) = {}
  BY PoolsOnce, PartitionInitLemma DEF Used, Buf, Data

LEMMA MRMInitInv == MRMInit => MRMInv
<1> SUFFICES ASSUME MRMInit PROVE MRMInv
  OBVIOUS
<1>1. \A b \in Buf : mesgPool[1] \in Data
  <2> SUFFICES ASSUME NEW b \in Buf PROVE mesgPool[1] \in Data
    OBVIOUS
  <2>1. PICK i \in 1 .. Len(mrmPool) : mrmPool[i] = b
    BY InToSet DEF Buf
  <2>2. 1 \in 1 .. Len(mesgPool)
    BY <2>1, LenProperties
  <2> QED
    BY <2>2, InToSet DEF Data
<1>2. MRMTypes
  <2>1. mrmData \in [Buf -> Data]
    BY <1>1 DEF MRMInit
  <2>2. /\ PartitionOK(mrmMem, Buf) /\ mrmMem.nMaxBlocks = Len(mrmPool)
        /\ PartitionOK(mrmDataMem, Data) /\ mrmDataMem.nMaxBlocks = Len(mesgPool)
    BY CreatedPools DEF MRMInit
  <2>3. mrmInit \in BOOLEAN /\ currBufPtr = None /\ DOMAIN content = Data
    BY DEF MRMInit
  <2>4. nUsers \in [Buf -> Int]
    BY DEF MRMInit
  <2>5. reserved \in [Writer -> Buf \cup {None}]
    BY DEF MRMInit
  <2>6. reading \in [Reader -> SUBSET Buf]
    BY DEF MRMInit
  <2> QED
    BY <2>1, <2>2, <2>3, <2>4, <2>5, <2>6 DEF MRMTypes
<1>3. UsedBuf = {} /\ Used(mrmDataMem, Data) = {}
  BY CreatedPools DEF MRMInit, UsedBuf
<1>4. \A b \in Buf : ReadersOf(b) = {} /\ nUsers[b] = 0
  BY DEF MRMInit, ReadersOf
<1>5. PairInv /\ ReadInv /\ CurrInv /\ GoneInv
  BY <1>3, <1>4, FS_EmptySet DEF MRMInit, PairInv, ReadInv, CurrInv, GoneInv
<1> QED
  BY <1>2, <1>5 DEF MRMInv

LEMMA MRMCreateInv == ASSUME MRMInv, MRMCreate PROVE MRMInv'
<1>1. MRMTypes'
  BY CreatedPools DEF MRMInv, MRMTypes, MRMCreate, userVars
<1>2. UsedBuf' = {} /\ Used(mrmDataMem', Data) = {}
  BY CreatedPools DEF MRMCreate, UsedBuf
<1>3. \A b \in Buf : ReadersOf(b)' = ReadersOf(b) /\ ReadersOf(b) = {} /\ nUsers'[b] = nUsers[b]
  BY DEF MRMInv, GoneInv, MRMCreate, ReadersOf, userVars
<1>4. PairInv' /\ CurrInv' /\ GoneInv'
  BY <1>2 DEF MRMCreate, PairInv, CurrInv, GoneInv
<1>5. ReadInv'
  BY <1>3 DEF MRMInv, ReadInv
<1> QED
  BY <1>1, <1>4, <1>5 DEF MRMInv

(* The current buffer is only zeroed. *)
LEMMA ReserveCurrentInv ==
    ASSUME MRMInv, NEW w \in Writer, Reserve(w), Reuses
    PROVE  MRMInv'
<1>1. /\ currBufPtr # None /\ nUsers[currBufPtr] = 0 /\ mrmInit
      /\ content' = [content EXCEPT ![mrmData[currBufPtr]] = Zero]
      /\ nUsers' = [nUsers EXCEPT ![currBufPtr] = 0]
      /\ reserved' = [reserved EXCEPT ![w] = currBufPtr]
      /\ UNCHANGED <<mrmMem, mrmDataMem, mrmData, mrmInit, currBufPtr, reading>>
  BY DEF Reserve, ReserveCurrent, Reuses, memVars
<1>2. UNCHANGED nUsers
  BY <1>1 DEF MRMInv, MRMTypes
<1>3. MRMTypes'
  BY <1>1, <1>2 DEF MRMInv, MRMTypes
<1>4. \A b \in Buf : ReadersOf(b)' = ReadersOf(b)
  BY <1>1 DEF ReadersOf
<1>5. PairInv' /\ ReadInv' /\ CurrInv' /\ GoneInv'
  BY <1>1, <1>2, <1>4 DEF MRMInv, PairInv, ReadInv, CurrInv, GoneInv, UsedBuf
<1> QED
  BY <1>3, <1>5 DEF MRMInv

(* A new buffer gets a message block that no other has. *)
LEMMA ReserveNewFacts ==
    ASSUME MRMInv, NEW w \in Writer, ReserveNew(w)
    PROVE  \E b \in Buf, d \in Data :
              /\ b \notin UsedBuf /\ UsedBuf' = UsedBuf \cup {b}
              /\ d \notin Used(mrmDataMem, Data)
              /\ Used(mrmDataMem, Data)' = Used(mrmDataMem, Data) \cup {d}
              /\ PartitionOK(mrmMem', Buf) /\ mrmMem'.nMaxBlocks = Len(mrmPool)
              /\ PartitionOK(mrmDataMem', Data) /\ mrmDataMem'.nMaxBlocks = Len(mesgPool)
              /\ nUsers' = [nUsers EXCEPT ![b] = 0]
              /\ mrmData' = [mrmData EXCEPT ![b] = d]
              /\ reserved' = [reserved EXCEPT ![w] = b]
              /\ UNCHANGED content
<1>1. PICK b, d : b = AllocPtr(mrmMem) /\ d = AllocPtr(mrmDataMem)
  OBVIOUS
<1>2. /\ CanAlloc(mrmMem) /\ CanAlloc(mrmDataMem)
      /\ mrmMem' = AllocRest(mrmMem) /\ mrmDataMem' = AllocRest(mrmDataMem)
      /\ nUsers' = [nUsers EXCEPT ![b] = 0]
      /\ mrmData' = [mrmData EXCEPT ![b] = d]
      /\ reserved' = [reserved EXCEPT ![w] = b]
      /\ UNCHANGED content
  BY <1>1 DEF ReserveNew
<1>3. /\ PartitionOK(mrmMem, Buf) /\ mrmMem.nMaxBlocks = Len(mrmPool)
      /\ PartitionOK(mrmDataMem, Data) /\ mrmDataMem.nMaxBlocks = Len(mesgPool)
  BY DEF MRMInv, MRMTypes
<1>4. /\ b \in Buf /\ b \in ToSet(mrmMem.freeList) /\ PartitionOK(mrmMem', Buf)
      /\ ToSet(mrmMem'.freeList) = ToSet(mrmMem.freeList) \ {b}
      /\ mrmMem'.nMaxBlocks = mrmMem.nMaxBlocks
  BY <1>1, <1>2, <1>3, AllocLemma
<1>5. /\ d \in Data /\ d \in ToSet(mrmDataMem.freeList) /\ PartitionOK(mrmDataMem', Data)
      /\ ToSet(mrmDataMem'.freeList) = ToSet(mrmDataMem.freeList) \ {d}
      /\ mrmDataMem'.nMaxBlocks = mrmDataMem.nMaxBlocks
  BY <1>1, <1>2, <1>3, AllocLemma
<1> QED
  BY <1>2, <1>3, <1>4, <1>5 DEF UsedBuf, Used

LEMMA ReserveNewInv ==
    ASSUME MRMInv, NEW w \in Writer, Reserve(w), ~Reuses
    PROVE  MRMInv'
<1>1. ReserveNew(w) /\ mrmInit /\ UNCHANGED <<mrmInit, currBufPtr, reading>>
  BY DEF Reserve
<1>2. PICK b \in Buf, d \in Data :
         /\ b \notin UsedBuf /\ UsedBuf' = UsedBuf \cup {b}
         /\ d \notin Used(mrmDataMem, Data)
         /\ Used(mrmDataMem, Data)' = Used(mrmDataMem, Data) \cup {d}
         /\ PartitionOK(mrmMem', Buf) /\ mrmMem'.nMaxBlocks = Len(mrmPool)
         /\ PartitionOK(mrmDataMem', Data) /\ mrmDataMem'.nMaxBlocks = Len(mesgPool)
         /\ nUsers' = [nUsers EXCEPT ![b] = 0]
         /\ mrmData' = [mrmData EXCEPT ![b] = d]
         /\ reserved' = [reserved EXCEPT ![w] = b]
         /\ UNCHANGED content
  BY <1>1, ReserveNewFacts
<1>3. MRMTypes'
  BY <1>1, <1>2 DEF MRMInv, MRMTypes
<1>4. PairInv'
  <2>1. \A c \in Buf : mrmData'[c] = IF c = b THEN d ELSE mrmData[c]
    BY <1>2 DEF MRMInv, MRMTypes
  <2>2. \A c \in UsedBuf : c \in Buf /\ c # b /\ mrmData[c] # d
    BY <1>2 DEF MRMInv, PairInv, UsedBuf, Used
  <2> QED
    BY <1>2, <2>1, <2>2 DEF MRMInv, PairInv
<1>5. ReadersOf(b) = {} /\ \A c \in Buf : ReadersOf(c)' = ReadersOf(c)
  BY <1>1, <1>2 DEF MRMInv, ReadInv, ReadersOf
<1>6. \A c \in Buf : nUsers'[c] = IF c = b THEN 0 ELSE nUsers[c]
  BY <1>2 DEF MRMInv, MRMTypes
<1>7. ReadInv'
  BY <1>2, <1>5, <1>6, FS_EmptySet DEF MRMInv, ReadInv
<1>8. CurrInv' /\ GoneInv'
  BY <1>1, <1>2 DEF MRMInv, CurrInv, GoneInv
<1> QED
  BY <1>3, <1>4, <1>7, <1>8 DEF MRMInv

(***************************************************************************)
(* kMRMReleaseBuffer_ gives back a buffer and its block, and no other.     *)
(***************************************************************************)
LEMMA ReleaseEffect ==
    ASSUME MRMInv, NEW b \in UsedBuf, ReleaseBuffer(b), UNCHANGED mrmData
    PROVE  /\ PartitionOK(mrmMem', Buf) /\ mrmMem'.nMaxBlocks = Len(mrmPool)
           /\ PartitionOK(mrmDataMem', Data) /\ mrmDataMem'.nMaxBlocks = Len(mesgPool)
           /\ UsedBuf' = UsedBuf \ {b}
           /\ PairInv'
<1> DEFINE d == mrmData[b]
<1>1. /\ PartitionOK(mrmMem, Buf) /\ mrmMem.nMaxBlocks = Len(mrmPool)
      /\ PartitionOK(mrmDataMem, Data) /\ mrmDataMem.nMaxBlocks = Len(mesgPool)
      /\ mrmData \in [Buf -> Data]
  BY DEF MRMInv, MRMTypes
<1>2. b \in Buf /\ b \notin ToSet(mrmMem.freeList)
  BY DEF UsedBuf, Used
<1>3. d \in Data /\ d \notin ToSet(mrmDataMem.freeList)
  BY <1>1, <1>2 DEF MRMInv, PairInv, Used
<1>4. mrmDataMem' = FreeBlock(mrmDataMem, d) /\ mrmMem' = FreeBlock(mrmMem, b)
  BY DEF ReleaseBuffer
<1> HIDE DEF d
<1>5. /\ PartitionOK(mrmMem', Buf) /\ mrmMem'.nMaxBlocks = mrmMem.nMaxBlocks
      /\ ToSet(mrmMem'.freeList) = ToSet(mrmMem.freeList) \cup {b}
  BY <1>1, <1>2, <1>4, FreeLemma
<1>6. /\ PartitionOK(mrmDataMem', Data) /\ mrmDataMem'.nMaxBlocks = mrmDataMem.nMaxBlocks
      /\ ToSet(mrmDataMem'.freeList) = ToSet(mrmDataMem.freeList) \cup {d}
  BY <1>1, <1>3, <1>4, FreeLemma
<1>7. /\ UsedBuf' = UsedBuf \ {b}
      /\ Used(mrmDataMem, Data)' = Used(mrmDataMem, Data) \ {d}
  BY <1>5, <1>6 DEF UsedBuf, Used
<1>8. PairInv'
  <2>1. \A c \in UsedBuf : mrmData[c] = d <=> c = b
    BY DEF MRMInv, PairInv, d
  <2> QED
    BY <1>7, <2>1 DEF MRMInv, PairInv
<1> QED
  BY <1>1, <1>5, <1>6, <1>7, <1>8

(* A buffer that may be published or returned is in use. *)
LEMMA ValidIsUsed ==
    ASSUME MRMInv, NEW b \in Buf, BufferValid(b)
    PROVE  b \in UsedBuf
<1>1. mrmMem.freeList \in Seq(Buf)
  BY DEF MRMInv, MRMTypes, PartitionOK
<1> QED
  BY <1>1, InToSet DEF BufferValid, UsedBuf, Used

LEMMA PublishInv ==
    ASSUME MRMInv, NEW w \in Writer, NEW m \in Message, Publish(w, m)
    PROVE  MRMInv'
<1>1. PICK b : b = reserved[w]
  OBVIOUS
<1>2. /\ b # None /\ BufferValid(b) /\ nUsers[b] = 0
      /\ content' = [content EXCEPT ![mrmData[b]] = m]
      /\ currBufPtr' = b
      /\ reserved' = [reserved EXCEPT ![w] = None]
      /\ UNCHANGED <<mrmInit, nUsers, mrmData, reading>>
  BY <1>1 DEF Publish
<1>3. b \in Buf /\ b \in UsedBuf
  BY <1>1, <1>2, ValidIsUsed DEF MRMInv, MRMTypes
<1>4. \A c \in Buf : ReadersOf(c)' = ReadersOf(c)
  BY <1>2 DEF ReadersOf
<1>5. mrmInit
  BY <1>1, <1>2 DEF MRMInv, GoneInv
<1>6. CASE currBufPtr \notin {None, b} /\ nUsers[currBufPtr] = 0
  <2>1. ReleaseBuffer(currBufPtr) /\ currBufPtr \in UsedBuf
    BY <1>1, <1>6 DEF Publish, MRMInv, CurrInv
  <2>2. /\ PartitionOK(mrmMem', Buf) /\ mrmMem'.nMaxBlocks = Len(mrmPool)
        /\ PartitionOK(mrmDataMem', Data) /\ mrmDataMem'.nMaxBlocks = Len(mesgPool)
        /\ UsedBuf' = UsedBuf \ {currBufPtr}
        /\ PairInv'
    BY <1>2, <2>1, ReleaseEffect
  <2>3. MRMTypes'
    BY <1>2, <1>3, <2>2 DEF MRMInv, MRMTypes
  <2>4. ReadersOf(currBufPtr) = {}
    BY <1>6, <2>1, FS_EmptySet DEF MRMInv, ReadInv, UsedBuf, Used
  <2>5. ReadInv'
    BY <1>2, <1>4, <2>2, <2>4 DEF MRMInv, ReadInv
  <2>6. CurrInv' /\ GoneInv'
    BY <1>2, <1>3, <1>5, <1>6, <2>2 DEF CurrInv, GoneInv
  <2> QED
    BY <2>2, <2>3, <2>5, <2>6 DEF MRMInv
<1>7. CASE ~(currBufPtr \notin {None, b} /\ nUsers[currBufPtr] = 0)
  <2>1. UNCHANGED <<mrmMem, mrmDataMem>>
    BY <1>1, <1>7 DEF Publish, memVars
  <2>2. UsedBuf' = UsedBuf /\ PairInv'
    BY <1>2, <2>1 DEF MRMInv, PairInv, UsedBuf
  <2>3. MRMTypes'
    BY <1>2, <1>3, <2>1 DEF MRMInv, MRMTypes
  <2>4. ReadInv'
    BY <1>2, <1>4, <2>2 DEF MRMInv, ReadInv
  <2>5. CurrInv' /\ GoneInv'
    BY <1>2, <1>3, <1>5, <2>2 DEF CurrInv, GoneInv
  <2> QED
    BY <2>2, <2>3, <2>4, <2>5 DEF MRMInv
<1> QED
  BY <1>6, <1>7

LEMMA MRMGetInv ==
    ASSUME MRMInv, NEW r \in Reader, MRMGet(r)
    PROVE  MRMInv'
<1>1. PICK b : b = currBufPtr
  OBVIOUS
<1>2. /\ mrmInit /\ b # None /\ b \notin reading[r]
      /\ nUsers' = [nUsers EXCEPT ![b] = @ + 1]
      /\ reading' = [reading EXCEPT ![r] = @ \cup {b}]
      /\ UNCHANGED <<mrmInit, mrmMem, mrmDataMem, currBufPtr, mrmData, content, reserved>>
  BY <1>1 DEF MRMGet, memVars
<1>3. b \in Buf /\ b \in UsedBuf
  BY <1>1, <1>2 DEF MRMInv, MRMTypes, CurrInv
<1>4. MRMTypes'
  BY <1>2, <1>3 DEF MRMInv, MRMTypes
<1>5. UsedBuf' = UsedBuf
  BY <1>2 DEF UsedBuf
<1>6. /\ r \notin ReadersOf(b) /\ ReadersOf(b)' = ReadersOf(b) \cup {r}
      /\ \A c \in Buf \ {b} : ReadersOf(c)' = ReadersOf(c)
  BY <1>2, <1>3 DEF MRMInv, MRMTypes, ReadersOf
<1>7. ReadInv'
  <2>1. IsFiniteSet(ReadersOf(b)') /\ Cardinality(ReadersOf(b)') = Cardinality(ReadersOf(b)) + 1
    BY <1>3, <1>6, FS_AddElement DEF MRMInv, ReadInv
  <2>2. \A c \in Buf : nUsers'[c] = IF c = b THEN nUsers[b] + 1 ELSE nUsers[c]
    BY <1>2, <1>3 DEF MRMInv, MRMTypes
  <2> QED
    BY <1>3, <1>5, <1>6, <2>1, <2>2 DEF MRMInv, ReadInv
<1>8. PairInv' /\ CurrInv' /\ GoneInv'
  BY <1>2, <1>5 DEF MRMInv, PairInv, CurrInv, GoneInv
<1> QED
  BY <1>4, <1>7, <1>8 DEF MRMInv

(* Who returns a buffer reads it no longer; the others still do. *)
LEMMA UngetFacts ==
    ASSUME MRMInv, NEW r \in Reader, NEW b \in Buf, Unget(r, b)
    PROVE  /\ mrmInit /\ b \in UsedBuf /\ r \in ReadersOf(b)
           /\ ReadersOf(b)' = ReadersOf(b) \ {r}
           /\ \A c \in Buf \ {b} : ReadersOf(c)' = ReadersOf(c)
           /\ \A c \in Buf : nUsers'[c] = IF c = b THEN nUsers[b] - 1 ELSE nUsers[c]
           /\ IsFiniteSet(ReadersOf(b)') /\ Cardinality(ReadersOf(b)') = nUsers[b] - 1
           /\ nUsers[b] = 1 => ReadersOf(b)' = {}
<1>1. /\ b \in reading[r] /\ BufferValid(b)
      /\ nUsers' = [nUsers EXCEPT ![b] = @ - 1]
      /\ reading' = [reading EXCEPT ![r] = @ \ {b}]
  BY DEF Unget
<1>2. /\ r \in ReadersOf(b) /\ ReadersOf(b)' = ReadersOf(b) \ {r}
      /\ \A c \in Buf \ {b} : ReadersOf(c)' = ReadersOf(c)
  BY <1>1 DEF MRMInv, MRMTypes, ReadersOf
<1>3. IsFiniteSet(ReadersOf(b)') /\ Cardinality(ReadersOf(b)') = nUsers[b] - 1
  BY <1>2, FS_RemoveElement DEF MRMInv, ReadInv
<1>4. nUsers[b] = 1 => ReadersOf(b)' = {}
  BY <1>3, FS_EmptySet
<1>5. mrmInit /\ b \in UsedBuf
  BY <1>1, <1>2, ValidIsUsed DEF MRMInv, GoneInv
<1> QED
  BY <1>1, <1>2, <1>3, <1>4, <1>5 DEF MRMInv, MRMTypes

LEMMA UngetInv ==
    ASSUME MRMInv, NEW r \in Reader, NEW b \in Buf, Unget(r, b)
    PROVE  MRMInv'
<1>1. /\ mrmInit /\ b \in UsedBuf /\ r \in ReadersOf(b)
      /\ ReadersOf(b)' = ReadersOf(b) \ {r}
      /\ \A c \in Buf \ {b} : ReadersOf(c)' = ReadersOf(c)
      /\ \A c \in Buf : nUsers'[c] = IF c = b THEN nUsers[b] - 1 ELSE nUsers[c]
      /\ IsFiniteSet(ReadersOf(b)') /\ Cardinality(ReadersOf(b)') = nUsers[b] - 1
      /\ nUsers[b] = 1 => ReadersOf(b)' = {}
  BY UngetFacts
<1>2. /\ nUsers' = [nUsers EXCEPT ![b] = @ - 1]
      /\ reading' = [reading EXCEPT ![r] = @ \ {b}]
      /\ UNCHANGED <<mrmInit, currBufPtr, mrmData, content, reserved>>
  BY DEF Unget
<1>3. CASE nUsers[b] = 1 /\ currBufPtr # b
  <2>1. ReleaseBuffer(b)
    BY <1>3 DEF Unget
  <2>2. /\ PartitionOK(mrmMem', Buf) /\ mrmMem'.nMaxBlocks = Len(mrmPool)
        /\ PartitionOK(mrmDataMem', Data) /\ mrmDataMem'.nMaxBlocks = Len(mesgPool)
        /\ UsedBuf' = UsedBuf \ {b}
        /\ PairInv'
    BY <1>1, <1>2, <2>1, ReleaseEffect
  <2>3. MRMTypes'
    BY <1>2, <2>2 DEF MRMInv, MRMTypes
  <2>4. ReadInv'
    BY <1>1, <1>3, <2>2 DEF MRMInv, ReadInv
  <2>5. CurrInv' /\ GoneInv'
    BY <1>1, <1>2, <1>3, <2>2 DEF MRMInv, CurrInv, GoneInv
  <2> QED
    BY <2>2, <2>3, <2>4, <2>5 DEF MRMInv
<1>4. CASE ~(nUsers[b] = 1 /\ currBufPtr # b)
  <2>1. UNCHANGED <<mrmMem, mrmDataMem>>
    BY <1>4 DEF Unget, memVars
  <2>2. UsedBuf' = UsedBuf /\ PairInv'
    BY <1>2, <2>1 DEF MRMInv, PairInv, UsedBuf
  <2>3. MRMTypes'
    BY <1>2, <2>1 DEF MRMInv, MRMTypes
  <2>4. ReadInv'
    BY <1>1, <2>2 DEF MRMInv, ReadInv
  <2>5. CurrInv' /\ GoneInv'
    BY <1>1, <1>2, <2>2 DEF MRMInv, CurrInv, GoneInv
  <2> QED
    BY <2>2, <2>3, <2>4, <2>5 DEF MRMInv
<1> QED
  BY <1>3, <1>4

(***************************************************************************)
(* kMRMDestroy is not refused: at most the current buffer is out, and      *)
(* nobody reads it.                                                        *)
(***************************************************************************)
LEMMA UnusedMRM ==
    ASSUME MRMInv, ~MRMInUse
    PROVE  /\ UsedBuf = {currBufPtr} \ {None}
           /\ \A b \in Buf : ReadersOf(b) = {}
<1> DEFINE held == IF currBufPtr = None THEN 0 ELSE 1
<1>1. mrmMem.nMaxBlocks - mrmMem.nFreeBlocks = held
  BY DEF MRMInUse
<1>2. PartitionOK(mrmMem, Buf) /\ mrmMem.nMaxBlocks = Cardinality(Buf)
  BY DEF MRMInv, MRMTypes
<1>3. IsFiniteSet(UsedBuf) /\ Cardinality(UsedBuf) = held
  BY <1>1, <1>2, PoolsOnce, UsedCount DEF UsedBuf, Used
<1>4. UsedBuf = {currBufPtr} \ {None}
  <2>1. CASE currBufPtr = None
    BY <1>3, <2>1, FS_EmptySet
  <2>2. CASE currBufPtr # None
    <3>1. currBufPtr \in UsedBuf
      BY <2>2 DEF MRMInv, CurrInv
    <3>2. PICK x : UsedBuf = {x}
      BY <1>3, <2>2, FS_Singleton
    <3> QED
      BY <2>2, <3>1, <3>2
  <2> QED
    BY <2>1, <2>2
<1>5. ASSUME NEW b \in Buf PROVE ReadersOf(b) = {}
  <2>1. b \in UsedBuf => nUsers[b] = 0 \/ ~(nUsers[b] > 0)
    BY <1>4 DEF MRMInUse
  <2>2. IsFiniteSet(ReadersOf(b)) /\ nUsers[b] = Cardinality(ReadersOf(b))
    BY DEF MRMInv, ReadInv
  <2>3. Cardinality(ReadersOf(b)) \in Nat
    BY <2>2, FS_CardinalityType
  <2>4. b \in UsedBuf => ReadersOf(b) = {}
    BY <2>1, <2>2, <2>3, FS_EmptySet
  <2> QED
    BY <2>4 DEF MRMInv, ReadInv
<1> QED
  BY <1>4, <1>5

LEMMA MRMDestroyInv == ASSUME MRMInv, MRMDestroy PROVE MRMInv' /\ UsedBuf' = {}
<1>1. /\ mrmInit' = FALSE /\ currBufPtr' = None
      /\ reserved' = [w \in Writer |-> None]
      /\ UNCHANGED <<nUsers, mrmData, content, reading>>
      /\ ~MRMInUse
  BY DEF MRMDestroy
<1>2. UsedBuf = {currBufPtr} \ {None} /\ \A b \in Buf : ReadersOf(b) = {}
  BY <1>1, UnusedMRM
<1>3. \A b \in Buf : ReadersOf(b)' = {}
  BY <1>1, <1>2 DEF ReadersOf
<1>4. /\ PartitionOK(mrmMem', Buf) /\ mrmMem'.nMaxBlocks = Len(mrmPool)
      /\ PartitionOK(mrmDataMem', Data) /\ mrmDataMem'.nMaxBlocks = Len(mesgPool)
      /\ UsedBuf' = {}
      /\ PairInv'
  <2>1. CASE currBufPtr # None
    <3>1. ReleaseBuffer(currBufPtr) /\ currBufPtr \in UsedBuf
      BY <1>2, <2>1 DEF MRMDestroy
    <3> QED
      BY <1>1, <1>2, <3>1, ReleaseEffect
  <2>2. CASE currBufPtr = None
    <3>1. UNCHANGED <<mrmMem, mrmDataMem>>
      BY <2>2 DEF MRMDestroy, memVars
    <3> QED
      BY <1>1, <1>2, <2>2, <3>1 DEF MRMInv, MRMTypes, PairInv, UsedBuf
  <2> QED
    BY <2>1, <2>2
<1>5. MRMTypes'
  BY <1>1, <1>4 DEF MRMInv, MRMTypes
<1>6. ReadInv'
  BY <1>1, <1>2, <1>3 DEF MRMInv, ReadInv
<1>7. CurrInv' /\ GoneInv'
  BY <1>1, <1>3 DEF CurrInv, GoneInv
<1> QED
  BY <1>4, <1>5, <1>6, <1>7 DEF MRMInv

LEMMA MRMNextInv == ASSUME MRMInv, [MRMNext]_mrmVars PROVE MRMInv'
<1>1. CASE MRMCreate
  BY <1>1, MRMCreateInv
<1>2. CASE MRMDestroy
  BY <1>2, MRMDestroyInv
<1>3. CASE \E w \in Writer : Reserve(w)
  BY <1>3, ReserveCurrentInv, ReserveNewInv
<1>4. CASE \E w \in Writer, m \in Message : Publish(w, m)
  BY <1>4, PublishInv
<1>5. CASE \E r \in Reader : MRMGet(r)
  BY <1>5, MRMGetInv
<1>6. CASE \E r \in Reader, b \in Buf : Unget(r, b)
  BY <1>6, UngetInv
<1>7. CASE UNCHANGED mrmVars
  <2>1. /\ UNCHANGED <<mrmInit, mrmMem, mrmDataMem, currBufPtr, nUsers, mrmData, content>>
        /\ UNCHANGED <<reserved, reading>>
    BY <1>7 DEF mrmVars, memVars, userVars
  <2>2. MRMTypes'
    BY <2>1 DEF MRMInv, MRMTypes
  <2>3. UsedBuf' = UsedBuf /\ \A b \in Buf : ReadersOf(b)' = ReadersOf(b)
    BY <2>1 DEF UsedBuf, ReadersOf
  <2>4. PairInv'
    BY <2>1, <2>3 DEF MRMInv, PairInv
  <2>5. ReadInv' /\ CurrInv' /\ GoneInv'
    BY <2>1, <2>3 DEF MRMInv, ReadInv, CurrInv, GoneInv
  <2> QED
    BY <2>2, <2>4, <2>5 DEF MRMInv
<1> QED
  BY <1>1, <1>2, <1>3, <1>4, <1>5, <1>6, <1>7 DEF MRMNext

(* Buffers, message blocks and counts of readers stay consistent, however  *)
(* many writers publish.                                                   *)
THEOREM MRMConsistent == MRMSpec => []MRMInv
<1>1. MRMInit => MRMInv
  BY MRMInitInv
<1>2. MRMInv /\ [MRMNext]_mrmVars => MRMInv'
  BY MRMNextInv
<1> QED
  BY <1>1, <1>2, PTL DEF MRMSpec

(***************************************************************************)
(* What a reader got stays as it was until it returns it, for any number   *)
(* of writers: the buffers that are zeroed, filled or given a new block    *)
(* are read by nobody, and none of them has the block of one that is.      *)
(***************************************************************************)
Undisturbed ==
    \A r \in Reader : \A b \in reading[r] :
        b \in reading'[r] => /\ mrmData'[b] = mrmData[b]
                             /\ content'[mrmData[b]] = content[mrmData[b]]

(* Writing into the message of a buffer without readers. *)
LEMMA OtherContent ==
    ASSUME MRMInv, NEW c \in UsedBuf, nUsers[c] = 0, NEW m,
           content' = [content EXCEPT ![mrmData[c]] = m], UNCHANGED mrmData
    PROVE  Undisturbed
<1> SUFFICES ASSUME NEW r \in Reader, NEW b \in reading[r]
             PROVE  content'[mrmData[b]] = content[mrmData[b]]
  BY DEF Undisturbed
<1>1. b \in Buf /\ c \in Buf /\ r \in ReadersOf(b)
  BY DEF MRMInv, MRMTypes, ReadersOf, UsedBuf, Used
<1>2. b \in UsedBuf /\ b # c
  BY <1>1, FS_EmptySet DEF MRMInv, ReadInv
<1>3. mrmData[b] # mrmData[c] /\ mrmData[b] \in DOMAIN content
  BY <1>1, <1>2 DEF MRMInv, MRMTypes, PairInv
<1> QED
  BY <1>3

LEMMA UndisturbedStep == ASSUME MRMInv, [MRMNext]_mrmVars PROVE Undisturbed
<1>1. CASE \E w \in Writer : Reserve(w) /\ Reuses
  <2>1. PICK w \in Writer : Reserve(w) /\ Reuses
    BY <1>1
  <2>2. /\ currBufPtr # None /\ nUsers[currBufPtr] = 0 /\ UNCHANGED mrmData
        /\ content' = [content EXCEPT ![mrmData[currBufPtr]] = Zero]
    BY <2>1 DEF Reserve, ReserveCurrent, Reuses
  <2> QED
    BY <2>2, OtherContent DEF MRMInv, CurrInv
<1>2. CASE \E w \in Writer : Reserve(w) /\ ~Reuses
  <2>1. PICK w \in Writer : ReserveNew(w)
    BY <1>2 DEF Reserve
  <2>2. PICK b \in Buf, d \in Data :
           b \notin UsedBuf /\ mrmData' = [mrmData EXCEPT ![b] = d] /\ UNCHANGED content
    BY <2>1, ReserveNewFacts
  <2>3. ASSUME NEW r \in Reader, NEW c \in reading[r] PROVE c \in UsedBuf
    BY <2>3 DEF MRMInv, MRMTypes, ReadInv, ReadersOf
  <2> QED
    BY <2>2, <2>3 DEF Undisturbed, MRMInv, MRMTypes
<1>3. CASE \E w \in Writer, m \in Message : Publish(w, m)
  <2>1. PICK w \in Writer, m \in Message : Publish(w, m)
    BY <1>3
  <2>2. PICK b : b = reserved[w]
    OBVIOUS
  <2>3. /\ b # None /\ BufferValid(b) /\ nUsers[b] = 0 /\ UNCHANGED mrmData
        /\ content' = [content EXCEPT ![mrmData[b]] = m]
    BY <2>1, <2>2 DEF Publish
  <2>4. b \in UsedBuf
    BY <2>2, <2>3, ValidIsUsed DEF MRMInv, MRMTypes
  <2> QED
    BY <2>3, <2>4, OtherContent
<1>4. CASE MRMCreate \/ MRMDestroy \/ \E r \in Reader : MRMGet(r) \/ \E b \in Buf : Unget(r, b)
  <2>1. UNCHANGED <<mrmData, content>>
    BY <1>4 DEF MRMCreate, MRMDestroy, MRMGet, Unget
  <2> QED
    BY <2>1 DEF Undisturbed
<1>5. CASE UNCHANGED mrmVars
  BY <1>5 DEF mrmVars, Undisturbed
<1> QED
  BY <1>1, <1>2, <1>3, <1>4, <1>5 DEF MRMNext

(* What a reader got stays as it was until it returns it, however many     *)
(* messages are reserved and published meanwhile.                          *)
THEOREM ReadersSafe == MRMSpec => ReadersUndisturbed
<1>1. MRMInv /\ [MRMNext]_mrmVars => [Undisturbed]_mrmVars
  BY UndisturbedStep
<1> QED
  BY <1>1, MRMConsistent, PTL DEF MRMSpec, ReadersUndisturbed, Undisturbed

(***************************************************************************)
(* With one writer the buffers out of the pool are those that are wanted.  *)
(* (Two that reserve one after the other share a buffer; once the second   *)
(* message is current the buffer is released although one holds it.)       *)
(***************************************************************************)
OneWriter == \A v, w \in Writer : v = w

Wanted(b) ==
    \/ b = currBufPtr
    \/ \E w \in Writer : reserved[w] = b
    \/ ReadersOf(b) # {}

(* A buffer that is reserved is read only while it is current. *)
WantInv ==
    /\ \A b \in Buf : b \in UsedBuf <=> Wanted(b)
    /\ \A w \in Writer, b \in Buf : reserved[w] = b => ReadersOf(b) = {} \/ b = currBufPtr

LEMMA WantInitial == MRMInit => WantInv
<1> SUFFICES ASSUME MRMInit PROVE WantInv
  OBVIOUS
<1>1. UsedBuf = {}
  BY CreatedPools DEF MRMInit, UsedBuf
<1>2. \A b \in Buf : ~Wanted(b)
  BY DEF MRMInit, Wanted, ReadersOf
<1>3. \A w \in Writer : reserved[w] \notin Buf
  BY DEF MRMInit
<1> QED
  BY <1>1, <1>2, <1>3 DEF WantInv

LEMMA ReserveWant ==
    ASSUME MRMInv, WantInv, NEW w \in Writer, Reserve(w)
    PROVE  WantInv'
<1>1. reserved[w] = None /\ UNCHANGED <<currBufPtr, reading>>
  BY DEF Reserve
<1>2. \A c \in Buf : ReadersOf(c)' = ReadersOf(c)
  BY <1>1 DEF ReadersOf
<1>3. PICK b \in Buf :
         /\ reserved' = [reserved EXCEPT ![w] = b]
         /\ UsedBuf' = UsedBuf \cup {b}
         /\ ReadersOf(b) = {}
  <2>1. CASE Reuses
    <3>1. /\ currBufPtr # None /\ nUsers[currBufPtr] = 0
          /\ reserved' = [reserved EXCEPT ![w] = currBufPtr] /\ UNCHANGED mrmMem
      BY <2>1 DEF Reserve, ReserveCurrent, Reuses, memVars
    <3>2. currBufPtr \in UsedBuf /\ currBufPtr \in Buf /\ UsedBuf' = UsedBuf
      BY <3>1 DEF MRMInv, CurrInv, UsedBuf, Used
    <3>3. ReadersOf(currBufPtr) = {}
      BY <3>1, <3>2, FS_EmptySet DEF MRMInv, ReadInv
    <3> QED
      BY <3>1, <3>2, <3>3
  <2>2. CASE ~Reuses
    <3>1. PICK b \in Buf : /\ b \notin UsedBuf /\ UsedBuf' = UsedBuf \cup {b}
                           /\ reserved' = [reserved EXCEPT ![w] = b]
      BY <2>2, ReserveNewFacts DEF Reserve
    <3>2. ReadersOf(b) = {}
      BY <3>1 DEF MRMInv, ReadInv
    <3> QED
      BY <3>1, <3>2
  <2> QED
    BY <2>1, <2>2
<1>4. \A v \in Writer : reserved'[v] = IF v = w THEN b ELSE reserved[v]
  BY <1>3 DEF MRMInv, MRMTypes
<1>5. ASSUME NEW c \in Buf PROVE Wanted(c)' <=> Wanted(c) \/ c = b
  <2>1. c # None
    OBVIOUS
  <2> QED
    BY <1>1, <1>2, <1>4, <2>1 DEF Wanted
<1>6. \A c \in Buf : c \in UsedBuf' <=> Wanted(c)'
  BY <1>3, <1>5 DEF WantInv
<1>7. ASSUME NEW v \in Writer, NEW c \in Buf, reserved'[v] = c
      PROVE  ReadersOf(c)' = {} \/ c = currBufPtr'
  BY <1>1, <1>2, <1>3, <1>4, <1>7 DEF WantInv
<1> QED
  BY <1>6, <1>7 DEF WantInv

LEMMA PublishWant ==
    ASSUME OneWriter, MRMInv, WantInv, NEW w \in Writer, NEW m \in Message, Publish(w, m)
    PROVE  WantInv'
<1>1. PICK b : b = reserved[w]
  OBVIOUS
<1>2. /\ b # None /\ BufferValid(b) /\ nUsers[b] = 0 /\ currBufPtr' = b
      /\ reserved' = [reserved EXCEPT ![w] = None]
      /\ UNCHANGED <<nUsers, mrmData, reading>>
  BY <1>1 DEF Publish
<1>3. b \in Buf /\ b \in UsedBuf
  BY <1>1, <1>2, ValidIsUsed DEF MRMInv, MRMTypes
<1>4. \A c \in Buf : ReadersOf(c)' = ReadersOf(c)
  BY <1>2 DEF ReadersOf
<1>5. \A v \in Writer : v = w /\ reserved'[v] = None
  BY <1>2 DEF OneWriter, MRMInv, MRMTypes
<1>6. \A c \in Buf : Wanted(c)' <=> c = b \/ ReadersOf(c) # {}
  BY <1>2, <1>4, <1>5 DEF Wanted
<1>7. \A c \in Buf : c \in UsedBuf <=> c = currBufPtr \/ c = b \/ ReadersOf(c) # {}
  BY <1>1, <1>5 DEF WantInv, Wanted
<1>8. \A c \in Buf : c \in UsedBuf' <=> c = b \/ ReadersOf(c) # {}
  <2>1. CASE currBufPtr \notin {None, b} /\ nUsers[currBufPtr] = 0
    <3>1. ReleaseBuffer(currBufPtr) /\ currBufPtr \in UsedBuf
      BY <1>1, <2>1 DEF Publish, MRMInv, CurrInv
    <3>2. UsedBuf' = UsedBuf \ {currBufPtr}
      BY <1>2, <3>1, ReleaseEffect
    <3>3. ReadersOf(currBufPtr) = {}
      BY <2>1, <3>1, FS_EmptySet DEF MRMInv, ReadInv, UsedBuf, Used
    <3> QED
      BY <1>7, <2>1, <3>2, <3>3
  <2>2. CASE ~(currBufPtr \notin {None, b} /\ nUsers[currBufPtr] = 0)
    <3>1. UsedBuf' = UsedBuf
      BY <1>1, <2>2 DEF Publish, memVars, UsedBuf
    <3>2. currBufPtr \in Buf => currBufPtr = b \/ ReadersOf(currBufPtr) # {}
      BY <2>2, FS_EmptySet DEF MRMInv, ReadInv
    <3> QED
      BY <1>7, <3>1, <3>2
  <2> QED
    BY <2>1, <2>2
<1>9. \A v \in Writer : reserved'[v] \notin Buf
  BY <1>5
<1> QED
  BY <1>6, <1>8, <1>9 DEF WantInv

LEMMA MRMGetWant ==
    ASSUME MRMInv, WantInv, NEW r \in Reader, MRMGet(r)
    PROVE  WantInv'
<1>1. /\ currBufPtr # None
      /\ reading' = [reading EXCEPT ![r] = @ \cup {currBufPtr}]
      /\ UNCHANGED <<mrmMem, currBufPtr, reserved>>
  BY DEF MRMGet, memVars
<1>2. currBufPtr \in UsedBuf /\ UsedBuf' = UsedBuf
  BY <1>1 DEF MRMInv, CurrInv, UsedBuf
<1>3. \A c \in Buf \ {currBufPtr} : ReadersOf(c)' = ReadersOf(c)
  BY <1>1 DEF MRMInv, MRMTypes, ReadersOf
<1>4. \A c \in Buf : Wanted(c)' <=> Wanted(c)
  BY <1>1, <1>3 DEF Wanted
<1>5. \A w \in Writer, b \in Buf : reserved[w] = b => ReadersOf(b)' = {} \/ b = currBufPtr
  BY <1>3 DEF WantInv
<1> QED
  BY <1>1, <1>2, <1>4, <1>5 DEF WantInv

LEMMA UngetWant ==
    ASSUME MRMInv, WantInv, NEW r \in Reader, NEW b \in Buf, Unget(r, b)
    PROVE  WantInv'
<1>1. UNCHANGED <<currBufPtr, reserved, mrmData>>
  BY DEF Unget
<1>2. /\ b \in UsedBuf /\ r \in ReadersOf(b)
      /\ ReadersOf(b)' = ReadersOf(b) \ {r}
      /\ \A c \in Buf \ {b} : ReadersOf(c)' = ReadersOf(c)
      /\ nUsers[b] = 1 => ReadersOf(b)' = {}
      /\ IsFiniteSet(ReadersOf(b)') /\ Cardinality(ReadersOf(b)') = nUsers[b] - 1
      /\ nUsers[b] \in Int
  BY UngetFacts DEF MRMInv, MRMTypes
<1>3. \A w \in Writer : reserved[w] = b => b = currBufPtr
  BY <1>2 DEF WantInv
<1>4. \A c \in Buf \ {b} : Wanted(c)' <=> Wanted(c)
  BY <1>1, <1>2 DEF Wanted
<1>5. UsedBuf' = IF nUsers[b] = 1 /\ currBufPtr # b THEN UsedBuf \ {b} ELSE UsedBuf
  <2>1. CASE nUsers[b] = 1 /\ currBufPtr # b
    BY <1>1, <1>2, <2>1, ReleaseEffect DEF Unget
  <2>2. CASE ~(nUsers[b] = 1 /\ currBufPtr # b)
    BY <2>2 DEF Unget, memVars, UsedBuf
  <2> QED
    BY <2>1, <2>2
<1>6. Wanted(b)' <=> ~(nUsers[b] = 1 /\ currBufPtr # b)
  <2>1. nUsers[b] # 1 => ReadersOf(b)' # {}
    BY <1>2, FS_EmptySet
  <2> QED
    BY <1>1, <1>2, <1>3, <2>1 DEF Wanted
<1>7. \A c \in Buf : c \in UsedBuf' <=> Wanted(c)'
  BY <1>2, <1>4, <1>5, <1>6 DEF WantInv
<1>8. \A w \in Writer, c \in Buf : reserved[w] = c => ReadersOf(c)' = {} \/ c = currBufPtr
  BY <1>2, <1>3 DEF WantInv
<1> QED
  BY <1>1, <1>7, <1>8 DEF WantInv

LEMMA WantStep == ASSUME OneWriter, MRMInv, WantInv, [MRMNext]_mrmVars PROVE WantInv'
<1>1. CASE MRMCreate
  <2>1. UsedBuf' = {}
    BY <1>1, CreatedPools DEF MRMCreate, UsedBuf
  <2>2. /\ currBufPtr' = None /\ \A w \in Writer : reserved'[w] = None
        /\ \A b \in Buf : ReadersOf(b)' = {}
    BY <1>1 DEF MRMCreate, MRMInv, GoneInv, userVars, ReadersOf
  <2> QED
    BY <2>1, <2>2 DEF WantInv, Wanted
<1>2. CASE MRMDestroy
  <2>1. UsedBuf' = {} /\ MRMInv' /\ mrmInit' = FALSE
    BY <1>2, MRMDestroyInv DEF MRMDestroy
  <2>2. /\ currBufPtr' = None /\ \A w \in Writer : reserved'[w] = None
        /\ \A b \in Buf : ReadersOf(b)' = {}
    BY <2>1 DEF MRMInv, GoneInv
  <2> QED
    BY <2>1, <2>2 DEF WantInv, Wanted
<1>3. CASE \E w \in Writer : Reserve(w)
  BY <1>3, ReserveWant
<1>4. CASE \E w \in Writer, m \in Message : Publish(w, m)
  BY <1>4, PublishWant
<1>5. CASE \E r \in Reader : MRMGet(r)
  BY <1>5, MRMGetWant
<1>6. CASE \E r \in Reader, b \in Buf : Unget(r, b)
  BY <1>6, UngetWant
<1>7. CASE UNCHANGED mrmVars
  <2>1. UNCHANGED <<mrmMem, currBufPtr, reserved, reading>>
    BY <1>7 DEF mrmVars, memVars, userVars
  <2> QED
    BY <2>1 DEF WantInv, Wanted, UsedBuf, ReadersOf
<1> QED
  BY <1>1, <1>2, <1>3, <1>4, <1>5, <1>6, <1>7 DEF MRMNext

LEMMA AccountedFollows == ASSUME MRMInv, WantInv PROVE MRMAccounted
<1> DEFINE wanted == {currBufPtr} \cup {reserved[w] : w \in Writer}
                        \cup UNION {reading[r] : r \in Reader}
<1>1. UsedBuf = wanted \ {None}
  <2>1. ASSUME NEW b PROVE b \in wanted \ {None} <=> b \in Buf /\ Wanted(b)
    BY DEF MRMInv, MRMTypes, Wanted, ReadersOf
  <2> QED
    BY <2>1 DEF WantInv, UsedBuf, Used
<1>2. Used(mrmDataMem, Data) = {mrmData[b] : b \in UsedBuf}
  <2>1. \A b \in UsedBuf : mrmData[b] \in Data
    BY DEF MRMInv, MRMTypes, UsedBuf, Used
  <2> QED
    BY <2>1 DEF MRMInv, PairInv, Used
<1>3. \A b, c \in UsedBuf : mrmData[b] = mrmData[c] => b = c
  BY DEF MRMInv, PairInv
<1>4. \A b \in UsedBuf : nUsers[b] = Cardinality({r \in Reader : b \in reading[r]})
  BY DEF MRMInv, ReadInv, ReadersOf, UsedBuf, Used
<1> QED
  BY <1>1, <1>2, <1>3, <1>4 DEF MRMAccounted, UsedBuf

(* No buffer leaks and none is free while it is wanted. *)
THEOREM BuffersAccounted == ASSUME OneWriter PROVE MRMSpec => []MRMAccounted
<1>1. MRMInit => WantInv
  BY WantInitial
<1>2. MRMInv /\ WantInv /\ [MRMNext]_mrmVars => WantInv'
  BY WantStep
<1>3. MRMInv /\ WantInv => MRMAccounted
  BY AccountedFollows
<1> QED
  BY <1>1, <1>2, <1>3, MRMConsistent, PTL DEF MRMSpec
=============================================================================
