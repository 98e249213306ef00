--------------------------- MODULE RK0Mesg_proofs ---------------------------
(***************************************************************************)
(* Proofs about RK0Mesg, for any tasks, filters and pools, whatever their  *)
(* buffers and their ceilings.                                             *)
(***************************************************************************)
EXTENDS RK0Mesg, RK0Seqs

(***************************************************************************)
(* The inductive invariant.                                                *)
(***************************************************************************)
Partition == [freeList : Seq(Mesg), nFreeBlocks : Int, nMaxBlocks : Int]
States == {"FREE", "ALLOCATED", "QUEUED", "RECEIVED"}
InUse == {"ALLOCATED", "RECEIVED"}
Waits == {"READY", "BLOCKED", "RECEIVING"}

(* Queues of tasks, a task at most once in each; mailboxes. *)
Queues == [Pool -> Seq(Task)]
Once(qs) == \A p \in Pool : IsInjective(qs[p])
Mailboxes == [Task -> Seq(Mesg)]

TypesInv ==
    /\ part \in [Pool -> Partition]
    /\ waitingQueue \in Queues
    /\ state \in [Mesg -> States]
    /\ owner \in [Mesg -> Task \cup {None}]
    /\ sender \in [Mesg -> Task \cup {None}]
    /\ asynchMesgInit \subseteq Endpoint
    /\ asynchMesgQueue \in Mailboxes
    /\ priority \in [Task -> Nat]
    /\ status \in [Task -> Waits]
    /\ armed \subseteq Task
    /\ timeOut \in [Task -> BOOLEAN]
    /\ call \in [Task -> CallRec]
    /\ mesgPtr \in [Task -> Mesg \cup {None}]
    /\ hands \in [Task -> SUBSET Mesg]

(* The free buffers of a pool, each once, and how many they are. *)
PartOK(P) == P \in Partition /\ P.nFreeBlocks = Len(P.freeList) /\ IsInjective(P.freeList)

PartInv ==
    \A p \in Pool :
        /\ PartOK(part[p])
        /\ \A m \in Mesg : m \in ToSet(part[p].freeList) <=> state[m] = "FREE" /\ PoolOf(m) = p

(* Who waits for a buffer, and only while there is none. *)
WaitInv ==
    /\ Once(waitingQueue)
    /\ \A p \in Pool :
          /\ waitingQueue[p] # <<>> => part[p].freeList = <<>>
          /\ \A t \in Task :
               t \in ToSet(waitingQueue[p]) <=> status[t] = "BLOCKED" /\ call[t].pool = p

(* The allocators that wait, in the order of their priorities. *)
OrderInv == \A p \in Pool : Sorted(waitingQueue[p], priority)

(* The messages on their way to a task. *)
MailInv ==
    \A t \in Task :
        /\ IsInjective(asynchMesgQueue[t])
        /\ \A m \in Mesg : m \in ToSet(asynchMesgQueue[t]) <=> state[m] = "QUEUED" /\ owner[m] = t

(* A receiver waits only while no message it would take is there. *)
ReceiveInv ==
    \A t \in Task : status[t] = "RECEIVING" =>
        \A m \in ToSet(asynchMesgQueue[t]) : ~SenderMatches(call[t].from, sender[m])

(* A free buffer is nobody's and comes from nobody. *)
OwnInv ==
    \A m \in Mesg : /\ owner[m] = None <=> state[m] = "FREE"
                    /\ state[m] = "FREE" => sender[m] = None

(* The owner of a buffer in use has it, or gets it when its call returns. *)
HandInv ==
    \A m \in Mesg, t \in Task :
        m \in hands[t] \/ mesgPtr[t] = m <=> state[m] \in InUse /\ owner[m] = t

(* What a call waits for, and what it is told when the wait is over. *)
CallInv(t) ==
    /\ status[t] = "BLOCKED" => call[t].op = "alloc"
    /\ status[t] = "RECEIVING" => call[t].op = "wait"
    /\ status[t] # "READY" \/ call[t] = NoCall => mesgPtr[t] = None /\ ~timeOut[t]
    /\ timeOut[t] => mesgPtr[t] = None
    /\ status[t] = "READY" /\ call[t] # NoCall /\ ~timeOut[t] => mesgPtr[t] # None
    /\ t \in armed => status[t] # "READY"

MInv == /\ TypesInv /\ PartInv /\ WaitInv /\ OrderInv /\ MailInv /\ ReceiveInv /\ OwnInv
        /\ HandInv /\ CeilingHeld /\ \A t \in Task : CallInv(t)

USE MesgAssumption

(***************************************************************************)
(* What the parts of the model do.                                         *)
(***************************************************************************)

(* Every buffer is one of exactly one pool. *)
LEMMA PoolOfLemma ==
    /\ \A m \in Mesg : PoolOf(m) \in Pool
    /\ \A p \in Pool, m \in Mesg : m \in ToSet(memPool[p]) <=> PoolOf(m) = p
<1>1. \A p \in Pool : memPool[p] \in Seq(Mesg)
  OBVIOUS
<1>2. \A p \in Pool : \A m :
        Contains(memPool[p], m) <=> \E i \in 1 .. Len(memPool[p]) : memPool[p][i] = m
  BY <1>1, LenProperties DEF Contains
<1>3. \A m \in Mesg : \E p \in Pool : Contains(memPool[p], m)
  BY <1>2 DEF Mesg
<1>4. \A m \in Mesg : PoolOf(m) \in Pool /\ Contains(memPool[PoolOf(m)], m)
  BY <1>3 DEF PoolOf
<1>5. ASSUME NEW m \in Mesg, NEW p \in Pool, Contains(memPool[p], m)
      PROVE  PoolOf(m) = p
  <2> DEFINE q == PoolOf(m)
  <2>1. PICK i \in 1 .. Len(memPool[p]) : memPool[p][i] = m
    BY <1>2, <1>5
  <2>2. q \in Pool /\ Contains(memPool[q], m)
    BY <1>4
  <2> HIDE DEF q
  <2>3. PICK j \in 1 .. Len(memPool[q]) : memPool[q][j] = m
    BY <1>2, <2>2
  <2>4. p = q
    BY <2>1, <2>2, <2>3
  <2> QED
    BY <2>4 DEF q
<1>6. \A m \in Mesg, p \in Pool : m \in ToSet(memPool[p]) <=> Contains(memPool[p], m)
  BY <1>1, InToSet
<1> QED
  BY <1>4, <1>5, <1>6

(* kMemPartitionAlloc takes one block out of the free list. *)
LEMMA AllocEffect ==
    ASSUME NEW P, PartOK(P), CanAlloc(P)
    PROVE  /\ AllocPtr(P) \in Mesg /\ AllocPtr(P) \in ToSet(P.freeList)
           /\ PartOK(AllocRest(P))
           /\ ToSet(AllocRest(P).freeList) = ToSet(P.freeList) \ {AllocPtr(P)}
<1> DEFINE l == P.freeList
<1>1. P \in Partition /\ l \in Seq(Mesg) /\ P.nFreeBlocks = Len(l) /\ IsInjective(l) /\ Len(l) > 0
  BY DEF PartOK, CanAlloc, Partition
<1>2. l # <<>> /\ Head(l) = l[1]
  BY <1>1
<1>3. AllocRest(P) = [P EXCEPT !.freeList = Tail(l), !.nFreeBlocks = Len(l) - 1]
  BY <1>1 DEF AllocRest
<1>4. AllocPtr(P) = Head(l)
  BY <1>2 DEF AllocPtr
<1>5. Len(Tail(l)) = Len(l) - 1
  BY <1>1, <1>2
<1> HIDE DEF l
<1>6. /\ Head(l) \in Mesg /\ Head(l) \in ToSet(l) /\ Tail(l) \in Seq(Mesg)
      /\ ToSet(l) = ToSet(Tail(l)) \cup {Head(l)}
      /\ IsInjective(Tail(l)) /\ Head(l) \notin ToSet(Tail(l))
  BY <1>1, <1>2, TailLemma
<1>7. Len(l) - 1 \in Int
  BY <1>1, LenProperties
<1>8. /\ AllocRest(P) \in Partition /\ AllocRest(P).freeList = Tail(l)
      /\ AllocRest(P).nFreeBlocks = Len(l) - 1
  <2> DEFINE r == Tail(l)
             n == Len(l) - 1
  <2>1. AllocRest(P) = [P EXCEPT !.freeList = r, !.nFreeBlocks = n]
    BY <1>3
  <2>2. P \in Partition /\ r \in Seq(Mesg) /\ n \in Int
    BY <1>1, <1>6, <1>7
  <2> HIDE DEF r, n
  <2>3. /\ AllocRest(P) \in Partition /\ AllocRest(P).freeList = r
        /\ AllocRest(P).nFreeBlocks = n
    BY <2>1, <2>2 DEF Partition
  <2> QED
    BY <2>3 DEF r, n
<1> QED
  BY <1>4, <1>5, <1>6, <1>8 DEF PartOK, l

(* kMemPartitionFree puts it back. *)
LEMMA FreeEffect ==
    ASSUME NEW P, PartOK(P), NEW m \in Mesg, m \notin ToSet(P.freeList)
    PROVE  /\ PartOK(FreeBlock(P, m))
           /\ ToSet(FreeBlock(P, m).freeList) = ToSet(P.freeList) \cup {m}
<1> DEFINE l == P.freeList
           r == <<m>> \o l
<1>1. P \in Partition /\ l \in Seq(Mesg) /\ P.nFreeBlocks = Len(l) /\ IsInjective(l) /\ Len(l) \in Nat
  BY LenProperties DEF PartOK, Partition
<1>2. r \in Seq(Mesg) /\ ToSet(r) = ToSet(l) \cup {m} /\ IsInjective(r)
  BY <1>1, ConsLemma DEF Cons
<1>3. Len(r) = Len(l) + 1
  BY <1>1
<1>4. FreeBlock(P, m) = [P EXCEPT !.freeList = r, !.nFreeBlocks = Len(l) + 1]
  BY <1>1 DEF FreeBlock
<1> DEFINE n == Len(l) + 1
<1>6. n \in Int
  BY <1>1
<1> HIDE DEF r, n, l
<1>5. /\ FreeBlock(P, m) \in Partition /\ FreeBlock(P, m).freeList = r
      /\ FreeBlock(P, m).nFreeBlocks = n
  <2>1. FreeBlock(P, m) = [P EXCEPT !.freeList = r, !.nFreeBlocks = n]
    BY <1>4 DEF n
  <2>2. P \in Partition /\ r \in Seq(Mesg) /\ n \in Int
    BY <1>1, <1>2, <1>6
  <2> QED
    BY <2>1, <2>2 DEF Partition
<1> QED
  BY <1>2, <1>3, <1>5 DEF PartOK, n, l

(* The calls a task can be in, and what distinguishes them. *)
LEMMA CallLemma ==
    /\ NoCall \in CallRec /\ NoCall.op = "none"
    /\ \A p \in Pool, b \in BOOLEAN :
         /\ Alloc(p, b) \in CallRec /\ Alloc(p, b) # NoCall
         /\ Alloc(p, b).op = "alloc" /\ Alloc(p, b).pool = p /\ Alloc(p, b).timed = b
    /\ \A f \in Filter, b \in BOOLEAN :
         /\ Receive(f, b) \in CallRec /\ Receive(f, b) # NoCall
         /\ Receive(f, b).op = "wait" /\ Receive(f, b).from = f /\ Receive(f, b).timed = b
    /\ \A c \in CallRec : /\ c.op = "alloc" => c.pool \in Pool /\ c # NoCall
                          /\ c.op = "wait" => c.from \in Filter /\ c # NoCall
<1>1. NoCall \in CallRec /\ NoCall.op = "none"
  BY DEF CallRec, NoCall
<1>2. ASSUME NEW p \in Pool, NEW b \in BOOLEAN
      PROVE  /\ Alloc(p, b) \in CallRec /\ Alloc(p, b) # NoCall
             /\ Alloc(p, b).op = "alloc" /\ Alloc(p, b).pool = p /\ Alloc(p, b).timed = b
  <2>1. Alloc(p, b).op = "alloc" /\ Alloc(p, b).pool = p /\ Alloc(p, b).timed = b
    BY DEF Alloc
  <2>2. Alloc(p, b) \in CallRec
    BY DEF CallRec
  <2> QED
    BY <1>1, <2>1, <2>2
<1>3. ASSUME NEW f \in Filter, NEW b \in BOOLEAN
      PROVE  /\ Receive(f, b) \in CallRec /\ Receive(f, b) # NoCall
             /\ Receive(f, b).op = "wait" /\ Receive(f, b).from = f /\ Receive(f, b).timed = b
  <2>1. Receive(f, b).op = "wait" /\ Receive(f, b).from = f /\ Receive(f, b).timed = b
    BY DEF Receive
  <2>2. Receive(f, b) \in CallRec
    BY DEF CallRec
  <2> QED
    BY <1>1, <2>1, <2>2
<1>4. ASSUME NEW c \in CallRec
      PROVE  /\ c.op = "alloc" => c.pool \in Pool /\ c # NoCall
             /\ c.op = "wait" => c.from \in Filter /\ c # NoCall
  <2>1. CASE c = NoCall
    BY <1>1, <2>1
  <2>2. CASE \E p \in Pool, b \in BOOLEAN : c = Alloc(p, b)
    BY <1>2, <2>2
  <2>3. CASE \E f \in Filter, b \in BOOLEAN : c = Receive(f, b)
    BY <1>3, <2>3
  <2> QED
    BY <2>1, <2>2, <2>3 DEF CallRec
<1> QED
  BY <1>1, <1>2, <1>3, <1>4

(* The best of t's ceilings is a priority, and depends on what t owns. *)
LEMMA CeilingType ==
    ASSUME NEW own, NEW t \in Task
    PROVE  CeilingPrio(own, t) \in Nat
<1> DEFINE C == {ceiling[PoolOf(m)] : m \in {m \in Mesg : own[m] = t}}
           P == {prioNominal[t]} \cup (C \ {None})
<1>1. C \subseteq Nat \cup {None}
  BY PoolOfLemma
<1>2. prioNominal[t] \in Nat
  OBVIOUS
<1> HIDE DEF C
<1>3. P \in SUBSET Nat /\ P # {}
  BY <1>1, <1>2
<1>4. Min(P) \in Nat
  BY <1>3, MinOfNats
<1> QED
  BY <1>4 DEF CeilingPrio, C

LEMMA SameCeiling ==
    ASSUME NEW old, NEW new, NEW t \in Task, \A m \in Mesg : new[m] = t <=> old[m] = t
    PROVE  CeilingPrio(new, t) = CeilingPrio(old, t)
<1>1. {m \in Mesg : new[m] = t} = {m \in Mesg : old[m] = t}
  OBVIOUS
<1> QED
  BY <1>1 DEF CeilingPrio

(* Moving a waiter neither adds nor loses one, and keeps the order when    *)
(* only its priority changes.                                              *)
LEMMA RequeueEffect ==
    ASSUME NEW q \in Seq(Task), NEW t \in Task, NEW prio, IsInjective(q)
    PROVE  /\ Requeue(q, t, prio) \in Seq(Task)
           /\ IsInjective(Requeue(q, t, prio))
           /\ ToSet(Requeue(q, t, prio)) = ToSet(q)
<1> DEFINE rest == TCBQRem(q, t)
           r == TCBQEnqByPrio(rest, t, prio)
<1>1. CASE Contains(q, t)
  <2>1. rest \in Seq(Task) /\ IsInjective(rest) /\ ToSet(rest) = ToSet(q) \ {t}
    BY TCBQRemLemma
  <2> HIDE DEF rest
  <2>2. r \in Seq(Task) /\ IsInjective(r) /\ ToSet(r) = ToSet(rest) \cup {t}
    BY <2>1, TCBQEnqLemma
  <2>3. ToSet(r) = ToSet(q)
    BY <1>1, <2>1, <2>2, InToSet
  <2> QED
    BY <2>2, <2>3 DEF Requeue, r, rest
<1>2. CASE ~Contains(q, t)
  BY <1>2 DEF Requeue
<1> QED
  BY <1>1, <1>2

LEMMA RequeueSorted ==
    ASSUME NEW q \in Seq(Task), NEW t \in Task, NEW prio \in [Task -> Nat], IsInjective(q),
           \A u \in Task : priority[u] \in Nat, Sorted(q, priority),
           \A u \in ToSet(q) : u # t => prio[u] = priority[u]
    PROVE  Sorted(Requeue(q, t, prio), prio)
<1> DEFINE rest == TCBQRem(q, t)
           r == TCBQEnqByPrio(rest, t, prio)
<1>1. \A u \in Task : prio[u] \in Nat
  OBVIOUS
<1>2. Sorted(rest, prio)
  <2>1. rest \in Seq(Task) /\ ToSet(rest) \subseteq ToSet(q) /\ t \notin ToSet(rest)
    BY TCBQRemLemma
  <2>2. Sorted(rest, priority)
    BY RemSorted
  <2>3. \A u \in ToSet(rest) : prio[u] = priority[u]
    BY <2>1
  <2> HIDE DEF rest
  <2> QED
    BY <2>1, <2>2, <2>3, SameOrder
<1>3. rest \in Seq(Task)
  BY TCBQRemLemma
<1> HIDE DEF rest
<1>4. Sorted(r, prio)
  BY <1>1, <1>2, <1>3, EnqSorted
<1>5. CASE Requeue(q, t, prio) = r
  BY <1>4, <1>5
<1>6. CASE Requeue(q, t, prio) = q /\ Len(q) <= 1
  BY <1>6, LenProperties DEF Sorted
<1>7. CASE Requeue(q, t, prio) = q /\ (Contains(q, t) => prio[t] = priority[t])
  <2>1. \A u \in ToSet(q) : prio[u] = priority[u]
    BY <1>7, InToSet
  <2> QED
    BY <1>7, <2>1, SameOrder
<1> QED
  <2>1. Len(q) \in Nat
    BY LenProperties
  <2> QED
    BY <2>1, <1>5, <1>6, <1>7 DEF Requeue, r, rest

(* kMesgSetOwner_: who waits is the same, in the order of the new          *)
(* priorities, unless the old owner waits, too.                            *)
LEMMA SetOwnerEffect ==
    ASSUME TypesInv, CeilingHeld, NEW m \in Mesg, NEW new \in Task \cup {None},
           NEW q \in Queues, Once(q), SetOwner(m, new, q),
           \A p \in Pool : Sorted(q[p], priority) /\ owner[m] \notin ToSet(q[p])
    PROVE  /\ owner' = [owner EXCEPT ![m] = new]
           /\ owner' \in [Mesg -> Task \cup {None}]
           /\ priority' \in [Task -> Nat]
           /\ CeilingHeld'
           /\ waitingQueue' \in Queues /\ Once(waitingQueue') /\ OrderInv'
           /\ \A p \in Pool : /\ ToSet(waitingQueue'[p]) = ToSet(q[p])
                              /\ waitingQueue'[p] = <<>> <=> q[p] = <<>>
<1>1. /\ owner \in [Mesg -> Task \cup {None}] /\ priority \in [Task -> Nat]
      /\ priority = [t \in Task |-> CeilingPrio(owner, t)]
  BY DEF TypesInv, CeilingHeld
<1>2. owner' = [owner EXCEPT ![m] = new] /\ owner' \in [Mesg -> Task \cup {None}]
  BY <1>1 DEF SetOwner
<1>3. ASSUME NEW t \in Task PROVE priority'[t] = CeilingPrio(owner', t)
  <2>1. CASE t \in {owner[m], new} /\ owner[m] # new
    BY <2>1 DEF SetOwner
  <2>2. CASE ~(t \in {owner[m], new} /\ owner[m] # new)
    <3>1. priority'[t] = priority[t]
      BY <2>2 DEF SetOwner
    <3>2. \A n \in Mesg : owner'[n] = t <=> owner[n] = t
      BY <1>1, <1>2, <2>2
    <3>3. CeilingPrio(owner', t) = CeilingPrio(owner, t)
      BY <3>2, SameCeiling
    <3> QED
      BY <1>1, <3>1, <3>3
  <2> QED
    BY <2>1, <2>2
<1>4. priority' = [t \in Task |-> CeilingPrio(owner', t)]
  <2>1. priority' = [t \in Task |-> priority'[t]]
    BY DEF SetOwner
  <2> QED
    BY <1>3, <2>1
<1>5. priority' \in [Task -> Nat]
  BY <1>4, CeilingType
<1>6. \A u \in Task : u # new /\ u # owner[m] => priority'[u] = priority[u]
  BY DEF SetOwner
<1>7. waitingQueue' = [p \in Pool |-> Requeue(q[p], new, priority')]
  BY DEF SetOwner
<1>8. ASSUME NEW p \in Pool
      PROVE  /\ waitingQueue'[p] \in Seq(Task) /\ IsInjective(waitingQueue'[p])
             /\ ToSet(waitingQueue'[p]) = ToSet(q[p])
             /\ Sorted(waitingQueue'[p], priority')
  <2>1. /\ q[p] \in Seq(Task) /\ IsInjective(q[p]) /\ Sorted(q[p], priority)
        /\ owner[m] \notin ToSet(q[p])
    BY DEF Queues, Once
  <2>2. waitingQueue'[p] = Requeue(q[p], new, priority')
    BY <1>7
  <2>3. \A u \in ToSet(q[p]) : u # new => priority'[u] = priority[u]
    BY <1>6, <2>1, InToSet
  <2>4. CASE new \in Task
    <3>1. /\ Requeue(q[p], new, priority') \in Seq(Task)
          /\ IsInjective(Requeue(q[p], new, priority'))
          /\ ToSet(Requeue(q[p], new, priority')) = ToSet(q[p])
      BY <2>1, <2>4, RequeueEffect
    <3>2. Sorted(Requeue(q[p], new, priority'), priority')
      BY <1>1, <1>5, <2>1, <2>3, <2>4, RequeueSorted
    <3> QED
      BY <2>2, <3>1, <3>2
  <2>5. CASE new \notin Task
    <3>1. new \notin ToSet(q[p]) /\ ~Contains(q[p], new)
      BY <2>1, <2>5, InToSet
    <3>2. waitingQueue'[p] = q[p]
      BY <2>2, <3>1 DEF Requeue
    <3>3. Sorted(q[p], priority')
      <4>1. \A u \in ToSet(q[p]) : priority'[u] = priority[u]
        BY <2>3, <3>1
      <4>2. q[p] \in Seq(Task) /\ Sorted(q[p], priority)
        BY <2>1
      <4> QED
        BY <4>1, <4>2, SameOrder
    <3>4. q[p] \in Seq(Task) /\ IsInjective(q[p])
      BY <2>1
    <3> QED
      BY Zenon, <3>2, <3>3, <3>4
  <2> QED
    BY <2>4, <2>5
<1>9. ASSUME NEW p \in Pool PROVE waitingQueue'[p] = <<>> <=> q[p] = <<>>
  <2>1. q[p] \in Seq(Task) /\ waitingQueue'[p] \in Seq(Task) /\ ToSet(waitingQueue'[p]) = ToSet(q[p])
    BY <1>8 DEF Queues
  <2>2. \A s \in Seq(Task) : s = <<>> <=> ToSet(s) = {}
    <3> TAKE s \in Seq(Task)
    <3>1. CASE s # <<>>
      BY <3>1, TailLemma
    <3>2. CASE s = <<>>
      BY <3>2, ToSetEmpty
    <3> QED
      BY <3>1, <3>2
  <2>3. /\ waitingQueue'[p] = <<>> <=> ToSet(waitingQueue'[p]) = {}
        /\ q[p] = <<>> <=> ToSet(q[p]) = {}
    BY <2>1, <2>2
  <2> QED
    BY <2>1, <2>3
<1>10. waitingQueue' \in Queues
  BY <1>7, <1>8 DEF Queues
<1> QED
  BY <1>2, <1>4, <1>5, <1>8, <1>9, <1>10 DEF CeilingHeld, Once, OrderInv

(* The types of the variables, one by one. *)
LEMMA Types ==
    ASSUME MInv
    PROVE  /\ TypesInv
           /\ part \in [Pool -> Partition]
           /\ waitingQueue \in Queues /\ Once(waitingQueue)
           /\ state \in [Mesg -> States]
           /\ owner \in [Mesg -> Task \cup {None}]
           /\ sender \in [Mesg -> Task \cup {None}]
           /\ asynchMesgQueue \in [Task -> Seq(Mesg)]
           /\ status \in [Task -> Waits]
           /\ armed \subseteq Task
           /\ timeOut \in [Task -> BOOLEAN]
           /\ call \in [Task -> CallRec]
           /\ mesgPtr \in [Task -> Mesg \cup {None}]
           /\ hands \in [Task -> SUBSET Mesg]
  BY DEF MInv, TypesInv, WaitInv, Mailboxes

(* What a task that calls, or executes again, knows. *)
LEMMA Caller ==
    ASSUME MInv, NEW t \in Task, status[t] = "READY"
    PROVE  /\ t \notin armed
           /\ \A p \in Pool : t \notin ToSet(waitingQueue[p])
           /\ call[t] = NoCall => mesgPtr[t] = None /\ ~timeOut[t]
           /\ timeOut[t] => mesgPtr[t] = None
           /\ call[t] # NoCall /\ ~timeOut[t] => mesgPtr[t] # None
  BY DEF MInv, CallInv, WaitInv

LEMMA InitInv == MesgInit => MInv
<1> SUFFICES ASSUME MesgInit PROVE MInv
  OBVIOUS
<1>1. ToSet(<<>>) = {} /\ IsInjective(<<>>) /\ <<>> \in Seq(Task) /\ <<>> \in Seq(Mesg)
  BY ToSetEmpty DEF IsInjective
<1>2. NoCall \in CallRec
  BY CallLemma
<1>3. ASSUME NEW p \in Pool PROVE PartOK(part[p]) /\ part[p].freeList = memPool[p]
  <2>1. memPool[p] \in Seq(Mesg) /\ Len(memPool[p]) \in Int
    BY LenProperties
  <2>2. IsInjective(memPool[p])
    BY <2>1, LenProperties DEF IsInjective
  <2>3. part[p] = [freeList |-> memPool[p], nFreeBlocks |-> Len(memPool[p]),
                   nMaxBlocks |-> Len(memPool[p])]
    BY DEF MesgInit, PartitionInit
  <2>4. /\ part[p] \in Partition /\ part[p].freeList = memPool[p]
        /\ part[p].nFreeBlocks = Len(memPool[p])
    BY <2>1, <2>3 DEF Partition
  <2> QED
    BY <2>2, <2>4 DEF PartOK
<1>4. TypesInv
  <2>1. part = [p \in Pool |-> part[p]]
    BY DEF MesgInit
  <2>2. part \in [Pool -> Partition]
    BY <1>3, <2>1 DEF PartOK
  <2> QED
    BY <1>1, <1>2, <2>2 DEF MesgInit, TypesInv, Queues, Mailboxes, States, Waits
<1>5. PartInv
  BY <1>3, PoolOfLemma DEF MesgInit, PartInv
<1>6. WaitInv /\ OrderInv /\ MailInv /\ ReceiveInv
  BY <1>1 DEF MesgInit, WaitInv, Once, OrderInv, Sorted, MailInv, ReceiveInv
<1>7. OwnInv /\ HandInv
  BY DEF MesgInit, OwnInv, HandInv, InUse
<1>8. CeilingHeld
  <2>1. ASSUME NEW t \in Task PROVE CeilingPrio(owner, t) = prioNominal[t]
    <3>1. {m \in Mesg : owner[m] = t} = {}
      BY DEF MesgInit
    <3>2. {ceiling[PoolOf(m)] : m \in {m \in Mesg : owner[m] = t}} = {}
      BY <3>1
    <3>3. CeilingPrio(owner, t) = Min({prioNominal[t]})
      BY <3>2 DEF CeilingPrio
    <3>4. Min({prioNominal[t]}) \in {prioNominal[t]}
      BY MinOfNats
    <3> QED
      BY <3>3, <3>4
  <2> QED
    BY <2>1 DEF MesgInit, CeilingHeld
<1>9. \A t \in Task : CallInv(t)
  BY DEF MesgInit, CallInv
<1> QED
  BY <1>4, <1>5, <1>6, <1>7, <1>8, <1>9 DEF MInv

LEMMA EndpointInitInv ==
    ASSUME MInv, NEW t \in Endpoint, EndpointInit(t)
    PROVE  MInv'
<1>1. /\ UNCHANGED <<part, waitingQueue, state, owner, sender, asynchMesgQueue>>
      /\ UNCHANGED <<priority, status, armed, timeOut, call, mesgPtr, hands>>
      /\ asynchMesgInit' \subseteq Endpoint
  BY DEF EndpointInit, mesgVars, MInv, TypesInv
<1>2. TypesInv' /\ PartInv' /\ WaitInv' /\ OrderInv'
  BY <1>1 DEF MInv, TypesInv, PartInv, WaitInv, OrderInv
<1>3. MailInv' /\ ReceiveInv' /\ OwnInv' /\ HandInv' /\ CeilingHeld' /\ \A u \in Task : CallInv(u)'
  BY <1>1 DEF MInv, MailInv, ReceiveInv, OwnInv, HandInv, CeilingHeld, CallInv
<1> QED
  BY <1>2, <1>3 DEF MInv

(* A call returns: with its message, or with a timeout. *)
LEMMA ReturnInv ==
    ASSUME MInv, NEW t \in Task, AllocResume(t) \/ WaitResume(t) \/ Timeout(t)
    PROVE  MInv'
<1>1. /\ UNCHANGED <<part, waitingQueue, state, owner, sender, asynchMesgQueue>>
      /\ UNCHANGED <<asynchMesgInit, priority, status, armed>>
      /\ call' = [call EXCEPT ![t] = NoCall] /\ status[t] = "READY" /\ call[t] # NoCall
  BY CallLemma DEF AllocResume, WaitResume, Timeout, Resumes, ReturnWith, mesgVars
<1>2. /\ timeOut' = [timeOut EXCEPT ![t] = FALSE]
      /\ mesgPtr' = [mesgPtr EXCEPT ![t] = None]
      /\ hands' = [hands EXCEPT ![t] = @ \cup ({mesgPtr[t]} \ {None})]
  <2>1. CASE timeOut[t]
    <3>1. timeOut' = [timeOut EXCEPT ![t] = FALSE] /\ UNCHANGED <<mesgPtr, hands>>
      BY <2>1 DEF AllocResume, WaitResume, Timeout
    <3>2. mesgPtr[t] = None
      BY <1>1, <2>1, Caller
    <3>3. /\ mesgPtr = [mesgPtr EXCEPT ![t] = None]
          /\ hands = [hands EXCEPT ![t] = @ \cup ({mesgPtr[t]} \ {None})]
      BY <3>2, Types
    <3> QED
      BY <3>1, <3>3
  <2>2. CASE ~timeOut[t]
    <3>1. /\ UNCHANGED timeOut /\ mesgPtr' = [mesgPtr EXCEPT ![t] = None]
          /\ hands' = [hands EXCEPT ![t] = @ \cup {mesgPtr[t]}]
      BY <2>2 DEF AllocResume, WaitResume, Timeout, ReturnWith
    <3>2. mesgPtr[t] # None
      BY <1>1, <2>2, Caller
    <3>3. {mesgPtr[t]} \ {None} = {mesgPtr[t]}
      BY <3>2
    <3>4. timeOut = [timeOut EXCEPT ![t] = FALSE]
      BY <2>2, Types
    <3> QED
      BY <3>1, <3>3, <3>4
  <2> QED
    BY <2>1, <2>2
<1>3. ASSUME NEW u \in Task
      PROVE  /\ u = t => ~timeOut'[u] /\ mesgPtr'[u] = None /\ call'[u] = NoCall
             /\ u # t => timeOut'[u] = timeOut[u] /\ mesgPtr'[u] = mesgPtr[u] /\ call'[u] = call[u]
             /\ \A m \in Mesg : m \in hands'[u] \/ mesgPtr'[u] = m
                                  <=> m \in hands[u] \/ mesgPtr[u] = m
  <2>1. /\ u = t => /\ ~timeOut'[u] /\ mesgPtr'[u] = None /\ call'[u] = NoCall
                     /\ hands'[u] = hands[u] \cup ({mesgPtr[u]} \ {None})
        /\ u # t => /\ timeOut'[u] = timeOut[u] /\ mesgPtr'[u] = mesgPtr[u]
                     /\ call'[u] = call[u] /\ hands'[u] = hands[u]
    <3>1. /\ timeOut \in [Task -> BOOLEAN] /\ mesgPtr \in [Task -> Mesg \cup {None}]
          /\ hands \in [Task -> SUBSET Mesg] /\ DOMAIN call = Task
      BY Types DEF CallRec
    <3>2. CASE u = t
      <4>1. ~timeOut'[u] /\ mesgPtr'[u] = None
        BY <1>2, <3>1, <3>2
      <4>2. call'[u] = NoCall
        BY <1>1, <3>1, <3>2
      <4>3. hands'[u] = hands[u] \cup ({mesgPtr[u]} \ {None})
        BY <1>2, <3>1, <3>2
      <4> QED
        BY <3>2, <4>1, <4>2, <4>3
    <3>3. CASE u # t
      <4>1. timeOut'[u] = timeOut[u] /\ mesgPtr'[u] = mesgPtr[u] /\ hands'[u] = hands[u]
        BY <1>2, <3>1, <3>3
      <4>2. call'[u] = call[u]
        BY <1>1, <3>1, <3>3
      <4> QED
        BY <3>3, <4>1, <4>2
    <3> QED
      BY <3>2, <3>3
  <2>2. None \notin Mesg
    OBVIOUS
  <2>3. ASSUME NEW m \in Mesg
        PROVE  m \in hands'[u] \/ mesgPtr'[u] = m <=> m \in hands[u] \/ mesgPtr[u] = m
    <3>1. CASE u = t
      <4>1. mesgPtr'[u] # m
        BY <2>1, <2>2, <3>1
      <4>2. m \in hands'[u] <=> m \in hands[u] \/ mesgPtr[u] = m
        BY <2>1, <2>2, <3>1
      <4> QED
        BY <4>1, <4>2
    <3>2. CASE u # t
      BY <2>1, <3>2
    <3> QED
      BY <3>1, <3>2
  <2> QED
    BY <2>1, <2>3
<1>4. TypesInv'
  <2>1. call' \in [Task -> CallRec]
    BY <1>1, CallLemma, Types
  <2>2. /\ timeOut' \in [Task -> BOOLEAN] /\ mesgPtr' \in [Task -> Mesg \cup {None}]
        /\ hands' \in [Task -> SUBSET Mesg]
    BY <1>2, Types
  <2> QED
    BY <1>1, <2>1, <2>2 DEF MInv, TypesInv
<1>5. PartInv' /\ OrderInv' /\ MailInv' /\ OwnInv' /\ CeilingHeld'
  BY <1>1 DEF MInv, PartInv, OrderInv, MailInv, OwnInv, CeilingHeld
<1>6. WaitInv' /\ ReceiveInv'
  BY <1>1, <1>3 DEF MInv, WaitInv, ReceiveInv
<1>7. HandInv'
  BY <1>1, <1>3 DEF MInv, HandInv
<1>8. ASSUME NEW u \in Task PROVE CallInv(u)'
  BY <1>1, <1>3, Caller DEF MInv, CallInv
<1> QED
  BY <1>4, <1>5, <1>6, <1>7, <1>8 DEF MInv

(* A call that waits begins with no outcome of an earlier one. *)
LEMMA SuspendEffect ==
    ASSUME MInv, NEW t \in Task, NEW c \in CallRec, c # NoCall, NEW st \in Waits,
           Calls(t), Suspend(t, c, st)
    PROVE  /\ status' = [status EXCEPT ![t] = st] /\ status' \in [Task -> Waits]
           /\ call' = [call EXCEPT ![t] = c] /\ call' \in [Task -> CallRec]
           /\ armed' \subseteq armed \cup {t}
           /\ UNCHANGED timeOut
           /\ mesgPtr[t] = None /\ ~timeOut[t]
<1>1. mesgPtr[t] = None /\ ~timeOut[t]
  BY Caller DEF Calls
<1>2. [timeOut EXCEPT ![t] = FALSE] = timeOut
  BY <1>1, Types
<1>3. status' = [status EXCEPT ![t] = st] /\ call' = [call EXCEPT ![t] = c]
  BY DEF Suspend
<1>4. status' \in [Task -> Waits] /\ call' \in [Task -> CallRec]
  BY <1>3, Types
<1> QED
  BY <1>1, <1>2, <1>3, <1>4 DEF Suspend

(* kMesgWait that finds nothing *)
LEMMA WaitBlockInv ==
    ASSUME MInv, NEW t \in Task, NEW from \in Filter, NEW timed \in BOOLEAN,
           WaitBlock(t, from, timed)
    PROVE  MInv'
<1> DEFINE c == Receive(from, timed)
<1>1. c \in CallRec /\ c # NoCall /\ c.op = "wait" /\ c.from = from
  BY CallLemma
<1>2. /\ UNCHANGED <<part, waitingQueue, state, owner, sender, asynchMesgQueue>>
      /\ UNCHANGED <<asynchMesgInit, priority, mesgPtr, hands>>
      /\ Calls(t) /\ Suspend(t, c, "RECEIVING") /\ Matching(t, from) = {}
  BY DEF WaitBlock, mesgVars
<1> HIDE DEF c
<1>3. "RECEIVING" \in Waits
  BY DEF Waits
<1>4. /\ status' = [status EXCEPT ![t] = "RECEIVING"] /\ status' \in [Task -> Waits]
      /\ call' = [call EXCEPT ![t] = c] /\ call' \in [Task -> CallRec]
      /\ armed' \subseteq armed \cup {t} /\ UNCHANGED timeOut
      /\ mesgPtr[t] = None /\ ~timeOut[t]
  BY <1>1, <1>2, <1>3, SuspendEffect
<1>5. ASSUME NEW u \in Task
      PROVE  /\ u = t => status'[u] = "RECEIVING" /\ call'[u] = c /\ status[u] = "READY"
             /\ u # t => /\ status'[u] = status[u] /\ call'[u] = call[u]
                         /\ u \in armed' => u \in armed
  BY <1>2, <1>4, Types DEF Calls
<1>6. TypesInv'
  <2>1. armed' \subseteq Task
    BY <1>4, Types
  <2> QED
    BY <1>2, <1>4, <2>1 DEF MInv, TypesInv
<1>7. PartInv' /\ OrderInv' /\ MailInv' /\ OwnInv' /\ HandInv' /\ CeilingHeld'
  BY <1>2 DEF MInv, PartInv, OrderInv, MailInv, OwnInv, HandInv, CeilingHeld
<1>8. WaitInv'
  BY <1>2, <1>5 DEF MInv, WaitInv
<1>9. ReceiveInv'
  <2> SUFFICES ASSUME NEW u \in Task, status'[u] = "RECEIVING", NEW m \in ToSet(asynchMesgQueue[u])
               PROVE  ~SenderMatches(call'[u].from, sender[m])
    BY <1>2 DEF ReceiveInv, SenderMatches
  <2>1. CASE u = t
    <3>1. asynchMesgQueue[t] \in Seq(Mesg)
      BY Types
    <3>2. PICK i \in 1 .. Len(asynchMesgQueue[t]) : asynchMesgQueue[t][i] = m
      <4>1. DOMAIN asynchMesgQueue[t] = 1 .. Len(asynchMesgQueue[t])
        BY <3>1, LenProperties
      <4> QED
        BY <2>1, <4>1 DEF ToSet
    <3>3. ~SenderMatches(from, sender[m])
      BY <1>2, <3>2 DEF Matching
    <3> QED
      BY <1>1, <1>5, <2>1, <3>3
  <2>2. CASE u # t
    <3>1. status[u] = "RECEIVING" /\ call'[u] = call[u]
      BY <1>5, <2>2
    <3> QED
      BY <3>1 DEF MInv, ReceiveInv
  <2> QED
    BY <2>1, <2>2
<1>10. ASSUME NEW u \in Task PROVE CallInv(u)'
  <2>1. CallInv(u)
    BY DEF MInv
  <2>2. CASE u = t
    <3>1. status'[u] = "RECEIVING" /\ call'[u] = c /\ mesgPtr'[u] = None /\ ~timeOut'[u]
      BY <1>2, <1>4, <1>5, <2>2
    <3> QED
      BY <1>1, <3>1 DEF CallInv
  <2>3. CASE u # t
    BY <1>2, <1>4, <1>5, <2>1, <2>3 DEF CallInv
  <2> QED
    BY <2>2, <2>3
<1> QED
  BY <1>6, <1>7, <1>8, <1>9, <1>10 DEF MInv

(* kMesgAlloc of an empty pool *)
LEMMA AllocBlockInv ==
    ASSUME MInv, NEW t \in Task, NEW p \in Pool, NEW timed \in BOOLEAN, AllocBlock(t, p, timed)
    PROVE  MInv'
<1> DEFINE c == Alloc(p, timed)
<1>1. c \in CallRec /\ c # NoCall /\ c.op = "alloc" /\ c.pool = p
  BY CallLemma
<1>2. /\ UNCHANGED <<part, state, owner, sender, asynchMesgQueue>>
      /\ UNCHANGED <<asynchMesgInit, priority, mesgPtr, hands>>
      /\ Calls(t) /\ Suspend(t, c, "BLOCKED") /\ ~CanAlloc(part[p])
      /\ waitingQueue' = [waitingQueue EXCEPT ![p] = TCBQEnqByPrio(@, t, priority)]
  BY DEF AllocBlock
<1> HIDE DEF c
<1>3. "BLOCKED" \in Waits
  BY DEF Waits
<1>4. /\ status' = [status EXCEPT ![t] = "BLOCKED"] /\ status' \in [Task -> Waits]
      /\ call' = [call EXCEPT ![t] = c] /\ call' \in [Task -> CallRec]
      /\ armed' \subseteq armed \cup {t} /\ UNCHANGED timeOut
      /\ mesgPtr[t] = None /\ ~timeOut[t]
  BY <1>1, <1>2, <1>3, SuspendEffect
<1>5. ASSUME NEW u \in Task
      PROVE  /\ u = t => status'[u] = "BLOCKED" /\ call'[u] = c /\ status[u] = "READY"
             /\ u # t => /\ status'[u] = status[u] /\ call'[u] = call[u]
                         /\ u \in armed' => u \in armed
  BY <1>2, <1>4, Types DEF Calls
<1>6. PICK q : q = TCBQEnqByPrio(waitingQueue[p], t, priority)
  OBVIOUS
<1>7. /\ q \in Seq(Task) /\ IsInjective(q) /\ Sorted(q, priority)
      /\ ToSet(q) = ToSet(waitingQueue[p]) \cup {t}
  <2>1. waitingQueue[p] \in Seq(Task) /\ IsInjective(waitingQueue[p])
    BY Types DEF Queues, Once
  <2>2. t \notin ToSet(waitingQueue[p])
    BY <1>2, Caller DEF Calls
  <2>3. Sorted(waitingQueue[p], priority) /\ \A u \in Task : priority[u] \in Nat
    BY DEF MInv, OrderInv, TypesInv
  <2> QED
    BY <1>6, <2>1, <2>2, <2>3, TCBQEnqLemma, EnqSorted
<1>8. waitingQueue' = [waitingQueue EXCEPT ![p] = q]
  BY <1>2, <1>6
<1>9. waitingQueue' \in Queues /\ Once(waitingQueue') /\ OrderInv'
  BY <1>2, <1>7, <1>8, Types DEF Queues, Once, OrderInv, MInv
<1>10. TypesInv'
  <2>1. armed' \subseteq Task
    BY <1>4, Types
  <2> QED
    BY <1>2, <1>4, <1>9, <2>1 DEF MInv, TypesInv
<1>11. PartInv' /\ MailInv' /\ OwnInv' /\ HandInv' /\ CeilingHeld'
  BY <1>2 DEF MInv, PartInv, MailInv, OwnInv, HandInv, CeilingHeld
<1>12. WaitInv'
  <2> SUFFICES ASSUME NEW r \in Pool
               PROVE  /\ waitingQueue'[r] # <<>> => part[r].freeList = <<>>
                      /\ \A u \in Task : u \in ToSet(waitingQueue'[r])
                                           <=> status'[u] = "BLOCKED" /\ call'[u].pool = r
    BY <1>2, <1>9 DEF WaitInv
  <2>1. /\ waitingQueue[r] # <<>> => part[r].freeList = <<>>
        /\ \A u \in Task : u \in ToSet(waitingQueue[r]) <=> status[u] = "BLOCKED" /\ call[u].pool = r
    BY DEF MInv, WaitInv
  <2>2. CASE r = p
    <3>1. waitingQueue'[r] = q
      BY <1>8, <2>2, Types DEF Queues
    <3>2. part[r].freeList = <<>>
      <4>1. part[r].nFreeBlocks = Len(part[r].freeList) /\ part[r].freeList \in Seq(Mesg)
        BY DEF MInv, PartInv, PartOK, Partition
      <4>2. ~(part[r].nFreeBlocks > 0)
        BY <1>2, <2>2 DEF CanAlloc
      <4> QED
        BY <4>1, <4>2, LenProperties, EmptySeq
    <3>3. ASSUME NEW u \in Task
          PROVE  u \in ToSet(waitingQueue'[r]) <=> status'[u] = "BLOCKED" /\ call'[u].pool = r
      BY <1>1, <1>5, <1>7, <2>1, <2>2, <3>1
    <3> QED
      BY <3>2, <3>3
  <2>3. CASE r # p
    <3>1. waitingQueue'[r] = waitingQueue[r]
      BY <1>8, <2>3, Types DEF Queues
    <3>2. ASSUME NEW u \in Task
          PROVE  u \in ToSet(waitingQueue'[r]) <=> status'[u] = "BLOCKED" /\ call'[u].pool = r
      BY <1>1, <1>5, <2>1, <2>3, <3>1
    <3> QED
      BY <2>1, <3>1, <3>2
  <2> QED
    BY <2>2, <2>3
<1>13. ReceiveInv'
  BY <1>2, <1>5 DEF MInv, ReceiveInv
<1>14. ASSUME NEW u \in Task PROVE CallInv(u)'
  <2>1. CallInv(u)
    BY DEF MInv
  <2>2. CASE u = t
    <3>1. status'[u] = "BLOCKED" /\ call'[u] = c /\ mesgPtr'[u] = None /\ ~timeOut'[u]
      BY <1>2, <1>4, <1>5, <2>2
    <3> QED
      BY <1>1, <3>1 DEF CallInv
  <2>3. CASE u # t
    BY <1>2, <1>4, <1>5, <2>1, <2>3 DEF CallInv
  <2> QED
    BY <2>2, <2>3
<1> QED
  BY <1>9, <1>10, <1>11, <1>12, <1>13, <1>14 DEF MInv

(* kMesgWait takes the first message that matches. *)
LEMMA TakeFacts ==
    ASSUME MInv, NEW t \in Task, NEW from, WaitTake(t, from)
    PROVE  \E i \in 1 .. Len(asynchMesgQueue[t]) : \E m \in Mesg :
             /\ asynchMesgQueue[t][i] = m /\ SenderMatches(from, sender[m])
             /\ \A j \in 1 .. i - 1 : ~SenderMatches(from, sender[asynchMesgQueue[t][j]])
             /\ asynchMesgQueue' = [asynchMesgQueue EXCEPT ![t] = RemoveAt(@, i)]
             /\ state' = [state EXCEPT ![m] = "RECEIVED"]
             /\ hands' = [hands EXCEPT ![t] = @ \cup {m}]
<1> DEFINE M == Matching(t, from)
<1>1. asynchMesgQueue[t] \in Seq(Mesg)
  BY Types
<1>2. M \in SUBSET Nat /\ M # {}
  BY <1>1, LenProperties DEF Matching, WaitTake
<1>3. PICK i : i = Min(M)
  OBVIOUS
<1>4. i \in M /\ \A j \in M : i <= j
  BY <1>2, <1>3, MinOfNats
<1>5. i \in 1 .. Len(asynchMesgQueue[t]) /\ SenderMatches(from, sender[asynchMesgQueue[t][i]])
  BY <1>4 DEF Matching
<1>6. ASSUME NEW j \in 1 .. i - 1 PROVE ~SenderMatches(from, sender[asynchMesgQueue[t][j]])
  <2>1. Len(asynchMesgQueue[t]) \in Nat
    BY <1>1, LenProperties
  <2>2. j \in 1 .. Len(asynchMesgQueue[t]) /\ ~(i <= j)
    BY <1>5, <2>1
  <2>3. j \notin M
    BY <1>4, <2>2
  <2> QED
    BY <2>2, <2>3 DEF Matching
<1>7. i = DequeueMatching(t, from)
  BY <1>3 DEF DequeueMatching
<1>8. PICK m : m = asynchMesgQueue[t][i]
  OBVIOUS
<1>9. m \in Mesg
  BY <1>1, <1>5, <1>8, LenProperties
<1>10. /\ asynchMesgQueue' = [asynchMesgQueue EXCEPT ![t] = RemoveAt(@, i)]
       /\ state' = [state EXCEPT ![m] = "RECEIVED"]
       /\ hands' = [hands EXCEPT ![t] = @ \cup {m}]
  BY <1>7, <1>8 DEF WaitTake
<1> HIDE DEF M
<1> QED
  BY <1>5, <1>6, <1>8, <1>9, <1>10

LEMMA WaitTakeInv ==
    ASSUME MInv, NEW t \in Task, NEW from, WaitTake(t, from)
    PROVE  MInv'
<1>1. PICK i \in 1 .. Len(asynchMesgQueue[t]), m \in Mesg :
        /\ asynchMesgQueue[t][i] = m
        /\ asynchMesgQueue' = [asynchMesgQueue EXCEPT ![t] = RemoveAt(@, i)]
        /\ state' = [state EXCEPT ![m] = "RECEIVED"]
        /\ hands' = [hands EXCEPT ![t] = @ \cup {m}]
  BY TakeFacts
<1>2. /\ UNCHANGED <<part, waitingQueue, owner, sender, asynchMesgInit, priority>>
      /\ UNCHANGED <<status, armed, timeOut, call, mesgPtr>>
      /\ status[t] = "READY"
  BY DEF WaitTake, Calls
<1>3. PICK q : q = RemoveAt(asynchMesgQueue[t], i)
  OBVIOUS
<1>4. /\ q \in Seq(Mesg) /\ IsInjective(q)
      /\ ToSet(q) = ToSet(asynchMesgQueue[t]) \ {m} /\ m \in ToSet(asynchMesgQueue[t])
  <2>1. asynchMesgQueue[t] \in Seq(Mesg) /\ IsInjective(asynchMesgQueue[t])
    BY Types DEF MInv, MailInv
  <2>2. DOMAIN asynchMesgQueue[t] = 1 .. Len(asynchMesgQueue[t])
    BY <2>1, LenProperties
  <2>3. m \in ToSet(asynchMesgQueue[t])
    BY <1>1, <2>2 DEF ToSet
  <2> QED
    BY <1>1, <1>3, <2>1, <2>3, RemoveAtLemma, RemoveAtElements
<1>5. state[m] = "QUEUED" /\ owner[m] = t
  BY <1>4 DEF MInv, MailInv
<1>6. asynchMesgQueue' = [asynchMesgQueue EXCEPT ![t] = q]
  BY <1>1, <1>3
<1>7. ASSUME NEW n \in Mesg
      PROVE  /\ n = m => state'[n] = "RECEIVED"
             /\ n # m => state'[n] = state[n]
  BY <1>1, Types
<1>8. ASSUME NEW u \in Task
      PROVE  /\ u = t => asynchMesgQueue'[u] = q /\ hands'[u] = hands[u] \cup {m}
             /\ u # t => asynchMesgQueue'[u] = asynchMesgQueue[u] /\ hands'[u] = hands[u]
  BY <1>1, <1>6, Types
<1>9. TypesInv'
  <2>1. /\ state' \in [Mesg -> States] /\ hands' \in [Task -> SUBSET Mesg]
        /\ asynchMesgQueue' \in Mailboxes
    BY <1>1, <1>4, <1>6, Types DEF States, Mailboxes
  <2> QED
    BY <1>2, <2>1 DEF MInv, TypesInv
<1>10. PartInv' /\ WaitInv' /\ OrderInv' /\ OwnInv' /\ CeilingHeld'
  <2>1. \A n \in Mesg : state'[n] = "FREE" <=> state[n] = "FREE"
    BY <1>5, <1>7
  <2>2. PartInv' /\ OwnInv'
    BY <1>2, <2>1 DEF MInv, PartInv, OwnInv
  <2>3. WaitInv' /\ OrderInv' /\ CeilingHeld'
    BY <1>2 DEF MInv, WaitInv, OrderInv, CeilingHeld
  <2> QED
    BY <2>2, <2>3
<1>11. MailInv'
  <2> SUFFICES ASSUME NEW u \in Task
               PROVE  /\ IsInjective(asynchMesgQueue'[u])
                      /\ \A n \in Mesg : n \in ToSet(asynchMesgQueue'[u])
                                           <=> state'[n] = "QUEUED" /\ owner[n] = u
    BY <1>2 DEF MailInv
  <2>1. /\ IsInjective(asynchMesgQueue[u])
        /\ \A n \in Mesg : n \in ToSet(asynchMesgQueue[u]) <=> state[n] = "QUEUED" /\ owner[n] = u
    BY DEF MInv, MailInv
  <2>2. CASE u = t
    BY <1>4, <1>7, <1>8, <2>1, <2>2
  <2>3. CASE u # t
    BY <1>5, <1>7, <1>8, <2>1, <2>3
  <2> QED
    BY <2>2, <2>3
<1>12. ReceiveInv'
  <2> SUFFICES ASSUME NEW u \in Task, status[u] = "RECEIVING", NEW n \in ToSet(asynchMesgQueue'[u])
               PROVE  ~SenderMatches(call[u].from, sender[n])
    BY <1>2 DEF ReceiveInv, SenderMatches
  <2>1. u # t
    BY <1>2
  <2>2. n \in ToSet(asynchMesgQueue[u])
    BY <1>8, <2>1
  <2> QED
    BY <2>2 DEF MInv, ReceiveInv
<1>13. HandInv'
  <2> SUFFICES ASSUME NEW n \in Mesg, NEW u \in Task
               PROVE  n \in hands'[u] \/ mesgPtr[u] = n <=> state'[n] \in InUse /\ owner[n] = u
    BY <1>2 DEF HandInv
  <2>1. n \in hands[u] \/ mesgPtr[u] = n <=> state[n] \in InUse /\ owner[n] = u
    BY DEF MInv, HandInv
  <2>2. CASE n = m
    BY <1>5, <1>7, <1>8, <2>1, <2>2 DEF InUse
  <2>3. CASE n # m
    BY <1>7, <1>8, <2>1, <2>3
  <2> QED
    BY <2>2, <2>3
<1>14. ASSUME NEW u \in Task PROVE CallInv(u)'
  BY <1>2 DEF MInv, CallInv
<1> QED
  BY <1>9, <1>10, <1>11, <1>12, <1>13, <1>14 DEF MInv

(* The wait of t expires: it leaves the queue it is in. *)
LEMMA ExpireInv ==
    ASSUME MInv, NEW t \in Task, Expire(t)
    PROVE  MInv'
<1>1. /\ t \in armed /\ armed' = armed \ {t}
      /\ status' = [status EXCEPT ![t] = "READY"] /\ timeOut' = [timeOut EXCEPT ![t] = TRUE]
      /\ waitingQueue' = [p \in Pool |-> TCBQRem(waitingQueue[p], t)]
      /\ UNCHANGED <<part, state, owner, sender, asynchMesgInit, asynchMesgQueue, priority>>
      /\ UNCHANGED <<call, mesgPtr, hands>>
  BY DEF Expire
<1>2. status[t] \in {"BLOCKED", "RECEIVING"} /\ mesgPtr[t] = None /\ call[t] # NoCall
  <2>1. CallInv(t)
    BY DEF MInv
  <2>2. status[t] # "READY" /\ status[t] \in Waits
    BY <1>1, <2>1, Types DEF CallInv
  <2> QED
    BY <2>1, <2>2, CallLemma, Types DEF CallInv, Waits
<1>3. ASSUME NEW u \in Task
      PROVE  /\ u = t => status'[u] = "READY" /\ timeOut'[u]
             /\ u # t => status'[u] = status[u] /\ timeOut'[u] = timeOut[u]
  BY <1>1, Types
<1>4. ASSUME NEW p \in Pool
      PROVE  /\ waitingQueue'[p] \in Seq(Task) /\ IsInjective(waitingQueue'[p])
             /\ Sorted(waitingQueue'[p], priority)
             /\ ToSet(waitingQueue'[p]) = ToSet(waitingQueue[p]) \ {t}
  <2>1. /\ waitingQueue[p] \in Seq(Task) /\ IsInjective(waitingQueue[p])
        /\ Sorted(waitingQueue[p], priority) /\ \A u \in Task : priority[u] \in Nat
    BY Types DEF MInv, OrderInv, TypesInv, Queues, Once
  <2>2. waitingQueue'[p] = TCBQRem(waitingQueue[p], t)
    BY <1>1
  <2>3. Sorted(TCBQRem(waitingQueue[p], t), priority)
    BY <2>1, RemSorted
  <2> QED
    BY <2>1, <2>2, <2>3, TCBQRemLemma
<1>5. waitingQueue' \in Queues /\ Once(waitingQueue') /\ OrderInv'
  BY <1>1, <1>4 DEF Queues, Once, OrderInv
<1>6. TypesInv'
  <2>1. /\ armed' \subseteq Task /\ status' \in [Task -> Waits]
        /\ timeOut' \in [Task -> BOOLEAN]
    BY <1>1, Types DEF Waits
  <2> QED
    BY <1>1, <1>5, <2>1 DEF MInv, TypesInv
<1>7. PartInv' /\ MailInv' /\ OwnInv' /\ HandInv' /\ CeilingHeld'
  BY <1>1 DEF MInv, PartInv, MailInv, OwnInv, HandInv, CeilingHeld
<1>8. WaitInv'
  <2> SUFFICES ASSUME NEW p \in Pool
               PROVE  /\ waitingQueue'[p] # <<>> => part[p].freeList = <<>>
                      /\ \A u \in Task : u \in ToSet(waitingQueue'[p])
                                           <=> status'[u] = "BLOCKED" /\ call[u].pool = p
    BY <1>1, <1>5 DEF WaitInv
  <2>1. /\ waitingQueue[p] # <<>> => part[p].freeList = <<>>
        /\ \A u \in Task : u \in ToSet(waitingQueue[p]) <=> status[u] = "BLOCKED" /\ call[u].pool = p
    BY DEF MInv, WaitInv
  <2>2. waitingQueue[p] = <<>> => waitingQueue'[p] = <<>>
    <3>1. ASSUME waitingQueue[p] = <<>>, waitingQueue'[p] # <<>> PROVE FALSE
      <4>1. Head(waitingQueue'[p]) \in ToSet(waitingQueue'[p])
        BY <1>4, <3>1, TailLemma
      <4>2. ToSet(waitingQueue[p]) = {}
        BY <3>1, ToSetEmpty
      <4> QED
        BY <1>4, <4>1, <4>2
    <3> QED
      BY <3>1
  <2>3. ASSUME NEW u \in Task
        PROVE  u \in ToSet(waitingQueue'[p]) <=> status'[u] = "BLOCKED" /\ call[u].pool = p
    <3>1. ToSet(waitingQueue'[p]) = ToSet(waitingQueue[p]) \ {t}
      BY <1>4
    <3>2. CASE u = t
      BY <1>3, <3>1, <3>2
    <3>3. CASE u # t
      BY <1>3, <2>1, <3>1, <3>3
    <3> QED
      BY <3>2, <3>3
  <2> QED
    BY <2>1, <2>2, <2>3
<1>9. ReceiveInv'
  BY <1>1, <1>3 DEF MInv, ReceiveInv
<1>10. ASSUME NEW u \in Task PROVE CallInv(u)'
  <2>1. CallInv(u)
    BY DEF MInv
  <2>2. CASE u = t
    BY <1>1, <1>2, <1>3, <2>2 DEF CallInv
  <2>3. CASE u # t
    BY <1>1, <1>3, <2>1, <2>3 DEF CallInv
  <2> QED
    BY <2>2, <2>3
<1> QED
  BY <1>5, <1>6, <1>7, <1>8, <1>9, <1>10 DEF MInv

(***************************************************************************)
(* The steps in which a message changes hands.                             *)
(***************************************************************************)

(* A task that runs may pass on a message: no queue it is in is reordered. *)
LEMMA PassedOn ==
    ASSUME MInv, NEW m \in Mesg,
           owner[m] = None \/ (owner[m] \in Task /\ status[owner[m]] = "READY"),
           NEW new \in Task \cup {None}, SetOwner(m, new, waitingQueue)
    PROVE  /\ owner' = [owner EXCEPT ![m] = new]
           /\ owner' \in [Mesg -> Task \cup {None}]
           /\ priority' \in [Task -> Nat]
           /\ CeilingHeld'
           /\ waitingQueue' \in Queues /\ Once(waitingQueue') /\ OrderInv'
           /\ \A p \in Pool : /\ ToSet(waitingQueue'[p]) = ToSet(waitingQueue[p])
                              /\ waitingQueue'[p] = <<>> <=> waitingQueue[p] = <<>>
<1>1. ASSUME NEW p \in Pool
      PROVE  Sorted(waitingQueue[p], priority) /\ owner[m] \notin ToSet(waitingQueue[p])
  <2>1. Sorted(waitingQueue[p], priority) /\ waitingQueue[p] \in Seq(Task)
    BY Types DEF MInv, OrderInv, Queues
  <2>2. CASE owner[m] = None
    BY <2>1, <2>2, InToSet
  <2>3. CASE owner[m] \in Task /\ status[owner[m]] = "READY"
    BY <2>1, <2>3, Caller
  <2> QED
    BY <2>1, <2>2, <2>3
<1>2. TypesInv /\ CeilingHeld /\ waitingQueue \in Queues /\ Once(waitingQueue)
  BY Types DEF MInv
<1> QED
  BY <1>1, <1>2, SetOwnerEffect

LEMMA AllocFromPoolInv ==
    ASSUME MInv, NEW t \in Task, NEW p \in Pool, AllocFromPool(t, p)
    PROVE  MInv'
<1>1. PICK m : m = AllocPtr(part[p])
  OBVIOUS
<1>2. /\ m \in Mesg /\ m \in ToSet(part[p].freeList)
      /\ PartOK(AllocRest(part[p]))
      /\ ToSet(AllocRest(part[p]).freeList) = ToSet(part[p].freeList) \ {m}
  <2>1. PartOK(part[p]) /\ CanAlloc(part[p])
    BY DEF MInv, PartInv, AllocFromPool
  <2> QED
    BY <1>1, <2>1, AllocEffect
<1>3. state[m] = "FREE" /\ PoolOf(m) = p /\ owner[m] = None /\ sender[m] = None
  BY <1>2 DEF MInv, PartInv, OwnInv
<1>4. /\ part' = [part EXCEPT ![p] = AllocRest(@)]
      /\ state' = [state EXCEPT ![m] = "ALLOCATED"]
      /\ sender' = [sender EXCEPT ![m] = None]
      /\ SetOwner(m, t, waitingQueue)
      /\ hands' = [hands EXCEPT ![t] = @ \cup {m}]
      /\ UNCHANGED <<asynchMesgInit, asynchMesgQueue, status, armed, timeOut, call, mesgPtr>>
      /\ status[t] = "READY"
  BY <1>1 DEF AllocFromPool, Calls
<1>5. UNCHANGED sender
  BY <1>3, <1>4, Types
<1>6. /\ owner' = [owner EXCEPT ![m] = t]
      /\ owner' \in [Mesg -> Task \cup {None}]
      /\ priority' \in [Task -> Nat]
      /\ CeilingHeld'
      /\ waitingQueue' \in Queues /\ Once(waitingQueue') /\ OrderInv'
      /\ \A r \in Pool : /\ ToSet(waitingQueue'[r]) = ToSet(waitingQueue[r])
                         /\ waitingQueue'[r] = <<>> <=> waitingQueue[r] = <<>>
  BY <1>2, <1>3, <1>4, PassedOn
<1>7. ASSUME NEW n \in Mesg
      PROVE  /\ n = m => state'[n] = "ALLOCATED" /\ owner'[n] = t
             /\ n # m => state'[n] = state[n] /\ owner'[n] = owner[n]
  BY <1>4, <1>6, Types
<1>8. ASSUME NEW u \in Task
      PROVE  /\ u = t => hands'[u] = hands[u] \cup {m}
             /\ u # t => hands'[u] = hands[u]
  BY <1>4, Types
<1>9. ASSUME NEW r \in Pool
      PROVE  /\ r = p => part'[r] = AllocRest(part[p])
             /\ r # p => part'[r] = part[r]
  BY <1>4, Types
<1>10. TypesInv'
  <2>1. state' \in [Mesg -> States] /\ hands' \in [Task -> SUBSET Mesg]
    BY <1>2, <1>4, Types DEF States
  <2>2. part' \in [Pool -> Partition]
    BY <1>2, <1>4, Types DEF PartOK
  <2> QED
    BY <1>4, <1>5, <1>6, <2>1, <2>2 DEF MInv, TypesInv
<1>11. PartInv'
  <2> SUFFICES ASSUME NEW r \in Pool
               PROVE  /\ PartOK(part'[r])
                      /\ \A n \in Mesg : n \in ToSet(part'[r].freeList)
                                           <=> state'[n] = "FREE" /\ PoolOf(n) = r
    BY DEF PartInv, PartOK, Partition, PoolOf
  <2>1. /\ PartOK(part[r])
        /\ \A n \in Mesg : n \in ToSet(part[r].freeList) <=> state[n] = "FREE" /\ PoolOf(n) = r
    BY DEF MInv, PartInv
  <2>2. CASE r = p
    BY <1>2, <1>7, <1>9, <2>1, <2>2
  <2>3. CASE r # p
    BY <1>3, <1>7, <1>9, <2>1, <2>3
  <2> QED
    BY <2>2, <2>3
<1>12. WaitInv'
  <2> SUFFICES ASSUME NEW r \in Pool
               PROVE  /\ waitingQueue'[r] # <<>> => part'[r].freeList = <<>>
                      /\ \A u \in Task : u \in ToSet(waitingQueue'[r])
                                           <=> status[u] = "BLOCKED" /\ call[u].pool = r
    BY <1>4, <1>6 DEF WaitInv
  <2>1. /\ waitingQueue[r] # <<>> => part[r].freeList = <<>>
        /\ \A u \in Task : u \in ToSet(waitingQueue[r]) <=> status[u] = "BLOCKED" /\ call[u].pool = r
    BY DEF MInv, WaitInv
  <2>2. r = p => waitingQueue[r] = <<>>
    BY <1>2, <2>1, ToSetEmpty
  <2> QED
    BY <1>6, <1>9, <2>1, <2>2
<1>13. MailInv'
  <2>1. ASSUME NEW n \in Mesg, NEW u \in Task
        PROVE  state'[n] = "QUEUED" /\ owner'[n] = u <=> state[n] = "QUEUED" /\ owner[n] = u
    BY <1>3, <1>7
  <2> QED
    BY <1>4, <2>1 DEF MInv, MailInv
<1>14. ReceiveInv'
  BY <1>4, <1>5 DEF MInv, ReceiveInv
<1>15. OwnInv'
  <2> SUFFICES ASSUME NEW n \in Mesg
               PROVE  /\ owner'[n] = None <=> state'[n] = "FREE"
                      /\ state'[n] = "FREE" => sender[n] = None
    BY <1>5 DEF OwnInv
  <2>1. t # None
    OBVIOUS
  <2> QED
    BY <1>7, <2>1 DEF MInv, OwnInv
<1>16. HandInv'
  <2> SUFFICES ASSUME NEW n \in Mesg, NEW u \in Task
               PROVE  n \in hands'[u] \/ mesgPtr[u] = n <=> state'[n] \in InUse /\ owner'[n] = u
    BY <1>4 DEF HandInv
  <2>1. n \in hands[u] \/ mesgPtr[u] = n <=> state[n] \in InUse /\ owner[n] = u
    BY DEF MInv, HandInv
  <2>2. CASE n = m
    BY <1>3, <1>7, <1>8, <2>1, <2>2 DEF InUse
  <2>3. CASE n # m
    BY <1>7, <1>8, <2>1, <2>3
  <2> QED
    BY <2>2, <2>3
<1>17. ASSUME NEW u \in Task PROVE CallInv(u)'
  BY <1>4 DEF MInv, CallInv
<1> QED
  BY <1>6, <1>10, <1>11, <1>12, <1>13, <1>14, <1>15, <1>16, <1>17 DEF MInv

(* What a task may send or free is its own, and is its only hold on it. *)
LEMMA InHand ==
    ASSUME MInv, NEW t \in Task, NEW m \in Mesg, m \in hands[t], Calls(t)
    PROVE  /\ state[m] \in InUse /\ owner[m] = t /\ status[t] = "READY"
           /\ mesgPtr[t] = None /\ ~timeOut[t]
           /\ \A u \in Task : mesgPtr[u] # m /\ (u # t => m \notin hands[u])
<1>1. state[m] \in InUse /\ owner[m] = t
  BY DEF MInv, HandInv
<1>2. status[t] = "READY" /\ mesgPtr[t] = None /\ ~timeOut[t]
  BY Caller DEF Calls
<1>3. ASSUME NEW u \in Task PROVE mesgPtr[u] # m /\ (u # t => m \notin hands[u])
  <2>1. m \in hands[u] \/ mesgPtr[u] = m <=> state[m] \in InUse /\ owner[m] = u
    BY DEF MInv, HandInv
  <2>2. m # None
    OBVIOUS
  <2> QED
    BY <1>1, <1>2, <2>1, <2>2
<1> QED
  BY <1>1, <1>2, <1>3

(* kMesgFree with nobody waiting *)
LEMMA FreeToPoolInv ==
    ASSUME MInv, NEW t \in Task, NEW m \in Mesg, Free(t, m), waitingQueue[PoolOf(m)] = <<>>
    PROVE  MInv'
<1>1. PICK p \in Pool : p = PoolOf(m)
  BY PoolOfLemma
<1>2. /\ state[m] \in InUse /\ owner[m] = t /\ status[t] = "READY"
      /\ mesgPtr[t] = None /\ ~timeOut[t]
      /\ \A u \in Task : mesgPtr[u] # m /\ (u # t => m \notin hands[u])
  BY InHand DEF Free
<1>3. /\ SetOwner(m, None, waitingQueue)
      /\ state' = [state EXCEPT ![m] = "FREE"]
      /\ part' = [part EXCEPT ![p] = FreeBlock(@, m)]
      /\ sender' = [sender EXCEPT ![m] = None]
      /\ hands' = [hands EXCEPT ![t] = @ \ {m}]
      /\ UNCHANGED <<asynchMesgInit, asynchMesgQueue, status, armed, timeOut, call, mesgPtr>>
      /\ waitingQueue[p] = <<>>
  BY <1>1 DEF Free, Freed, FreeToPool
<1>4. /\ owner' = [owner EXCEPT ![m] = None]
      /\ owner' \in [Mesg -> Task \cup {None}]
      /\ priority' \in [Task -> Nat]
      /\ CeilingHeld'
      /\ waitingQueue' \in Queues /\ Once(waitingQueue') /\ OrderInv'
      /\ \A r \in Pool : /\ ToSet(waitingQueue'[r]) = ToSet(waitingQueue[r])
                         /\ waitingQueue'[r] = <<>> <=> waitingQueue[r] = <<>>
  BY <1>2, <1>3, PassedOn
<1>5. ASSUME NEW n \in Mesg
      PROVE  /\ n = m => state'[n] = "FREE" /\ owner'[n] = None /\ sender'[n] = None
             /\ n # m => state'[n] = state[n] /\ owner'[n] = owner[n] /\ sender'[n] = sender[n]
  BY <1>3, <1>4, Types
<1>6. ASSUME NEW u \in Task
      PROVE  /\ u = t => hands'[u] = hands[u] \ {m}
             /\ u # t => hands'[u] = hands[u]
  BY <1>3, Types
<1>7. ASSUME NEW r \in Pool
      PROVE  /\ r = p => part'[r] = FreeBlock(part[p], m)
             /\ r # p => part'[r] = part[r]
  BY <1>3, Types
<1>8. /\ PartOK(FreeBlock(part[p], m))
      /\ ToSet(FreeBlock(part[p], m).freeList) = ToSet(part[p].freeList) \cup {m}
  <2>1. PartOK(part[p]) /\ m \notin ToSet(part[p].freeList)
    BY <1>2 DEF MInv, PartInv, InUse
  <2> QED
    BY <2>1, FreeEffect
<1>9. TypesInv'
  <2>1. /\ state' \in [Mesg -> States] /\ hands' \in [Task -> SUBSET Mesg]
        /\ sender' \in [Mesg -> Task \cup {None}]
    BY <1>3, Types DEF States
  <2>2. part' \in [Pool -> Partition]
    BY <1>3, <1>8, Types DEF PartOK
  <2> QED
    BY <1>3, <1>4, <2>1, <2>2 DEF MInv, TypesInv
<1>10. PartInv'
  <2> SUFFICES ASSUME NEW r \in Pool
               PROVE  /\ PartOK(part'[r])
                      /\ \A n \in Mesg : n \in ToSet(part'[r].freeList)
                                           <=> state'[n] = "FREE" /\ PoolOf(n) = r
    BY DEF PartInv, PartOK, Partition, PoolOf
  <2>1. /\ PartOK(part[r])
        /\ \A n \in Mesg : n \in ToSet(part[r].freeList) <=> state[n] = "FREE" /\ PoolOf(n) = r
    BY DEF MInv, PartInv
  <2>2. CASE r = p
    BY <1>1, <1>5, <1>7, <1>8, <2>1, <2>2
  <2>3. CASE r # p
    BY <1>1, <1>2, <1>5, <1>7, <2>1, <2>3 DEF InUse
  <2> QED
    BY <2>2, <2>3
<1>11. WaitInv'
  <2> SUFFICES ASSUME NEW r \in Pool
               PROVE  /\ waitingQueue'[r] # <<>> => part'[r].freeList = <<>>
                      /\ \A u \in Task : u \in ToSet(waitingQueue'[r])
                                           <=> status[u] = "BLOCKED" /\ call[u].pool = r
    BY <1>3, <1>4 DEF WaitInv
  <2>1. /\ waitingQueue[r] # <<>> => part[r].freeList = <<>>
        /\ \A u \in Task : u \in ToSet(waitingQueue[r]) <=> status[u] = "BLOCKED" /\ call[u].pool = r
    BY DEF MInv, WaitInv
  <2> QED
    BY <1>3, <1>4, <1>7, <2>1
<1>12. MailInv'
  <2>1. ASSUME NEW n \in Mesg, NEW u \in Task
        PROVE  state'[n] = "QUEUED" /\ owner'[n] = u <=> state[n] = "QUEUED" /\ owner[n] = u
    BY <1>2, <1>5 DEF InUse
  <2> QED
    BY <1>3, <2>1 DEF MInv, MailInv
<1>13. ReceiveInv'
  <2> SUFFICES ASSUME NEW u \in Task, status[u] = "RECEIVING", NEW n \in ToSet(asynchMesgQueue[u])
               PROVE  ~SenderMatches(call[u].from, sender'[n])
    BY <1>3 DEF ReceiveInv, SenderMatches
  <2>1. n \in Mesg
    BY Types, InToSet
  <2>2. state[n] = "QUEUED"
    BY <2>1 DEF MInv, MailInv
  <2>3. sender'[n] = sender[n]
    BY <1>2, <1>5, <2>1, <2>2 DEF InUse
  <2> QED
    BY <2>3 DEF MInv, ReceiveInv
<1>14. OwnInv'
  BY <1>5 DEF MInv, OwnInv
<1>15. HandInv'
  <2> SUFFICES ASSUME NEW n \in Mesg, NEW u \in Task
               PROVE  n \in hands'[u] \/ mesgPtr[u] = n <=> state'[n] \in InUse /\ owner'[n] = u
    BY <1>3 DEF HandInv
  <2>1. n \in hands[u] \/ mesgPtr[u] = n <=> state[n] \in InUse /\ owner[n] = u
    BY DEF MInv, HandInv
  <2>2. CASE n = m
    BY <1>2, <1>5, <1>6, <2>2 DEF InUse
  <2>3. CASE n # m
    BY <1>5, <1>6, <2>1, <2>3
  <2> QED
    BY <2>2, <2>3
<1>16. ASSUME NEW u \in Task PROVE CallInv(u)'
  BY <1>3 DEF MInv, CallInv
<1> QED
  BY <1>4, <1>9, <1>10, <1>11, <1>12, <1>13, <1>14, <1>15, <1>16 DEF MInv

(* kMesgFree that hands the buffer to the first of those who wait *)
LEMMA HandoffInv ==
    ASSUME MInv, NEW t \in Task, NEW m \in Mesg, Free(t, m), waitingQueue[PoolOf(m)] # <<>>
    PROVE  MInv'
<1>1. PICK p \in Pool : p = PoolOf(m)
  BY PoolOfLemma
<1>2. /\ state[m] \in InUse /\ owner[m] = t /\ status[t] = "READY"
      /\ mesgPtr[t] = None /\ ~timeOut[t]
      /\ \A u \in Task : mesgPtr[u] # m /\ (u # t => m \notin hands[u])
  BY InHand DEF Free
<1>3. PICK a, q : a = Head(waitingQueue[p]) /\ q = [waitingQueue EXCEPT ![p] = Tail(@)]
  OBVIOUS
<1>4. /\ SetOwner(m, a, q)
      /\ state' = [state EXCEPT ![m] = "ALLOCATED"]
      /\ Grant(a, m)
      /\ sender' = [sender EXCEPT ![m] = None]
      /\ hands' = [hands EXCEPT ![t] = @ \ {m}]
      /\ UNCHANGED <<part, asynchMesgInit, asynchMesgQueue, timeOut, call>>
  BY <1>1, <1>3 DEF Free, Freed, HandoffToWaitingAllocator
<1>5. /\ status' = [status EXCEPT ![a] = "READY"]
      /\ mesgPtr' = [mesgPtr EXCEPT ![a] = m]
      /\ armed' = armed \ {a}
  BY <1>4 DEF Grant
<1>6. /\ a \in Task /\ a \in ToSet(waitingQueue[p])
      /\ Tail(waitingQueue[p]) \in Seq(Task) /\ IsInjective(Tail(waitingQueue[p]))
      /\ ToSet(Tail(waitingQueue[p])) = ToSet(waitingQueue[p]) \ {a}
      /\ Sorted(Tail(waitingQueue[p]), priority)
  <2>1. /\ waitingQueue[p] \in Seq(Task) /\ IsInjective(waitingQueue[p]) /\ waitingQueue[p] # <<>>
        /\ Sorted(waitingQueue[p], priority)
    BY <1>1, Types DEF MInv, OrderInv, Queues, Once
  <2> QED
    BY <1>3, <2>1, TailLemma, TailSorted
<1>7. status[a] = "BLOCKED" /\ call[a].pool = p /\ a # t
  BY <1>2, <1>6 DEF MInv, WaitInv
<1>8. /\ call[a].op = "alloc" /\ call[a] # NoCall /\ mesgPtr[a] = None /\ ~timeOut[a]
  <2>1. CallInv(a)
    BY <1>6 DEF MInv
  <2> QED
    BY <1>6, <1>7, <2>1, CallLemma, Types DEF CallInv
<1>9. ASSUME NEW r \in Pool
      PROVE  /\ q[r] \in Seq(Task) /\ IsInjective(q[r]) /\ Sorted(q[r], priority)
             /\ ToSet(q[r]) = ToSet(waitingQueue[r]) \ {a}
             /\ waitingQueue[r] = <<>> => q[r] = <<>>
  <2>1. CASE r = p
    <3>1. q[r] = Tail(waitingQueue[p]) /\ waitingQueue[r] # <<>>
      BY <1>1, <1>3, <2>1, Types DEF Queues
    <3> QED
      BY <1>6, <2>1, <3>1
  <2>2. CASE r # p
    <3>1. q[r] = waitingQueue[r]
      BY <1>3, <2>2, Types DEF Queues
    <3>2. a \notin ToSet(waitingQueue[r])
      BY <1>6, <1>7, <2>2 DEF MInv, WaitInv
    <3> QED
      BY <3>1, <3>2, Types DEF MInv, OrderInv, Queues, Once
  <2> QED
    BY <2>1, <2>2
<1>10. q \in Queues /\ Once(q)
  <2>1. q = [r \in Pool |-> q[r]]
    BY <1>3, Types DEF Queues
  <2> QED
    BY <1>9, <2>1 DEF Queues, Once
<1>11. /\ owner' = [owner EXCEPT ![m] = a]
       /\ owner' \in [Mesg -> Task \cup {None}]
       /\ priority' \in [Task -> Nat]
       /\ CeilingHeld'
       /\ waitingQueue' \in Queues /\ Once(waitingQueue') /\ OrderInv'
       /\ \A r \in Pool : /\ ToSet(waitingQueue'[r]) = ToSet(q[r])
                          /\ waitingQueue'[r] = <<>> <=> q[r] = <<>>
  <2>1. ASSUME NEW r \in Pool PROVE Sorted(q[r], priority) /\ owner[m] \notin ToSet(q[r])
    BY <1>2, <1>9, Caller
  <2>2. TypesInv /\ CeilingHeld
    BY Types DEF MInv
  <2> QED
    BY <1>4, <1>6, <1>10, <2>1, <2>2, SetOwnerEffect
<1>12. ASSUME NEW n \in Mesg
       PROVE  /\ n = m => state'[n] = "ALLOCATED" /\ owner'[n] = a /\ sender'[n] = None
              /\ n # m => state'[n] = state[n] /\ owner'[n] = owner[n] /\ sender'[n] = sender[n]
  BY <1>4, <1>11, Types
<1>13. ASSUME NEW u \in Task
       PROVE  /\ u = t => hands'[u] = hands[u] \ {m}
              /\ u # t => hands'[u] = hands[u]
              /\ u = a => status'[u] = "READY" /\ mesgPtr'[u] = m /\ u \notin armed'
              /\ u # a => /\ status'[u] = status[u] /\ mesgPtr'[u] = mesgPtr[u]
                          /\ u \in armed' => u \in armed
  BY <1>4, <1>5, Types
<1>14. TypesInv'
  <2>1. /\ state' \in [Mesg -> States] /\ hands' \in [Task -> SUBSET Mesg]
        /\ sender' \in [Mesg -> Task \cup {None}]
    BY <1>4, Types DEF States
  <2>2. /\ status' \in [Task -> Waits] /\ mesgPtr' \in [Task -> Mesg \cup {None}]
        /\ armed' \subseteq Task
    BY <1>5, Types DEF Waits
  <2> QED
    BY <1>4, <1>11, <2>1, <2>2 DEF MInv, TypesInv
<1>15. PartInv'
  <2>1. \A n \in Mesg : state'[n] = "FREE" <=> state[n] = "FREE"
    BY <1>2, <1>12 DEF InUse
  <2> QED
    BY <1>4, <2>1 DEF MInv, PartInv
<1>16. WaitInv'
  <2> SUFFICES ASSUME NEW r \in Pool
               PROVE  /\ waitingQueue'[r] # <<>> => part[r].freeList = <<>>
                      /\ \A u \in Task : u \in ToSet(waitingQueue'[r])
                                           <=> status'[u] = "BLOCKED" /\ call[u].pool = r
    BY <1>4, <1>11 DEF WaitInv
  <2>1. /\ waitingQueue[r] # <<>> => part[r].freeList = <<>>
        /\ \A u \in Task : u \in ToSet(waitingQueue[r]) <=> status[u] = "BLOCKED" /\ call[u].pool = r
    BY DEF MInv, WaitInv
  <2>2. waitingQueue'[r] # <<>> => waitingQueue[r] # <<>>
    BY <1>9, <1>11
  <2>3. ToSet(waitingQueue'[r]) = ToSet(waitingQueue[r]) \ {a}
    BY <1>9, <1>11
  <2>4. ASSUME NEW u \in Task
        PROVE  u \in ToSet(waitingQueue'[r]) <=> status'[u] = "BLOCKED" /\ call[u].pool = r
    <3>1. CASE u = a
      BY <1>13, <2>3, <3>1
    <3>2. CASE u # a
      BY <1>13, <2>1, <2>3, <3>2
    <3> QED
      BY <3>1, <3>2
  <2> QED
    BY <2>1, <2>2, <2>4
<1>17. MailInv'
  <2>1. ASSUME NEW n \in Mesg, NEW u \in Task
        PROVE  state'[n] = "QUEUED" /\ owner'[n] = u <=> state[n] = "QUEUED" /\ owner[n] = u
    BY <1>2, <1>12 DEF InUse
  <2> QED
    BY <1>4, <2>1 DEF MInv, MailInv
<1>18. ReceiveInv'
  <2> SUFFICES ASSUME NEW u \in Task, status'[u] = "RECEIVING", NEW n \in ToSet(asynchMesgQueue[u])
               PROVE  ~SenderMatches(call[u].from, sender'[n])
    BY <1>4 DEF ReceiveInv, SenderMatches
  <2>1. n \in Mesg
    BY Types, InToSet
  <2>2. state[n] = "QUEUED"
    BY <2>1 DEF MInv, MailInv
  <2>3. sender'[n] = sender[n]
    BY <1>2, <1>12, <2>1, <2>2 DEF InUse
  <2>4. status[u] = "RECEIVING"
    BY <1>13
  <2> QED
    BY <2>3, <2>4 DEF MInv, ReceiveInv
<1>19. OwnInv'
  <2>1. a # None
    BY <1>6
  <2> QED
    BY <1>12, <2>1 DEF MInv, OwnInv
<1>20. HandInv'
  <2> SUFFICES ASSUME NEW n \in Mesg, NEW u \in Task
               PROVE  n \in hands'[u] \/ mesgPtr'[u] = n <=> state'[n] \in InUse /\ owner'[n] = u
    BY DEF HandInv
  <2>1. n \in hands[u] \/ mesgPtr[u] = n <=> state[n] \in InUse /\ owner[n] = u
    BY DEF MInv, HandInv
  <2>2. CASE n = m
    <3>1. CASE u = a
      BY <1>12, <1>13, <2>2, <3>1 DEF InUse
    <3>2. CASE u # a
      BY <1>2, <1>12, <1>13, <2>2, <3>2 DEF InUse
    <3> QED
      BY <3>1, <3>2
  <2>3. CASE n # m
    <3>1. mesgPtr'[u] = n <=> mesgPtr[u] = n
      <4>1. n # None
        OBVIOUS
      <4> QED
        BY <1>8, <1>13, <2>3, <4>1
    <3> QED
      BY <1>12, <1>13, <2>1, <2>3, <3>1
  <2> QED
    BY <2>2, <2>3
<1>21. ASSUME NEW u \in Task PROVE CallInv(u)'
  <2>1. CallInv(u)
    BY DEF MInv
  <2>2. CASE u = a
    <3>1. /\ status'[u] = "READY" /\ mesgPtr'[u] = m /\ u \notin armed'
          /\ call'[u] = call[u] /\ timeOut'[u] = timeOut[u] /\ m # None
      BY <1>4, <1>13, <2>2
    <3> QED
      BY <1>8, <2>2, <3>1 DEF CallInv
  <2>3. CASE u # a
    BY <1>4, <1>13, <2>1, <2>3 DEF CallInv
  <2> QED
    BY <2>2, <2>3
<1> QED
  BY <1>11, <1>14, <1>15, <1>16, <1>17, <1>18, <1>19, <1>20, <1>21 DEF MInv

(* kMesgSend: the message is the receiver's, also while it is queued. *)
LEMMA SendFacts ==
    ASSUME MInv, NEW t \in Task, NEW m \in Mesg, NEW to \in Task, Send(t, m, to)
    PROVE  /\ state[m] \in InUse /\ owner[m] = t /\ status[t] = "READY"
           /\ mesgPtr[t] = None /\ ~timeOut[t]
           /\ \A u \in Task : mesgPtr[u] # m /\ (u # t => m \notin hands[u])
           /\ owner' = [owner EXCEPT ![m] = to]
           /\ owner' \in [Mesg -> Task \cup {None}]
           /\ priority' \in [Task -> Nat]
           /\ CeilingHeld'
           /\ waitingQueue' \in Queues /\ Once(waitingQueue') /\ OrderInv'
           /\ \A r \in Pool : /\ ToSet(waitingQueue'[r]) = ToSet(waitingQueue[r])
                              /\ waitingQueue'[r] = <<>> <=> waitingQueue[r] = <<>>
           /\ sender' = [sender EXCEPT ![m] = t] /\ sender' \in [Mesg -> Task \cup {None}]
           /\ hands' = [hands EXCEPT ![t] = @ \ {m}] /\ hands' \in [Task -> SUBSET Mesg]
           /\ UNCHANGED <<part, asynchMesgInit, timeOut, call>>
<1>1. /\ state[m] \in InUse /\ owner[m] = t /\ status[t] = "READY"
      /\ mesgPtr[t] = None /\ ~timeOut[t]
      /\ \A u \in Task : mesgPtr[u] # m /\ (u # t => m \notin hands[u])
  BY InHand DEF Send
<1>2. /\ SetOwner(m, to, waitingQueue) /\ sender' = [sender EXCEPT ![m] = t]
      /\ hands' = [hands EXCEPT ![t] = @ \ {m}]
      /\ UNCHANGED <<part, asynchMesgInit, timeOut, call>>
  BY DEF Send
<1>3. /\ owner' = [owner EXCEPT ![m] = to]
      /\ owner' \in [Mesg -> Task \cup {None}]
      /\ priority' \in [Task -> Nat]
      /\ CeilingHeld'
      /\ waitingQueue' \in Queues /\ Once(waitingQueue') /\ OrderInv'
      /\ \A r \in Pool : /\ ToSet(waitingQueue'[r]) = ToSet(waitingQueue[r])
                         /\ waitingQueue'[r] = <<>> <=> waitingQueue[r] = <<>>
  BY <1>1, <1>2, PassedOn
<1>4. sender' \in [Mesg -> Task \cup {None}] /\ hands' \in [Task -> SUBSET Mesg]
  BY <1>2, Types
<1> QED
  BY <1>1, <1>2, <1>3, <1>4

LEMMA SendQueuedInv ==
    ASSUME MInv, NEW t \in Task, NEW m \in Mesg, NEW to \in Task, Send(t, m, to), ~Delivers(to, t)
    PROVE  MInv'
<1>1. /\ state[m] \in InUse /\ owner[m] = t /\ status[t] = "READY"
      /\ mesgPtr[t] = None /\ ~timeOut[t]
      /\ \A u \in Task : mesgPtr[u] # m /\ (u # t => m \notin hands[u])
  BY SendFacts
<1>2. /\ owner' = [owner EXCEPT ![m] = to]
      /\ owner' \in [Mesg -> Task \cup {None}]
      /\ priority' \in [Task -> Nat] /\ CeilingHeld'
      /\ waitingQueue' \in Queues /\ Once(waitingQueue') /\ OrderInv'
      /\ \A r \in Pool : /\ ToSet(waitingQueue'[r]) = ToSet(waitingQueue[r])
                         /\ waitingQueue'[r] = <<>> <=> waitingQueue[r] = <<>>
  BY SendFacts
<1>3. /\ sender' = [sender EXCEPT ![m] = t] /\ sender' \in [Mesg -> Task \cup {None}]
      /\ hands' = [hands EXCEPT ![t] = @ \ {m}] /\ hands' \in [Task -> SUBSET Mesg]
      /\ UNCHANGED <<part, asynchMesgInit, timeOut, call>>
  BY SendFacts
<1>4. /\ state' = [state EXCEPT ![m] = "QUEUED"]
      /\ asynchMesgQueue' = [asynchMesgQueue EXCEPT ![to] = Append(@, m)]
      /\ UNCHANGED <<status, armed, mesgPtr>>
  BY DEF Send
<1>5. PICK q : q = Append(asynchMesgQueue[to], m)
  OBVIOUS
<1>6. /\ q \in Seq(Mesg) /\ IsInjective(q) /\ ToSet(q) = ToSet(asynchMesgQueue[to]) \cup {m}
  <2>1. asynchMesgQueue[to] \in Seq(Mesg) /\ IsInjective(asynchMesgQueue[to])
    BY Types DEF MInv, MailInv
  <2>2. m \notin ToSet(asynchMesgQueue[to])
    BY <1>1 DEF MInv, MailInv, InUse
  <2> QED
    BY <1>5, <2>1, <2>2, AppendLemma
<1>7. ASSUME NEW n \in Mesg
      PROVE  /\ n = m => state'[n] = "QUEUED" /\ owner'[n] = to /\ sender'[n] = t
             /\ n # m => state'[n] = state[n] /\ owner'[n] = owner[n] /\ sender'[n] = sender[n]
  BY <1>2, <1>3, <1>4, Types
<1>8. ASSUME NEW u \in Task
      PROVE  /\ u = t => hands'[u] = hands[u] \ {m}
             /\ u # t => hands'[u] = hands[u]
             /\ u = to => asynchMesgQueue'[u] = q
             /\ u # to => asynchMesgQueue'[u] = asynchMesgQueue[u]
  BY <1>3, <1>4, <1>5, Types
<1>9. TypesInv'
  <2>1. state' \in [Mesg -> States]
    BY <1>4, Types DEF States
  <2>2. asynchMesgQueue' \in Mailboxes
    BY <1>4, <1>5, <1>6, Types DEF Mailboxes
  <2> QED
    BY <1>2, <1>3, <1>4, <2>1, <2>2 DEF MInv, TypesInv
<1>10. PartInv'
  <2>1. \A n \in Mesg : state'[n] = "FREE" <=> state[n] = "FREE"
    BY <1>1, <1>7 DEF InUse
  <2> QED
    BY <1>3, <2>1 DEF MInv, PartInv
<1>11. WaitInv'
  BY <1>2, <1>3, <1>4 DEF MInv, WaitInv
<1>12. MailInv'
  <2> SUFFICES ASSUME NEW u \in Task
               PROVE  /\ IsInjective(asynchMesgQueue'[u])
                      /\ \A n \in Mesg : n \in ToSet(asynchMesgQueue'[u])
                                           <=> state'[n] = "QUEUED" /\ owner'[n] = u
    BY DEF MailInv
  <2>1. /\ IsInjective(asynchMesgQueue[u])
        /\ \A n \in Mesg : n \in ToSet(asynchMesgQueue[u]) <=> state[n] = "QUEUED" /\ owner[n] = u
    BY DEF MInv, MailInv
  <2>2. state[m] # "QUEUED"
    BY <1>1 DEF InUse
  <2>3. CASE u = to
    BY <1>6, <1>7, <1>8, <2>1, <2>3
  <2>4. CASE u # to
    BY <1>7, <1>8, <2>1, <2>2, <2>4
  <2> QED
    BY <2>3, <2>4
<1>13. ReceiveInv'
  <2> SUFFICES ASSUME NEW u \in Task, status[u] = "RECEIVING", NEW n \in ToSet(asynchMesgQueue'[u])
               PROVE  ~SenderMatches(call[u].from, sender'[n])
    BY <1>3, <1>4 DEF ReceiveInv, SenderMatches
  <2>1. CASE u = to /\ n = m
    <3>1. ~SenderMatches(call[u].from, t)
      BY <2>1 DEF Delivers
    <3> QED
      BY <1>7, <2>1, <3>1
  <2>2. CASE ~(u = to /\ n = m)
    <3>1. n \in ToSet(asynchMesgQueue[u])
      BY <1>6, <1>8, <2>2
    <3>2. n \in Mesg
      BY <3>1, Types, InToSet
    <3>3. state[n] = "QUEUED"
      BY <3>1, <3>2 DEF MInv, MailInv
    <3>4. sender'[n] = sender[n]
      BY <1>1, <1>7, <3>2, <3>3 DEF InUse
    <3> QED
      BY <3>1, <3>4 DEF MInv, ReceiveInv
  <2> QED
    BY <2>1, <2>2
<1>14. OwnInv'
  <2>1. to # None
    OBVIOUS
  <2> QED
    BY <1>7, <2>1 DEF MInv, OwnInv
<1>15. HandInv'
  <2> SUFFICES ASSUME NEW n \in Mesg, NEW u \in Task
               PROVE  n \in hands'[u] \/ mesgPtr[u] = n <=> state'[n] \in InUse /\ owner'[n] = u
    BY <1>4 DEF HandInv
  <2>1. n \in hands[u] \/ mesgPtr[u] = n <=> state[n] \in InUse /\ owner[n] = u
    BY DEF MInv, HandInv
  <2>2. CASE n = m
    BY <1>1, <1>7, <1>8, <2>2 DEF InUse
  <2>3. CASE n # m
    BY <1>7, <1>8, <2>1, <2>3
  <2> QED
    BY <2>2, <2>3
<1>16. ASSUME NEW u \in Task PROVE CallInv(u)'
  BY <1>3, <1>4 DEF MInv, CallInv
<1> QED
  BY <1>2, <1>9, <1>10, <1>11, <1>12, <1>13, <1>14, <1>15, <1>16 DEF MInv

LEMMA SendDirectInv ==
    ASSUME MInv, NEW t \in Task, NEW m \in Mesg, NEW to \in Task, Send(t, m, to), Delivers(to, t)
    PROVE  MInv'
<1>1. /\ state[m] \in InUse /\ owner[m] = t /\ status[t] = "READY"
      /\ mesgPtr[t] = None /\ ~timeOut[t]
      /\ \A u \in Task : mesgPtr[u] # m /\ (u # t => m \notin hands[u])
  BY SendFacts
<1>2. /\ owner' = [owner EXCEPT ![m] = to]
      /\ owner' \in [Mesg -> Task \cup {None}]
      /\ priority' \in [Task -> Nat] /\ CeilingHeld'
      /\ waitingQueue' \in Queues /\ Once(waitingQueue') /\ OrderInv'
      /\ \A r \in Pool : /\ ToSet(waitingQueue'[r]) = ToSet(waitingQueue[r])
                         /\ waitingQueue'[r] = <<>> <=> waitingQueue[r] = <<>>
  BY SendFacts
<1>3. /\ sender' = [sender EXCEPT ![m] = t] /\ sender' \in [Mesg -> Task \cup {None}]
      /\ hands' = [hands EXCEPT ![t] = @ \ {m}] /\ hands' \in [Task -> SUBSET Mesg]
      /\ UNCHANGED <<part, asynchMesgInit, timeOut, call>>
  BY SendFacts
<1>4. /\ state' = [state EXCEPT ![m] = "RECEIVED"] /\ UNCHANGED asynchMesgQueue
      /\ status' = [status EXCEPT ![to] = "READY"]
      /\ mesgPtr' = [mesgPtr EXCEPT ![to] = m]
      /\ armed' = armed \ {to}
  BY DEF Send, Grant
<1>5. /\ status[to] = "RECEIVING" /\ to # t
      /\ call[to] # NoCall /\ mesgPtr[to] = None /\ ~timeOut[to]
  <2>1. CallInv(to)
    BY DEF MInv
  <2>2. status[to] = "RECEIVING"
    BY DEF Delivers
  <2> QED
    BY <1>1, <2>1, <2>2, CallLemma, Types DEF CallInv
<1>6. ASSUME NEW n \in Mesg
      PROVE  /\ n = m => state'[n] = "RECEIVED" /\ owner'[n] = to /\ sender'[n] = t
             /\ n # m => state'[n] = state[n] /\ owner'[n] = owner[n] /\ sender'[n] = sender[n]
  BY <1>2, <1>3, <1>4, Types
<1>7. ASSUME NEW u \in Task
      PROVE  /\ u = t => hands'[u] = hands[u] \ {m}
             /\ u # t => hands'[u] = hands[u]
             /\ u = to => status'[u] = "READY" /\ mesgPtr'[u] = m /\ u \notin armed'
             /\ u # to => /\ status'[u] = status[u] /\ mesgPtr'[u] = mesgPtr[u]
                          /\ u \in armed' => u \in armed
  BY <1>3, <1>4, Types
<1>8. TypesInv'
  <2>1. /\ state' \in [Mesg -> States] /\ status' \in [Task -> Waits]
        /\ mesgPtr' \in [Task -> Mesg \cup {None}] /\ armed' \subseteq Task
    BY <1>4, Types DEF States, Waits
  <2> QED
    BY <1>2, <1>3, <1>4, <2>1 DEF MInv, TypesInv
<1>9. PartInv'
  <2>1. \A n \in Mesg : state'[n] = "FREE" <=> state[n] = "FREE"
    BY <1>1, <1>6 DEF InUse
  <2> QED
    BY <1>3, <2>1 DEF MInv, PartInv
<1>10. WaitInv'
  <2>1. \A u \in Task : status'[u] = "BLOCKED" <=> status[u] = "BLOCKED"
    BY <1>5, <1>7
  <2> QED
    BY <1>2, <1>3, <2>1 DEF MInv, WaitInv
<1>11. MailInv'
  <2>1. ASSUME NEW n \in Mesg, NEW u \in Task
        PROVE  state'[n] = "QUEUED" /\ owner'[n] = u <=> state[n] = "QUEUED" /\ owner[n] = u
    BY <1>1, <1>6 DEF InUse
  <2> QED
    BY <1>4, <2>1 DEF MInv, MailInv
<1>12. ReceiveInv'
  <2> SUFFICES ASSUME NEW u \in Task, status'[u] = "RECEIVING", NEW n \in ToSet(asynchMesgQueue[u])
               PROVE  ~SenderMatches(call[u].from, sender'[n])
    BY <1>3, <1>4 DEF ReceiveInv, SenderMatches
  <2>1. n \in Mesg
    BY Types, InToSet
  <2>2. state[n] = "QUEUED"
    BY <2>1 DEF MInv, MailInv
  <2>3. sender'[n] = sender[n]
    BY <1>1, <1>6, <2>1, <2>2 DEF InUse
  <2>4. status[u] = "RECEIVING"
    BY <1>7
  <2> QED
    BY <2>3, <2>4 DEF MInv, ReceiveInv
<1>13. OwnInv'
  <2>1. to # None
    OBVIOUS
  <2> QED
    BY <1>6, <2>1 DEF MInv, OwnInv
<1>14. HandInv'
  <2> SUFFICES ASSUME NEW n \in Mesg, NEW u \in Task
               PROVE  n \in hands'[u] \/ mesgPtr'[u] = n <=> state'[n] \in InUse /\ owner'[n] = u
    BY DEF HandInv
  <2>1. n \in hands[u] \/ mesgPtr[u] = n <=> state[n] \in InUse /\ owner[n] = u
    BY DEF MInv, HandInv
  <2>2. CASE n = m
    <3>1. CASE u = to
      BY <1>6, <1>7, <2>2, <3>1 DEF InUse
    <3>2. CASE u # to
      BY <1>1, <1>6, <1>7, <2>2, <3>2 DEF InUse
    <3> QED
      BY <3>1, <3>2
  <2>3. CASE n # m
    <3>1. mesgPtr'[u] = n <=> mesgPtr[u] = n
      <4>1. n # None
        OBVIOUS
      <4> QED
        BY <1>5, <1>7, <2>3, <4>1
    <3> QED
      BY <1>6, <1>7, <2>1, <2>3, <3>1
  <2> QED
    BY <2>2, <2>3
<1>15. ASSUME NEW u \in Task PROVE CallInv(u)'
  <2>1. CallInv(u)
    BY DEF MInv
  <2>2. CASE u = to
    <3>1. /\ status'[u] = "READY" /\ mesgPtr'[u] = m /\ u \notin armed'
          /\ call'[u] = call[u] /\ timeOut'[u] = timeOut[u] /\ m # None
      BY <1>3, <1>7, <2>2
    <3> QED
      BY <1>5, <2>2, <3>1 DEF CallInv
  <2>3. CASE u # to
    BY <1>3, <1>7, <2>1, <2>3 DEF CallInv
  <2> QED
    BY <2>2, <2>3
<1> QED
  BY <1>2, <1>8, <1>9, <1>10, <1>11, <1>12, <1>13, <1>14, <1>15 DEF MInv

LEMMA NextInv == MInv /\ [MesgNext]_vars => MInv'
<1> SUFFICES ASSUME MInv, [MesgNext]_vars PROVE MInv'
  OBVIOUS
<1>1. CASE UNCHANGED vars
  BY <1>1 DEF vars, mesgVars, taskVars, MInv, TypesInv, PartInv, WaitInv, OrderInv, MailInv,
              ReceiveInv, OwnInv, HandInv, CeilingHeld, CallInv
<1>2. ASSUME NEW t \in Task, NEW m \in Mesg, Free(t, m) PROVE MInv'
  BY <1>2, FreeToPoolInv, HandoffInv
<1>3. ASSUME NEW t \in Task, NEW m \in Mesg, NEW to \in Task, Send(t, m, to) PROVE MInv'
  BY <1>3, SendQueuedInv, SendDirectInv
<1>4. ASSUME NEW t \in Task, NEW p \in Pool,
             AllocFromPool(t, p) \/ \E timed \in BOOLEAN : AllocBlock(t, p, timed)
      PROVE  MInv'
  BY <1>4, AllocFromPoolInv, AllocBlockInv
<1>5. ASSUME NEW t \in Task, NEW from \in Filter,
             WaitTake(t, from) \/ \E timed \in BOOLEAN : WaitBlock(t, from, timed)
      PROVE  MInv'
  BY <1>5, WaitTakeInv, WaitBlockInv
<1>6. ASSUME NEW t \in Task,
             \/ t \in Endpoint /\ EndpointInit(t)
             \/ AllocResume(t) \/ WaitResume(t) \/ Expire(t) \/ Timeout(t)
      PROVE  MInv'
  BY <1>6, EndpointInitInv, ReturnInv, ExpireInv
<1> QED
  BY <1>1, <1>2, <1>3, <1>4, <1>5, <1>6 DEF MesgNext

(* The inductive invariant holds in every reachable state. *)
THEOREM MesgInvariant == MesgSpec => []MInv
  BY InitInv, NextInv, PTL DEF MesgSpec

(***************************************************************************)
(* What follows from it.                                                   *)
(***************************************************************************)

LEMMA NoLeakFollows == MInv => NoLeak
<1> SUFFICES ASSUME MInv PROVE NoLeak
  OBVIOUS
<1>1. ASSUME NEW p \in Pool
      PROVE  /\ part[p].nFreeBlocks = Len(part[p].freeList)
             /\ part[p].freeList \in Seq({m \in Mesg : PoolOf(m) = p})
  <2>1. /\ part[p].nFreeBlocks = Len(part[p].freeList) /\ part[p].freeList \in Seq(Mesg)
        /\ \A m \in Mesg : m \in ToSet(part[p].freeList) => PoolOf(m) = p
    BY DEF MInv, PartInv, PartOK, Partition
  <2>2. PICK l : l = part[p].freeList
    OBVIOUS
  <2>3. l \in Seq(Mesg) /\ \A i \in 1 .. Len(l) : l[i] \in {m \in Mesg : PoolOf(m) = p}
    BY <2>1, <2>2, InToSet
  <2>4. l \in Seq({m \in Mesg : PoolOf(m) = p})
    <3> DEFINE n == Len(l)
               S == {m \in Mesg : PoolOf(m) = p}
    <3>1. n \in Nat /\ l \in [1 .. n -> Mesg] /\ \A i \in 1 .. n : l[i] \in S
      BY <2>3, LenProperties
    <3> HIDE DEF n, S
    <3>2. l \in [1 .. n -> S]
      BY <3>1
    <3>3. l \in Seq(S)
      BY <3>1, <3>2, SeqDef
    <3> QED
      BY <3>3 DEF S
  <2> QED
    BY <2>1, <2>2, <2>4
<1>2. MesgTypeOK
  <2>1. \A p \in Pool : /\ part[p].nFreeBlocks = Len(part[p].freeList)
                        /\ part[p].freeList \in Seq({m \in Mesg : PoolOf(m) = p})
    BY <1>1
  <2>2. /\ waitingQueue \in [Pool -> Seq(Task)] /\ asynchMesgQueue \in [Task -> Seq(Mesg)]
        /\ state \in [Mesg -> {"FREE", "ALLOCATED", "QUEUED", "RECEIVED"}]
        /\ status \in [Task -> {"READY", "BLOCKED", "RECEIVING"}]
    BY Types DEF Queues, States, Waits
  <2>3. asynchMesgInit \subseteq Endpoint /\ priority \in [Task -> Nat]
    BY DEF MInv, TypesInv
  <2> QED
    BY Zenon, <2>1, <2>2, <2>3, Types DEF MesgTypeOK
<1>3. ASSUME NEW m \in Mesg
      PROVE  /\ state[m] = "FREE" <=> Contains(part[PoolOf(m)].freeList, m)
             /\ state[m] \in {"ALLOCATED", "RECEIVED"} =>
                   \A t \in Task :
                       (m \in hands[t] \/ (mesgPtr[t] = m /\ ~timeOut[t])) <=> t = owner[m]
  <2>1. PoolOf(m) \in Pool
    BY PoolOfLemma
  <2>2. state[m] = "FREE" <=> m \in ToSet(part[PoolOf(m)].freeList)
    BY <2>1 DEF MInv, PartInv
  <2>3. part[PoolOf(m)].freeList \in Seq(Mesg)
    BY <2>1 DEF MInv, PartInv, PartOK, Partition
  <2>4. state[m] = "FREE" <=> Contains(part[PoolOf(m)].freeList, m)
    BY <2>2, <2>3, InToSet
  <2>5. ASSUME state[m] \in {"ALLOCATED", "RECEIVED"}, NEW t \in Task
        PROVE  (m \in hands[t] \/ (mesgPtr[t] = m /\ ~timeOut[t])) <=> t = owner[m]
    <3>1. m \in hands[t] \/ mesgPtr[t] = m <=> state[m] \in InUse /\ owner[m] = t
      BY DEF MInv, HandInv
    <3>2. timeOut[t] => mesgPtr[t] # m
      <4>1. m # None
        OBVIOUS
      <4> QED
        BY <4>1 DEF MInv, CallInv
    <3> QED
      BY <2>5, <3>1, <3>2 DEF InUse
  <2> QED
    BY <2>4, <2>5
<1> QED
  BY <1>2, <1>3 DEF NoLeak

(* No buffer leaks and none has two users, for any pools, tasks and        *)
(* filters: a buffer is in the list of its pool just when it is free, and  *)
(* one in use is known to its owner, or to the call its owner is in.       *)
THEOREM BuffersDoNotLeak == MesgSpec => []NoLeak
  BY MesgInvariant, NoLeakFollows, PTL

(* Each task has the best of its own priority and the ceilings of the      *)
(* pools whose messages it owns, for any ceilings and priorities.          *)
THEOREM CeilingsHeld == MesgSpec => []CeilingHeld
<1>1. MInv => CeilingHeld
  BY DEF MInv
<1> QED
  BY <1>1, MesgInvariant, PTL

(* Those who wait for a buffer are in the order of the priorities they     *)
(* have now, and wait only for a pool that is empty.                       *)
THEOREM AllocatorsWaitInOrder == MesgSpec => []AllocatorsInOrder
<1>1. ASSUME MInv PROVE AllocatorsInOrder
  <2> SUFFICES ASSUME NEW p \in Pool
               PROVE  /\ \A i, j \in 1 .. Len(waitingQueue[p]) : i < j =>
                           priority[waitingQueue[p][i]] <= priority[waitingQueue[p][j]]
                      /\ waitingQueue[p] # <<>> => ~CanAlloc(part[p])
    BY DEF AllocatorsInOrder
  <2>1. Sorted(waitingQueue[p], priority)
    BY <1>1 DEF MInv, OrderInv
  <2>2. ASSUME waitingQueue[p] # <<>> PROVE ~CanAlloc(part[p])
    <3>1. part[p].freeList = <<>> /\ part[p].nFreeBlocks = Len(part[p].freeList)
      BY <1>1, <2>2 DEF MInv, WaitInv, PartInv, PartOK
    <3>2. Len(<<>>) = 0
      OBVIOUS
    <3> QED
      BY <3>1, <3>2 DEF CanAlloc
  <2> QED
    BY <2>1, <2>2 DEF Sorted
<1> QED
  BY <1>1, MesgInvariant, PTL

(***************************************************************************)
(* What RK0Post promises.                                                  *)
(***************************************************************************)

(* m passes from one hand to another, and no other message does. *)
Passes(m, from, to) ==
    Holder(m) = from /\ Holder(m)' = to /\ \A n \in Mesg \ {m} : Holder(n)' = Holder(n)

Rests == (\A n \in Mesg : Holder(n)' = Holder(n)) /\ UNCHANGED <<sender, asynchMesgQueue>>

LEMMA PassesMaps ==
    ASSUME NEW m \in Mesg, NEW from, NEW to, Passes(m, from, to)
    PROVE  LET hld == [n \in Mesg |-> Holder(n)] IN
           hld[m] = from /\ hld' = [hld EXCEPT ![m] = to]
  BY DEF Passes

LEMMA RestsMaps ==
    ASSUME Rests
    PROVE  UNCHANGED <<[n \in Mesg |-> Holder(n)], sender, asynchMesgQueue>>
  BY DEF Rests

LEMMA HolderStays ==
    ASSUME NEW m \in Mesg, state'[m] = state[m], owner'[m] = owner[m]
    PROVE  Holder(m)' = Holder(m)
  BY DEF Holder

LEMMA PostInitMaps == MesgInit => Posted!PostInit
<1> SUFFICES ASSUME MesgInit PROVE Posted!PostInit
  OBVIOUS
<1>1. \A m \in Mesg : Holder(m) = None
  BY DEF MesgInit, Holder
<1> QED
  BY <1>1 DEF MesgInit, Posted!PostInit

(* kMesgAllocFromPool_: the buffer is nobody's, and in no mailbox. *)
LEMMA AllocFromPoolMaps ==
    ASSUME MInv, NEW t \in Task, NEW p \in Pool, AllocFromPool(t, p)
    PROVE  Posted!PostNext
<1>1. PICK m : m = AllocPtr(part[p])
  OBVIOUS
<1>2. m \in Mesg /\ m \in ToSet(part[p].freeList)
  <2>1. PartOK(part[p]) /\ CanAlloc(part[p])
    BY DEF MInv, PartInv, AllocFromPool
  <2> QED
    BY <1>1, <2>1, AllocEffect
<1>3. state[m] = "FREE" /\ owner[m] = None /\ sender[m] = None
  BY <1>2 DEF MInv, PartInv, OwnInv
<1>4. /\ state' = [state EXCEPT ![m] = "ALLOCATED"] /\ owner' = [owner EXCEPT ![m] = t]
      /\ sender' = [sender EXCEPT ![m] = None] /\ UNCHANGED asynchMesgQueue
  BY <1>1 DEF AllocFromPool, SetOwner
<1>5. UNCHANGED sender
  BY <1>3, <1>4, Types
<1>6. Passes(m, None, t)
  <2>1. Holder(m) = None /\ Holder(m)' = t
    BY <1>2, <1>3, <1>4, Types DEF Holder
  <2>2. ASSUME NEW n \in Mesg \ {m} PROVE Holder(n)' = Holder(n)
    BY <1>4, Types, HolderStays
  <2> QED
    BY <2>1, <2>2 DEF Passes
<1>7. ~Posted!OnTheWay(m)
  <2> SUFFICES ASSUME NEW u \in Task, NEW i \in 1 .. Len(asynchMesgQueue[u]), asynchMesgQueue[u][i] = m
               PROVE  FALSE
    BY DEF Posted!OnTheWay
  <2>1. asynchMesgQueue[u] \in Seq(Mesg)
    BY Types
  <2>2. m \in ToSet(asynchMesgQueue[u])
    BY <2>1, InToSet
  <2> QED
    BY <1>2, <1>3, <2>2 DEF MInv, MailInv
<1>8. Posted!Acquire(m, t)
  BY <1>2, <1>4, <1>5, <1>6, <1>7, PassesMaps DEF Posted!Acquire
<1> QED
  BY <1>2, <1>8 DEF Posted!PostNext

(* kMesgFree: it is free, or passes to the task that waits longest. *)
LEMMA FreeMaps ==
    ASSUME MInv, NEW t \in Task, NEW m \in Mesg, Free(t, m)
    PROVE  Posted!PostNext
<1>1. state[m] \in InUse /\ owner[m] = t
  BY InHand DEF Free
<1>2. sender' = [sender EXCEPT ![m] = None] /\ UNCHANGED asynchMesgQueue
  BY DEF Free
<1>3. PICK next \in Task \cup {None} :
        /\ owner' = [owner EXCEPT ![m] = next]
        /\ state' = [state EXCEPT ![m] = IF next = None THEN "FREE" ELSE "ALLOCATED"]
  <2>1. CASE waitingQueue[PoolOf(m)] = <<>>
    <3>1. owner' = [owner EXCEPT ![m] = None] /\ state' = [state EXCEPT ![m] = "FREE"]
      BY <2>1 DEF Free, Freed, FreeToPool, SetOwner
    <3> QED
      BY <3>1
  <2>2. CASE waitingQueue[PoolOf(m)] # <<>>
    <3> DEFINE a == Head(waitingQueue[PoolOf(m)])
    <3>1. owner' = [owner EXCEPT ![m] = a] /\ state' = [state EXCEPT ![m] = "ALLOCATED"]
      BY <2>2 DEF Free, Freed, HandoffToWaitingAllocator, SetOwner
    <3>2. a \in Task
      <4>1. waitingQueue[PoolOf(m)] \in Seq(Task)
        BY PoolOfLemma, Types DEF Queues
      <4> QED
        BY <2>2, <4>1, TailLemma
    <3>3. a # None
      BY <3>2
    <3> HIDE DEF a
    <3>4. state' = [state EXCEPT ![m] = IF a = None THEN "FREE" ELSE "ALLOCATED"]
      BY <3>1, <3>3
    <3> QED
      BY <3>1, <3>2, <3>4
  <2> QED
    BY <2>1, <2>2
<1>4. Passes(m, t, next)
  <2>1. Holder(m) = t /\ Holder(m)' = next
    BY <1>1, <1>3, Types DEF Holder, InUse
  <2>2. ASSUME NEW n \in Mesg \ {m} PROVE Holder(n)' = Holder(n)
    BY <1>3, Types, HolderStays
  <2> QED
    BY <2>1, <2>2 DEF Passes
<1>5. t # None
  OBVIOUS
<1>6. Posted!Release(m, next)
  BY <1>2, <1>4, <1>5, PassesMaps DEF Posted!Release
<1> QED
  BY <1>6 DEF Posted!PostNext

(* kMesgSend: into the mailbox, or past one that holds nothing of t's. *)
LEMMA SendMaps ==
    ASSUME MInv, NEW t \in Task, NEW m \in Mesg, NEW to \in Task, Send(t, m, to)
    PROVE  Posted!PostNext
<1>1. state[m] \in InUse /\ owner[m] = t /\ t # None
  BY InHand DEF Send
<1>2. sender' = [sender EXCEPT ![m] = t] /\ owner' = [owner EXCEPT ![m] = to]
  BY DEF Send, SetOwner
<1>3. Holder(m) = t
  BY <1>1 DEF Holder, InUse
<1>4. ASSUME NEW st \in States, state' = [state EXCEPT ![m] = st],
             NEW n \in Mesg \ {m}
      PROVE  Holder(n)' = Holder(n)
  BY <1>2, <1>4, Types, HolderStays
<1>5. CASE Delivers(to, t)
  <2>1. state' = [state EXCEPT ![m] = "RECEIVED"] /\ UNCHANGED asynchMesgQueue
    BY <1>5 DEF Send
  <2>2. Passes(m, t, to)
    <3>1. Holder(m)' = to
      BY <1>2, <2>1, Types DEF Holder
    <3> QED
      BY <1>3, <1>4, <2>1, <3>1 DEF Passes, States
  <2>3. ASSUME NEW i \in 1 .. Len(asynchMesgQueue[to]) PROVE sender[asynchMesgQueue[to][i]] # t
    <3>1. asynchMesgQueue[to] \in Seq(Mesg)
      BY Types
    <3>2. asynchMesgQueue[to][i] \in ToSet(asynchMesgQueue[to])
      BY <3>1, InToSet
    <3>3. ~SenderMatches(call[to].from, sender[asynchMesgQueue[to][i]])
      BY <1>5, <3>2 DEF MInv, ReceiveInv, Delivers
    <3> QED
      BY <1>5, <3>3 DEF Delivers
  <2>4. Posted!Post(m, to)
    BY <1>1, <1>2, <2>1, <2>2, <2>3, PassesMaps DEF Posted!Post
  <2> QED
    BY <2>4 DEF Posted!PostNext
<1>6. CASE ~Delivers(to, t)
  <2>1. /\ state' = [state EXCEPT ![m] = "QUEUED"]
        /\ asynchMesgQueue' = [asynchMesgQueue EXCEPT ![to] = Append(@, m)]
    BY <1>6 DEF Send
  <2>2. Passes(m, t, None)
    <3>1. Holder(m)' = None
      BY <2>1, Types DEF Holder
    <3> QED
      BY <1>3, <1>4, <2>1, <3>1 DEF Passes, States
  <2>3. Posted!Post(m, to)
    BY <1>1, <1>2, <2>1, <2>2, PassesMaps DEF Posted!Post
  <2> QED
    BY <2>3 DEF Posted!PostNext
<1> QED
  BY <1>5, <1>6

(* kMesgWait takes no message before an earlier one of the same sender. *)
LEMMA WaitTakeMaps ==
    ASSUME MInv, NEW t \in Task, NEW from, WaitTake(t, from)
    PROVE  Posted!PostNext
<1>1. PICK i \in 1 .. Len(asynchMesgQueue[t]), m \in Mesg :
        /\ asynchMesgQueue[t][i] = m /\ SenderMatches(from, sender[m])
        /\ \A j \in 1 .. i - 1 : ~SenderMatches(from, sender[asynchMesgQueue[t][j]])
        /\ asynchMesgQueue' = [asynchMesgQueue EXCEPT ![t] = RemoveAt(@, i)]
        /\ state' = [state EXCEPT ![m] = "RECEIVED"]
  BY TakeFacts
<1>2. UNCHANGED <<owner, sender>>
  BY DEF WaitTake
<1>3. state[m] = "QUEUED" /\ owner[m] = t
  <2>1. asynchMesgQueue[t] \in Seq(Mesg)
    BY Types
  <2>2. m \in ToSet(asynchMesgQueue[t])
    BY <1>1, <2>1, InToSet
  <2> QED
    BY <2>2 DEF MInv, MailInv
<1>4. Passes(m, None, t)
  <2>1. Holder(m) = None /\ Holder(m)' = t
    BY <1>1, <1>2, <1>3, Types DEF Holder
  <2>2. ASSUME NEW n \in Mesg \ {m} PROVE Holder(n)' = Holder(n)
    BY <1>1, <1>2, Types, HolderStays
  <2> QED
    BY <2>1, <2>2 DEF Passes
<1>5. \A j \in 1 .. i - 1 : sender[asynchMesgQueue[t][j]] # sender[asynchMesgQueue[t][i]]
  BY <1>1 DEF SenderMatches
<1>6. Posted!Fetch(t, i)
  BY <1>1, <1>2, <1>4, <1>5, PassesMaps DEF Posted!Fetch, RemoveAt
<1> QED
  BY <1>6 DEF Posted!PostNext

LEMMA NextMaps ==
    ASSUME MInv, [MesgNext]_vars
    PROVE  Posted!PostNext \/ Rests
<1>1. CASE UNCHANGED <<state, owner, sender, asynchMesgQueue>>
  BY <1>1, HolderStays DEF Rests
<1>2. CASE UNCHANGED vars
  BY <1>1, <1>2 DEF vars, mesgVars
<1>3. ASSUME NEW t \in Task, NEW m \in Mesg, Free(t, m) \/ \E to \in Task : Send(t, m, to)
      PROVE  Posted!PostNext
  BY <1>3, FreeMaps, SendMaps
<1>4. ASSUME NEW t \in Task, NEW p \in Pool,
             AllocFromPool(t, p) \/ \E timed \in BOOLEAN : AllocBlock(t, p, timed)
      PROVE  Posted!PostNext \/ Rests
  <2>1. CASE AllocFromPool(t, p)
    BY <2>1, AllocFromPoolMaps
  <2>2. CASE \E timed \in BOOLEAN : AllocBlock(t, p, timed)
    BY <1>1, <2>2 DEF AllocBlock
  <2> QED
    BY <1>4, <2>1, <2>2
<1>5. ASSUME NEW t \in Task, NEW from \in Filter,
             WaitTake(t, from) \/ \E timed \in BOOLEAN : WaitBlock(t, from, timed)
      PROVE  Posted!PostNext \/ Rests
  <2>1. CASE WaitTake(t, from)
    BY <2>1, WaitTakeMaps
  <2>2. CASE \E timed \in BOOLEAN : WaitBlock(t, from, timed)
    BY <1>1, <2>2 DEF WaitBlock, mesgVars
  <2> QED
    BY <1>5, <2>1, <2>2
<1>6. ASSUME NEW t \in Task,
             \/ t \in Endpoint /\ EndpointInit(t)
             \/ AllocResume(t) \/ WaitResume(t) \/ Expire(t) \/ Timeout(t)
      PROVE  Posted!PostNext \/ Rests
  BY <1>1, <1>6 DEF EndpointInit, AllocResume, WaitResume, ReturnWith, Expire, Timeout, mesgVars
<1> QED
  BY <1>2, <1>3, <1>4, <1>5, <1>6 DEF MesgNext

(* Asynchronous messages keep what RK0Post promises, for any tasks,        *)
(* filters and pools: a buffer has one user or one receiver, and none      *)
(* overtakes another of the same sender.                                   *)
THEOREM MesgImplements == MesgSpec => ImplementsPost
<1> DEFINE hld == [m \in Mesg |-> Holder(m)]
<1>1. MesgInit => Posted!PostInit
  BY PostInitMaps
<1>2. MInv /\ [MesgNext]_vars => [Posted!PostNext]_<<hld, sender, asynchMesgQueue>>
  BY NextMaps, RestsMaps
<1> QED
  BY <1>1, <1>2, MesgInvariant, PTL DEF MesgSpec, ImplementsPost, Posted!PostSpec
=============================================================================
