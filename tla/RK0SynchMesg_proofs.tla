------------------------ MODULE RK0SynchMesg_proofs -------------------------
(***************************************************************************)
(* Proofs about RK0SynchMesg, for any tasks, any of which may be servers,  *)
(* and any priorities.                                                     *)
(***************************************************************************)
EXTENDS RK0SynchMesg, RK0Seqs

(***************************************************************************)
(* The inductive invariant.                                                *)
(***************************************************************************)

(* The queues of a server are its senders and the callers it has not       *)
(* accepted, each once.                                                    *)
QueueInv ==
    \A s \in Task :
        /\ IsInjective(senders[s]) /\ IsInjective(callers[s])
        /\ \A t \in Task :
             /\ t \in ToSet(senders[s]) <=> status[t] = "SENDING" /\ receiver[t] = s
             /\ t \in ToSet(callers[s]) <=> callState[t] = "QUEUED" /\ receiver[t] = s

(* The pending message is that of a sender, and there is one if anybody    *)
(* sends.                                                                  *)
PendingInv ==
    \A s \in Task :
        IF pending[s] = None
          THEN \A t \in Task : t \notin ToSet(senders[s])
          ELSE pending[s] \in ToSet(senders[s])

(* A server works for the caller whose call it accepted, given up or not.  *)
ActiveInv ==
    \A s, t \in Task :
        active[s] = t <=> callState[t] \in {"ACTIVE", "ABANDONED"} /\ receiver[t] = s

(* A server waits only while there is nothing for it to do. *)
ServerWaitInv ==
    \A s \in Task :
        /\ AwaitsMesg(s) => pending[s] = None
        /\ AwaitsCall(s) => \A t \in Task : t \notin ToSet(callers[s])

(* What t waits for, and what it is told when the wait is over.            *)
AskInv(t) ==
    /\ receiver[t] = None <=> callState[t] = "IDLE" /\ status[t] # "SENDING"
    /\ status[t] = "SENDING" => call[t] = "send" /\ callState[t] = "IDLE"
    /\ status[t] = "RECEIVING" => call[t] \in {"recv", "call", "accept"}
    /\ callState[t] \in {"QUEUED", "ACTIVE"} <=> status[t] = "RECEIVING" /\ call[t] = "call"
    /\ callState[t] = "ABANDONED" => call[t] # "send" /\ (call[t] = "call" => timeOut[t])
    /\ timeOut[t] => status[t] = "READY" /\ call[t] # "none"
    /\ t \in armed => status[t] # "READY"

SInv == /\ SynchMesgTypeOK /\ QueueInv /\ PendingInv /\ ActiveInv /\ ServerWaitInv
        /\ \A t \in Task : AskInv(t)

USE SynchMesgAssumption

(***************************************************************************)
(* What the helpers do to the queues.                                      *)
(***************************************************************************)
CallStates == {"IDLE", "QUEUED", "ACTIVE", "ABANDONED"}

Priorities == [Task -> Nat]
Pendings == [Task -> Task \cup {None}]

(* Queues of tasks; a task at most once in each. *)
Queues == [Task -> Seq(Task)]
Once(qs) == \A r \in Task : IsInjective(qs[r])

(* t is put into, or taken out of, the queue of s. *)
EnqIn(qs, s, t, prio) == [qs EXCEPT ![s] = TCBQEnqByPrio(@, t, prio)]
RemFrom(qs, s, t) == [qs EXCEPT ![s] = TCBQRem(@, t)]

(* The queues that t is put into, or taken out of. *)
LEMMA EnqEffect ==
    ASSUME NEW qs \in Queues, NEW s \in Task, NEW t \in Task, NEW prio,
           Once(qs), t \notin ToSet(qs[s])
    PROVE  /\ EnqIn(qs, s, t, prio) \in Queues
           /\ Once(EnqIn(qs, s, t, prio))
           /\ ToSet(EnqIn(qs, s, t, prio)[s]) = ToSet(qs[s]) \cup {t}
           /\ \A r \in Task \ {s} : EnqIn(qs, s, t, prio)[r] = qs[r]
<1> DEFINE q == TCBQEnqByPrio(qs[s], t, prio)
<1>1. qs[s] \in Seq(Task) /\ IsInjective(qs[s])
  BY DEF Queues, Once
<1>2. q \in Seq(Task) /\ IsInjective(q) /\ ToSet(q) = ToSet(qs[s]) \cup {t}
  BY <1>1, TCBQEnqLemma
<1>3. EnqIn(qs, s, t, prio) = [qs EXCEPT ![s] = q]
  BY DEF EnqIn
<1> HIDE DEF q
<1> QED
  BY <1>2, <1>3 DEF Queues, Once

IsWithout(new, qs, s, t) ==
    /\ new \in Queues /\ Once(new)
    /\ ToSet(new[s]) = ToSet(qs[s]) \ {t}
    /\ \A r \in Task \ {s} : new[r] = qs[r]

LEMMA RemEffect ==
    ASSUME NEW qs \in Queues, NEW s \in Task, NEW t \in Task, Once(qs)
    PROVE  IsWithout(RemFrom(qs, s, t), qs, s, t)
<1> DEFINE q == TCBQRem(qs[s], t)
<1>1. qs[s] \in Seq(Task) /\ IsInjective(qs[s])
  BY DEF Queues, Once
<1>2. /\ q \in Seq(Task) /\ IsInjective(q) /\ t \notin ToSet(q)
      /\ ToSet(q) \subseteq ToSet(qs[s]) /\ ToSet(qs[s]) \ {t} \subseteq ToSet(q)
  BY <1>1, TCBQRemLemma
<1>3. RemFrom(qs, s, t) = [qs EXCEPT ![s] = q]
  BY DEF RemFrom
<1> HIDE DEF q
<1> QED
  BY <1>2, <1>3 DEF Queues, Once, IsWithout

(* Moving a waiter neither adds nor loses one. *)
LEMMA RequeueEffect ==
    ASSUME NEW q \in Seq(Task), NEW t \in Task, NEW prio, IsInjective(q)
    PROVE  /\ Requeue(q, t, prio) \in Seq(Task)
           /\ IsInjective(Requeue(q, t, prio))
           /\ ToSet(Requeue(q, t, prio)) = ToSet(q)
<1> DEFINE rest == TCBQRem(q, t)
           r == TCBQEnqByPrio(rest, t, prio)
<1>1. CASE Contains(q, t)
  <2>1. rest \in Seq(Task) /\ IsInjective(rest) /\ ToSet(rest) = ToSet(q) \ {t}
    BY TCBQRemLemma
  <2> HIDE DEF rest
  <2>2. r \in Seq(Task) /\ IsInjective(r) /\ ToSet(r) = ToSet(rest) \cup {t}
    BY <2>1, TCBQEnqLemma
  <2>3. ToSet(r) = ToSet(q)
    BY <1>1, <2>1, <2>2, InToSet
  <2> QED
    BY <2>2, <2>3 DEF Requeue, r, rest
<1>2. CASE ~Contains(q, t)
  BY <1>2 DEF Requeue
<1> QED
  BY <1>1, <1>2

LEMMA SynchMesgPrioType ==
    ASSUME SynchMesgTypeOK, NEW s \in Task, NEW snd \in [Task -> Seq(Task)],
           NEW cll \in [Task -> Seq(Task)], NEW act, NEW actPrio \in [Task -> Nat], NEW st
    PROVE  SynchMesgPrio(s, snd, cll, act, actPrio, st) \in Nat
<1> DEFINE A == IF act[s] # None /\ st[act[s]] = "ACTIVE" THEN {actPrio[s]} ELSE {}
           H == {priority[q[1]] : q \in {snd[s], cll[s]} \ {<<>>}}
           P == {prioNominal[s]} \cup A \cup H
<1>1. A \subseteq Nat /\ prioNominal[s] \in Nat
  OBVIOUS
<1>2. ASSUME NEW q \in {snd[s], cll[s]} \ {<<>>} PROVE priority[q[1]] \in Nat
  <2>1. q \in Seq(Task) /\ q # <<>>
    OBVIOUS
  <2>2. q[1] \in Task
    BY <2>1, LenProperties, EmptySeq
  <2> QED
    BY <2>2 DEF SynchMesgTypeOK
<1>3. P \in SUBSET Nat /\ P # {}
  BY <1>1, <1>2
<1>4. Min(P) \in Nat
  BY <1>3, MinOfNats
<1> QED
  BY <1>4 DEF SynchMesgPrio

(* kSynchMesgUpdateReceiverPrio_ keeps who is in the queues. *)
LEMMA UpdateEffect ==
    ASSUME SynchMesgTypeOK, NEW s \in Task,
           NEW snd \in Queues, NEW cll \in Queues, Once(snd), Once(cll),
           NEW act, NEW actPrio, actPrio \in Priorities, NEW st,
           UpdateReceiverPrio(s, snd, cll, act, actPrio, st)
    PROVE  /\ priority' \in [Task -> Nat]
           /\ senders' \in Queues /\ callers' \in Queues
           /\ \A r \in Task :
                /\ IsInjective(senders'[r]) /\ ToSet(senders'[r]) = ToSet(snd[r])
                /\ IsInjective(callers'[r]) /\ ToSet(callers'[r]) = ToSet(cll[r])
           /\ active' = act /\ activePrio' = actPrio /\ callState' = st
<1> DEFINE p == SynchMesgPrio(s, snd, cll, act, actPrio, st)
           prio == [priority EXCEPT ![s] = p]
<1>1. p \in Nat
  BY SynchMesgPrioType DEF Queues, Priorities
<1>2. /\ priority' = prio
      /\ senders' = [r \in Task |-> Requeue(snd[r], s, prio)]
      /\ callers' = [r \in Task |-> Requeue(cll[r], s, prio)]
      /\ active' = act /\ activePrio' = actPrio /\ callState' = st
  BY DEF UpdateReceiverPrio
<1> HIDE DEF p
<1>3. priority' \in [Task -> Nat]
  BY <1>1, <1>2 DEF SynchMesgTypeOK
<1> HIDE DEF prio
<1>4. ASSUME NEW r \in Task
      PROVE  /\ senders'[r] \in Seq(Task) /\ callers'[r] \in Seq(Task)
             /\ IsInjective(senders'[r]) /\ ToSet(senders'[r]) = ToSet(snd[r])
             /\ IsInjective(callers'[r]) /\ ToSet(callers'[r]) = ToSet(cll[r])
  <2>1. senders'[r] = Requeue(snd[r], s, prio) /\ callers'[r] = Requeue(cll[r], s, prio)
    BY <1>2
  <2>2. snd[r] \in Seq(Task) /\ cll[r] \in Seq(Task) /\ IsInjective(snd[r]) /\ IsInjective(cll[r])
    BY DEF Queues, Once
  <2>3. /\ Requeue(snd[r], s, prio) \in Seq(Task) /\ IsInjective(Requeue(snd[r], s, prio))
        /\ ToSet(Requeue(snd[r], s, prio)) = ToSet(snd[r])
    BY <2>2, RequeueEffect
  <2>4. /\ Requeue(cll[r], s, prio) \in Seq(Task) /\ IsInjective(Requeue(cll[r], s, prio))
        /\ ToSet(Requeue(cll[r], s, prio)) = ToSet(cll[r])
    BY <2>2, RequeueEffect
  <2> QED
    BY <2>1, <2>3, <2>4
<1>5. senders' \in Queues /\ callers' \in Queues
  BY <1>2, <1>4 DEF Queues
<1> QED
  BY <1>2, <1>3, <1>4, <1>5

(* kSynchMesgPromoteNext_: there is a pending message if anybody sends. *)
LEMMA PromoteEffect ==
    ASSUME NEW s \in Task, NEW pend \in Pendings, NEW snd \in Queues,
           pend[s] # None => pend[s] \in ToSet(snd[s])
    PROVE  /\ PromoteNext(s, pend, snd) \in Pendings
           /\ \A r \in Task \ {s} : PromoteNext(s, pend, snd)[r] = pend[r]
           /\ IF PromoteNext(s, pend, snd)[s] = None
                THEN \A t \in Task : t \notin ToSet(snd[s])
                ELSE PromoteNext(s, pend, snd)[s] \in ToSet(snd[s])
<1>1. snd[s] \in Seq(Task) /\ pend \in [Task -> Task \cup {None}]
  BY DEF Queues, Pendings
<1>2. CASE snd[s] = <<>>
  <2>1. ToSet(snd[s]) = {}
    BY <1>2, ToSetEmpty
  <2> QED
    BY <1>1, <1>2, <2>1 DEF PromoteNext, Pendings
<1>3. CASE snd[s] # <<>>
  <2>1. snd[s][1] \in Task /\ snd[s][1] \in ToSet(snd[s])
    BY <1>1, <1>3, TailLemma
  <2> QED
    BY <1>1, <1>3, <2>1 DEF PromoteNext, Pendings
<1> QED
  BY <1>2, <1>3

(* A call that waits begins with no outcome of an earlier one. *)
LEMMA SuspendEffect ==
    ASSUME SynchMesgTypeOK, NEW t \in Task, NEW op, NEW st, NEW timed \in BOOLEAN,
           ~timeOut[t], Suspend(t, op, st, timed)
    PROVE  /\ status' = [status EXCEPT ![t] = st]
           /\ call' = [call EXCEPT ![t] = op]
           /\ armed' \subseteq armed \cup {t}
           /\ UNCHANGED timeOut
<1>1. [timeOut EXCEPT ![t] = FALSE] = timeOut
  BY DEF SynchMesgTypeOK
<1> QED
  BY <1>1 DEF Suspend

(***************************************************************************)
(* The steps that leave the queues and the calls alone.                    *)
(***************************************************************************)
LEMMA QuietInv ==
    ASSUME SInv,
           UNCHANGED <<pending, senders, callers, active, activePrio, callState, receiver, priority>>,
           \A t \in Task : status'[t] = "SENDING" <=> status[t] = "SENDING"
    PROVE  QueueInv' /\ PendingInv' /\ ActiveInv'
  BY DEF SInv, QueueInv, PendingInv, ActiveInv

LEMMA InitInv == SynchMesgInit => SInv
<1> SUFFICES ASSUME SynchMesgInit PROVE SInv
  OBVIOUS
<1>1. ToSet(<<>>) = {} /\ IsInjective(<<>>) /\ <<>> \in Seq(Task)
  BY ToSetEmpty DEF IsInjective
<1>2. SynchMesgTypeOK
  BY <1>1 DEF SynchMesgInit, SynchMesgTypeOK
<1>3. QueueInv /\ PendingInv /\ ActiveInv
  BY <1>1 DEF SynchMesgInit, QueueInv, PendingInv, ActiveInv
<1>4. ServerWaitInv /\ \A t \in Task : AskInv(t)
  BY DEF SynchMesgInit, ServerWaitInv, AskInv, AwaitsMesg, AwaitsCall
<1> QED
  BY <1>2, <1>3, <1>4 DEF SInv

LEMMA MesgInitInv ==
    ASSUME SInv, endpoint' \subseteq Server,
           UNCHANGED <<pending, senders, callers, active, activePrio>>, UNCHANGED taskVars
    PROVE  SInv'
<1>1. SynchMesgTypeOK'
  BY DEF SInv, SynchMesgTypeOK, taskVars
<1>2. QueueInv' /\ PendingInv' /\ ActiveInv'
  BY QuietInv DEF taskVars
<1>3. ServerWaitInv' /\ \A t \in Task : AskInv(t)'
  BY DEF SInv, ServerWaitInv, AskInv, AwaitsMesg, AwaitsCall, taskVars
<1> QED
  BY <1>1, <1>2, <1>3 DEF SInv

LEMMA SendDirectInv ==
    ASSUME SInv, NEW t \in Task, NEW s \in Task, SendDirect(t, s)
    PROVE  SInv'
<1>1. /\ UNCHANGED <<endpoint, pending, senders, callers, active, activePrio>>
      /\ UNCHANGED <<callState, receiver, priority, timeOut, call>>
      /\ status' = [status EXCEPT ![s] = "READY"] /\ armed' = armed \ {s}
      /\ status[s] = "RECEIVING" /\ call[s] = "recv"
  BY DEF SendDirect, Ready, AwaitsMesg, serverVars
<1>2. SynchMesgTypeOK'
  BY <1>1 DEF SInv, SynchMesgTypeOK
<1>3. QueueInv' /\ PendingInv' /\ ActiveInv'
  BY <1>1, QuietInv DEF SInv, SynchMesgTypeOK
<1>4. ServerWaitInv'
  BY <1>1 DEF SInv, SynchMesgTypeOK, ServerWaitInv, AwaitsMesg, AwaitsCall
<1>5. ASSUME NEW u \in Task PROVE AskInv(u)'
  BY <1>1 DEF SInv, SynchMesgTypeOK, AskInv
<1> QED
  BY <1>2, <1>3, <1>4, <1>5 DEF SInv

(* kSyncRecv and kSynchMesgAccept that wait. *)
LEMMA ServerBlockInv ==
    ASSUME SInv, NEW s \in Task, NEW timed \in BOOLEAN, RecvBlock(s, timed) \/ AcceptBlock(s, timed)
    PROVE  SInv'
<1>1. PICK op \in {"recv", "accept"} :
         /\ Suspend(s, op, "RECEIVING", timed) /\ ~timeOut[s]
         /\ status[s] = "READY" /\ call[s] \in {"none", "accept"}
         /\ op = "recv" => pending[s] = None
         /\ op = "accept" => callers[s] = <<>>
  BY DEF RecvBlock, AcceptBlock, Accepts, Calls, Resumes, SInv, AskInv
<1>2. /\ UNCHANGED <<endpoint, pending, senders, callers, active, activePrio>>
      /\ UNCHANGED <<callState, receiver, priority>>
  BY DEF RecvBlock, AcceptBlock, serverVars
<1>3. /\ status' = [status EXCEPT ![s] = "RECEIVING"] /\ call' = [call EXCEPT ![s] = op]
      /\ armed' \subseteq armed \cup {s} /\ UNCHANGED timeOut
  BY <1>1, SuspendEffect DEF SInv
<1>4. SynchMesgTypeOK'
  BY <1>2, <1>3 DEF SInv, SynchMesgTypeOK
<1>5. QueueInv' /\ PendingInv' /\ ActiveInv'
  BY <1>1, <1>2, <1>3, QuietInv DEF SInv, SynchMesgTypeOK
<1>6. ServerWaitInv'
  BY <1>1, <1>2, <1>3, ToSetEmpty DEF SInv, SynchMesgTypeOK, ServerWaitInv, AwaitsMesg, AwaitsCall
<1>7. ASSUME NEW u \in Task PROVE AskInv(u)'
  BY <1>1, <1>2, <1>3 DEF SInv, SynchMesgTypeOK, AskInv
<1> QED
  BY <1>4, <1>5, <1>6, <1>7 DEF SInv

(* A call returns, with its outcome. *)
LEMMA ReturnInv ==
    ASSUME SInv, NEW t \in Task, Success(t) \/ Timeout(t)
    PROVE  SInv'
<1>1. /\ UNCHANGED <<endpoint, pending, senders, callers, active, activePrio>>
      /\ UNCHANGED <<callState, receiver, priority, status, armed>>
      /\ status[t] = "READY" /\ call' = [call EXCEPT ![t] = "none"]
  BY DEF Success, Timeout, Resumes, Return, serverVars
<1>2. timeOut' = [timeOut EXCEPT ![t] = FALSE]
  BY DEF Success, Timeout, SInv, SynchMesgTypeOK
<1>3. SynchMesgTypeOK'
  BY <1>1, <1>2 DEF SInv, SynchMesgTypeOK
<1>4. QueueInv' /\ PendingInv' /\ ActiveInv'
  BY <1>1, QuietInv
<1>5. ServerWaitInv'
  BY <1>1 DEF SInv, SynchMesgTypeOK, ServerWaitInv, AwaitsMesg, AwaitsCall
<1>6. ASSUME NEW u \in Task PROVE AskInv(u)'
  BY <1>1, <1>2 DEF SInv, SynchMesgTypeOK, AskInv
<1> QED
  BY <1>3, <1>4, <1>5, <1>6 DEF SInv

(***************************************************************************)
(* The steps that change a queue or a call.                                *)
(***************************************************************************)

(* Whoever may ask is asking nobody, and has its last answer. *)
LEMMA AskerIdle ==
    ASSUME SInv, NEW t \in Task, NEW s \in Task, MayAsk(t, s)
    PROVE  /\ s # t /\ status[t] = "READY" /\ call[t] = "none" /\ ~timeOut[t]
           /\ receiver[t] = None /\ callState[t] = "IDLE"
           /\ \A r \in Task : t \notin ToSet(senders[r]) /\ t \notin ToSet(callers[r])
           /\ \A r \in Task : active[r] # t
  BY DEF MayAsk, Calls, SInv, AskInv, QueueInv, ActiveInv

(* The types of the variables, one by one. *)
LEMMA Types ==
    ASSUME SInv
    PROVE  /\ SynchMesgTypeOK
           /\ pending \in Pendings
           /\ senders \in Queues /\ callers \in Queues /\ Once(senders) /\ Once(callers)
           /\ active \in [Task -> Task \cup {None}]
           /\ activePrio \in Priorities
           /\ callState \in [Task -> CallStates]
           /\ receiver \in [Task -> Task \cup {None}]
           /\ status \in [Task -> {"READY", "SENDING", "RECEIVING"}]
           /\ timeOut \in [Task -> BOOLEAN]
           /\ call \in [Task -> {"none", "send", "recv", "call", "accept"}]
  BY DEF SInv, SynchMesgTypeOK, QueueInv, CallStates, Pendings, Queues, Once, Priorities

LEMMA SendBlockInv ==
    ASSUME SInv, NEW t \in Task, NEW s \in Task, NEW timed \in BOOLEAN, SendBlock(t, s, timed)
    PROVE  SInv'
<1>1. /\ s # t /\ status[t] = "READY" /\ call[t] = "none" /\ ~timeOut[t]
      /\ receiver[t] = None /\ callState[t] = "IDLE"
      /\ \A r \in Task : t \notin ToSet(senders[r]) /\ t \notin ToSet(callers[r])
      /\ \A r \in Task : active[r] # t
  <2>1. MayAsk(t, s)
    BY DEF SendBlock
  <2> QED
    BY <2>1, AskerIdle
<1>2. PICK snd :
      /\ snd = EnqIn(senders, s, t, priority)
      /\ receiver' = [receiver EXCEPT ![t] = s]
      /\ Suspend(t, "send", "SENDING", timed)
      /\ pending' = PromoteNext(s, pending, snd)
      /\ UpdateReceiverPrio(s, snd, callers, active, activePrio, callState)
      /\ UNCHANGED endpoint
      /\ ~(AwaitsMesg(s) /\ pending[s] = None)
  BY DEF SendBlock, EnqIn
<1>3. /\ snd \in Queues /\ Once(snd)
      /\ ToSet(snd[s]) = ToSet(senders[s]) \cup {t}
      /\ \A r \in Task \ {s} : snd[r] = senders[r]
  <2>1. senders \in Queues /\ Once(senders)
    BY Types
  <2>2. t \notin ToSet(senders[s]) /\ snd = EnqIn(senders, s, t, priority)
    BY <1>1, <1>2
  <2> QED
    BY <2>1, <2>2, EnqEffect
<1>5. /\ status' = [status EXCEPT ![t] = "SENDING"] /\ call' = [call EXCEPT ![t] = "send"]
      /\ armed' \subseteq armed \cup {t} /\ UNCHANGED timeOut
  BY <1>1, <1>2, SuspendEffect, Types
<1>6. /\ priority' \in [Task -> Nat]
      /\ senders' \in Queues /\ callers' \in Queues
      /\ \A r \in Task :
           /\ IsInjective(senders'[r]) /\ ToSet(senders'[r]) = ToSet(snd[r])
           /\ IsInjective(callers'[r]) /\ ToSet(callers'[r]) = ToSet(callers[r])
      /\ UNCHANGED <<active, activePrio, callState>>
  <2>1. SynchMesgTypeOK /\ callers \in Queues /\ activePrio \in Priorities
    BY Types
  <2>2. Once(snd) /\ Once(callers)
    BY <1>3, Types
  <2>3. UpdateReceiverPrio(s, snd, callers, active, activePrio, callState)
    BY <1>2
  <2> QED
    BY <1>3, <2>1, <2>2, <2>3, UpdateEffect
<1>7. /\ pending' \in Pendings
      /\ \A r \in Task \ {s} : pending'[r] = pending[r]
      /\ IF pending'[s] = None THEN \A u \in Task : u \notin ToSet(snd[s])
                               ELSE pending'[s] \in ToSet(snd[s])
  <2>1. pending \in Pendings
    BY Types
  <2>2. pending[s] # None => pending[s] \in ToSet(snd[s])
    BY <1>3 DEF SInv, PendingInv
  <2>3. pending' = PromoteNext(s, pending, snd)
    BY <1>2
  <2> QED
    BY <1>3, <2>1, <2>2, <2>3, PromoteEffect
<1>8. SynchMesgTypeOK'
  <2>1. /\ receiver' \in [Task -> Task \cup {None}]
        /\ status' \in [Task -> {"READY", "SENDING", "RECEIVING"}]
        /\ call' \in [Task -> {"none", "send", "recv", "call", "accept"}]
        /\ armed' \subseteq Task /\ endpoint' \subseteq Server
    BY <1>2, <1>5 DEF SInv, SynchMesgTypeOK
  <2> QED
    BY <1>5, <1>6, <1>7, <2>1 DEF SInv, SynchMesgTypeOK, Queues, Pendings
<1>9. QueueInv'
  <2>1. ASSUME NEW r \in Task, NEW u \in Task
        PROVE  /\ u \in ToSet(senders'[r]) <=> status'[u] = "SENDING" /\ receiver'[u] = r
               /\ u \in ToSet(callers'[r]) <=> callState'[u] = "QUEUED" /\ receiver'[u] = r
    <3>1. /\ u \in ToSet(senders[r]) <=> status[u] = "SENDING" /\ receiver[u] = r
          /\ u \in ToSet(callers[r]) <=> callState[u] = "QUEUED" /\ receiver[u] = r
      BY DEF SInv, QueueInv
    <3>2. ToSet(senders'[r]) = ToSet(snd[r]) /\ ToSet(callers'[r]) = ToSet(callers[r])
      BY <1>6
    <3>3. u \in ToSet(snd[r]) <=> u \in ToSet(senders[r]) \/ (r = s /\ u = t)
      BY <1>3
    <3>4. CASE u = t
      <4>1. status'[u] = "SENDING" /\ receiver'[u] = s /\ callState'[u] = "IDLE"
        BY <1>1, <1>2, <1>5, <1>6, <3>4, Types
      <4> QED
        BY <1>1, <3>1, <3>2, <3>3, <3>4, <4>1
    <3>5. CASE u # t
      <4>1. status'[u] = status[u] /\ receiver'[u] = receiver[u] /\ callState'[u] = callState[u]
        BY <1>2, <1>5, <1>6, <3>5, Types
      <4> QED
        BY <3>1, <3>2, <3>3, <3>5, <4>1
    <3> QED
      BY <3>4, <3>5
  <2> QED
    BY <1>6, <2>1 DEF QueueInv
<1>10. PendingInv'
  <2> SUFFICES ASSUME NEW r \in Task
               PROVE  IF pending'[r] = None THEN \A u \in Task : u \notin ToSet(senders'[r])
                                            ELSE pending'[r] \in ToSet(senders'[r])
    BY DEF PendingInv
  <2>1. ToSet(senders'[r]) = ToSet(snd[r])
    BY <1>6
  <2> QED
    BY <1>3, <1>7, <2>1 DEF SInv, PendingInv
<1>11. ActiveInv'
  <2> SUFFICES ASSUME NEW r \in Task, NEW u \in Task
               PROVE  active'[r] = u <=> callState'[u] \in {"ACTIVE", "ABANDONED"} /\ receiver'[u] = r
    BY DEF ActiveInv
  <2>1. active'[r] = active[r] /\ callState'[u] = callState[u]
        /\ (u # t => receiver'[u] = receiver[u])
    BY <1>2, <1>6, Types
  <2> QED
    BY <1>1, <2>1 DEF SInv, ActiveInv
<1>12. ServerWaitInv'
  <2> SUFFICES ASSUME NEW r \in Task
               PROVE  /\ AwaitsMesg(r)' => pending'[r] = None
                      /\ AwaitsCall(r)' => \A u \in Task : u \notin ToSet(callers'[r])
    BY DEF ServerWaitInv
  <2>1. r # t => status'[r] = status[r] /\ call'[r] = call[r]
    BY <1>5, Types
  <2>2. status'[t] = "SENDING"
    BY <1>5, Types
  <2>3. ToSet(callers'[r]) = ToSet(callers[r])
    BY <1>6
  <2>4. AwaitsMesg(r)' => r # t /\ AwaitsMesg(r)
    BY <2>1, <2>2 DEF AwaitsMesg
  <2>5. AwaitsCall(r)' => r # t /\ AwaitsCall(r)
    BY <2>1, <2>2 DEF AwaitsCall
  <2> QED
    BY <1>2, <1>7, <2>3, <2>4, <2>5 DEF SInv, ServerWaitInv
<1>13. ASSUME NEW u \in Task PROVE AskInv(u)'
  <2>1. CASE u = t
    <3>1. /\ receiver'[u] = s /\ status'[u] = "SENDING" /\ call'[u] = "send"
          /\ callState'[u] = "IDLE" /\ ~timeOut'[u]
      BY <1>1, <1>2, <1>5, <1>6, <2>1, Types
    <3> QED
      BY <3>1 DEF AskInv
  <2>2. CASE u # t
    <3>1. /\ receiver'[u] = receiver[u] /\ status'[u] = status[u] /\ call'[u] = call[u]
          /\ callState'[u] = callState[u] /\ timeOut'[u] = timeOut[u]
          /\ (u \in armed' => u \in armed)
      BY <1>2, <1>5, <1>6, <2>2, Types
    <3>2. AskInv(u)
      BY DEF SInv
    <3> QED
      BY <3>1, <3>2 DEF AskInv
  <2> QED
    BY <2>1, <2>2
<1> QED
  BY <1>8, <1>9, <1>10, <1>11, <1>12, <1>13 DEF SInv

(* A sender is served (kSynchMesgConsumePendingSend_), or gives up.        *)
LEMMA SenderLeavesInv ==
    ASSUME SInv, NEW t \in Task, NEW s \in Task, t \in ToSet(senders[s]), SenderLeaves(t, s),
           UNCHANGED <<endpoint, call>>,
           UNCHANGED timeOut \/ timeOut' = [timeOut EXCEPT ![t] = TRUE]
    PROVE  SInv'
<1>1. /\ status[t] = "SENDING" /\ receiver[t] = s /\ callState[t] = "IDLE" /\ call[t] = "send"
      /\ \A r \in Task : active[r] # t /\ t \notin ToSet(callers[r])
      /\ \A r \in Task \ {s} : t \notin ToSet(senders[r])
  BY DEF SInv, QueueInv, AskInv, ActiveInv
<1>2. PICK snd, pend :
      /\ snd = RemFrom(senders, s, t)
      /\ pend = IF pending[s] = t THEN [pending EXCEPT ![s] = None] ELSE pending
      /\ receiver' = [receiver EXCEPT ![t] = None]
      /\ pending' = PromoteNext(s, pend, snd)
      /\ UpdateReceiverPrio(s, snd, callers, active, activePrio, callState)
      /\ status' = [status EXCEPT ![t] = "READY"] /\ armed' = armed \ {t}
  BY DEF SenderLeaves, Ready, RemFrom
<1>3. /\ snd \in Queues /\ Once(snd)
      /\ ToSet(snd[s]) = ToSet(senders[s]) \ {t}
      /\ \A r \in Task \ {s} : snd[r] = senders[r]
  <2>1. senders \in Queues /\ Once(senders)
    BY Types
  <2>2. IsWithout(RemFrom(senders, s, t), senders, s, t)
    BY <2>1, RemEffect
  <2> QED
    BY <1>2, <2>2 DEF IsWithout
<1>4. /\ priority' \in [Task -> Nat]
      /\ senders' \in Queues /\ callers' \in Queues
      /\ \A r \in Task :
           /\ IsInjective(senders'[r]) /\ ToSet(senders'[r]) = ToSet(snd[r])
           /\ IsInjective(callers'[r]) /\ ToSet(callers'[r]) = ToSet(callers[r])
      /\ UNCHANGED <<active, activePrio, callState>>
  BY <1>2, <1>3, UpdateEffect, Types
<1>5. /\ pend \in Pendings
      /\ \A r \in Task \ {s} : pend[r] = pending[r]
      /\ pend[s] # None => pend[s] \in ToSet(snd[s])
  <2>1. pending \in [Task -> Task \cup {None}]
    BY Types DEF Pendings
  <2>2. pending[s] # None => pending[s] \in ToSet(senders[s])
    BY DEF SInv, PendingInv
  <2> QED
    BY <1>2, <1>3, <2>1, <2>2 DEF Pendings
<1>6. /\ pending' \in Pendings
      /\ \A r \in Task \ {s} : pending'[r] = pending[r]
      /\ IF pending'[s] = None THEN \A u \in Task : u \notin ToSet(snd[s])
                               ELSE pending'[s] \in ToSet(snd[s])
  <2>1. pending' = PromoteNext(s, pend, snd)
    BY <1>2
  <2> QED
    BY <1>3, <1>5, <2>1, PromoteEffect
<1>7. timeOut' \in [Task -> BOOLEAN] /\ \A u \in Task \ {t} : timeOut'[u] = timeOut[u]
  BY Types
<1>8. SynchMesgTypeOK'
  <2>1. /\ receiver' \in [Task -> Task \cup {None}]
        /\ status' \in [Task -> {"READY", "SENDING", "RECEIVING"}]
        /\ armed' \subseteq Task
    BY <1>2 DEF SInv, SynchMesgTypeOK
  <2> QED
    BY <1>4, <1>6, <1>7, <2>1 DEF SInv, SynchMesgTypeOK, Queues, Pendings
<1>9. ASSUME NEW u \in Task
      PROVE  /\ u = t => receiver'[u] = None /\ status'[u] = "READY"
             /\ u # t => receiver'[u] = receiver[u] /\ status'[u] = status[u]
             /\ callState'[u] = callState[u] /\ call'[u] = call[u]
  BY <1>2, <1>4, Types
<1>10. QueueInv'
  <2>1. ASSUME NEW r \in Task, NEW u \in Task
        PROVE  /\ u \in ToSet(senders'[r]) <=> status'[u] = "SENDING" /\ receiver'[u] = r
               /\ u \in ToSet(callers'[r]) <=> callState'[u] = "QUEUED" /\ receiver'[u] = r
    <3>1. /\ u \in ToSet(senders[r]) <=> status[u] = "SENDING" /\ receiver[u] = r
          /\ u \in ToSet(callers[r]) <=> callState[u] = "QUEUED" /\ receiver[u] = r
      BY DEF SInv, QueueInv
    <3>2. ToSet(senders'[r]) = ToSet(snd[r]) /\ ToSet(callers'[r]) = ToSet(callers[r])
      BY <1>4
    <3>3. u \in ToSet(snd[r]) <=> u \in ToSet(senders[r]) /\ u # t
      BY <1>1, <1>3
    <3> QED
      BY <1>1, <1>9, <3>1, <3>2, <3>3
  <2> QED
    BY <1>4, <2>1 DEF QueueInv
<1>11. PendingInv'
  <2> SUFFICES ASSUME NEW r \in Task
               PROVE  IF pending'[r] = None THEN \A u \in Task : u \notin ToSet(senders'[r])
                                            ELSE pending'[r] \in ToSet(senders'[r])
    BY DEF PendingInv
  <2>1. ToSet(senders'[r]) = ToSet(snd[r])
    BY <1>4
  <2> QED
    BY <1>3, <1>6, <2>1 DEF SInv, PendingInv
<1>12. ActiveInv'
  <2> SUFFICES ASSUME NEW r \in Task, NEW u \in Task
               PROVE  active'[r] = u <=> callState'[u] \in {"ACTIVE", "ABANDONED"} /\ receiver'[u] = r
    BY DEF ActiveInv
  <2>1. active'[r] = active[r]
    BY <1>4
  <2> QED
    BY <1>1, <1>9, <2>1 DEF SInv, ActiveInv
<1>13. ServerWaitInv'
  <2> SUFFICES ASSUME NEW r \in Task
               PROVE  /\ AwaitsMesg(r)' => pending'[r] = None
                      /\ AwaitsCall(r)' => \A u \in Task : u \notin ToSet(callers'[r])
    BY DEF ServerWaitInv
  <2>1. AwaitsMesg(r)' => AwaitsMesg(r)
    BY <1>9 DEF AwaitsMesg
  <2>2. AwaitsCall(r)' => AwaitsCall(r)
    BY <1>9 DEF AwaitsCall
  <2>3. AwaitsMesg(r) => r # s
    <3>1. AwaitsMesg(s) => pending[s] = None
      BY DEF SInv, ServerWaitInv
    <3>2. pending[s] # None
      BY DEF SInv, PendingInv
    <3> QED
      BY <3>1, <3>2
  <2>4. ToSet(callers'[r]) = ToSet(callers[r])
    BY <1>4
  <2> QED
    BY <1>6, <2>1, <2>2, <2>3, <2>4 DEF SInv, ServerWaitInv
<1>14. ASSUME NEW u \in Task PROVE AskInv(u)'
  <2>1. AskInv(u) /\ (u \in armed' => u \in armed /\ u # t)
    BY <1>2 DEF SInv
  <2>2. CASE u = t
    BY <1>1, <1>9, <2>1, <2>2 DEF AskInv
  <2>3. CASE u # t
    BY <1>7, <1>9, <2>1, <2>3 DEF AskInv
  <2> QED
    BY <2>2, <2>3
<1> QED
  BY <1>8, <1>10, <1>11, <1>12, <1>13, <1>14 DEF SInv

(***************************************************************************)
(* Calls: the steps that leave the senders and their messages alone.       *)
(***************************************************************************)
CallStep(s, cll, act, actPrio, st) ==
    /\ UpdateReceiverPrio(s, senders, cll, act, actPrio, st)
    /\ UNCHANGED <<endpoint, pending>>

TaskTypes ==
    /\ receiver \in [Task -> Task \cup {None}]
    /\ status \in [Task -> {"READY", "SENDING", "RECEIVING"}]
    /\ timeOut \in [Task -> BOOLEAN]
    /\ call \in [Task -> {"none", "send", "recv", "call", "accept"}]
    /\ armed \subseteq Task

SendersStay ==
    \A u \in Task : /\ status'[u] = "SENDING" <=> status[u] = "SENDING"
                    /\ status[u] = "SENDING" => receiver'[u] = receiver[u]

(* A caller is where its state says. *)
CallLinks(cll, act, st, recv) ==
    \A r \in Task, u \in Task :
        /\ u \in ToSet(cll[r]) <=> st[u] = "QUEUED" /\ recv[u] = r
        /\ act[r] = u <=> st[u] \in {"ACTIVE", "ABANDONED"} /\ recv[u] = r

LEMMA CallStepInv ==
    ASSUME SInv, NEW s \in Task, NEW cll \in Queues, Once(cll), NEW act \in Pendings,
           NEW actPrio \in Priorities, NEW st, st \in [Task -> CallStates],
           CallStep(s, cll, act, actPrio, st),
           TaskTypes', SendersStay, CallLinks(cll, act, st, receiver')
    PROVE  /\ SynchMesgTypeOK' /\ QueueInv' /\ PendingInv' /\ ActiveInv'
           /\ \A r \in Task : ToSet(callers'[r]) = ToSet(cll[r])
           /\ active' = act /\ callState' = st
<1>1. /\ priority' \in [Task -> Nat]
      /\ senders' \in Queues /\ callers' \in Queues
      /\ \A r \in Task :
           /\ IsInjective(senders'[r]) /\ ToSet(senders'[r]) = ToSet(senders[r])
           /\ IsInjective(callers'[r]) /\ ToSet(callers'[r]) = ToSet(cll[r])
      /\ active' = act /\ activePrio' = actPrio /\ callState' = st
  <2>1. SynchMesgTypeOK /\ senders \in Queues /\ Once(senders)
    BY Types
  <2>2. UpdateReceiverPrio(s, senders, cll, act, actPrio, st)
    BY DEF CallStep
  <2> QED
    BY <2>1, <2>2, UpdateEffect
<1>2. endpoint' = endpoint /\ pending' = pending
  BY DEF CallStep
<1>3. SynchMesgTypeOK'
  BY <1>1, <1>2 DEF SInv, SynchMesgTypeOK, Queues, Pendings, Priorities, CallStates,
    TaskTypes
<1>4. QueueInv'
  <2>1. ASSUME NEW r \in Task, NEW u \in Task
        PROVE  /\ u \in ToSet(senders'[r]) <=> status'[u] = "SENDING" /\ receiver'[u] = r
               /\ u \in ToSet(callers'[r]) <=> callState'[u] = "QUEUED" /\ receiver'[u] = r
    <3>1. u \in ToSet(senders[r]) <=> status[u] = "SENDING" /\ receiver[u] = r
      BY DEF SInv, QueueInv
    <3> QED
      BY <1>1, <3>1 DEF SendersStay, CallLinks
  <2> QED
    BY <1>1, <2>1 DEF QueueInv
<1>5. PendingInv'
  BY <1>1, <1>2 DEF SInv, PendingInv
<1>6. ActiveInv'
  BY <1>1 DEF ActiveInv, CallLinks
<1> QED
  BY <1>1, <1>3, <1>4, <1>5, <1>6

LEMMA CallInv ==
    ASSUME SInv, NEW t \in Task, NEW s \in Task, NEW timed \in BOOLEAN, Call(t, s, timed)
    PROVE  SInv'
<1>1. /\ s # t /\ status[t] = "READY" /\ call[t] = "none" /\ ~timeOut[t]
      /\ receiver[t] = None /\ callState[t] = "IDLE"
      /\ \A r \in Task : t \notin ToSet(senders[r]) /\ t \notin ToSet(callers[r])
      /\ \A r \in Task : active[r] # t
  <2>1. MayAsk(t, s)
    BY DEF Call
  <2> QED
    BY <2>1, AskerIdle
<1>2. PICK cll, st :
      /\ cll = EnqIn(callers, s, t, priority)
      /\ st = [callState EXCEPT ![t] = "QUEUED"]
      /\ CallStep(s, cll, active, activePrio, st)
  BY DEF Call, EnqIn, CallStep
<1>3. /\ receiver' = [receiver EXCEPT ![t] = s]
      /\ status' = [status EXCEPT ![t] = "RECEIVING",
                                  ![s] = IF AwaitsCall(s) THEN "READY" ELSE @]
      /\ call' = [call EXCEPT ![t] = "call"]
      /\ armed' \subseteq armed \cup {t}
      /\ AwaitsCall(s) => s \notin armed'
  BY <1>1 DEF Call
<1>4. timeOut' = timeOut
  BY <1>1, Types DEF Call
<1>5. /\ cll \in Queues /\ Once(cll)
      /\ ToSet(cll[s]) = ToSet(callers[s]) \cup {t}
      /\ \A r \in Task \ {s} : cll[r] = callers[r]
  <2>1. callers \in Queues /\ Once(callers)
    BY Types
  <2>2. t \notin ToSet(callers[s])
    BY <1>1
  <2> QED
    BY <1>2, <2>1, <2>2, EnqEffect
<1>6. ASSUME NEW u \in Task
      PROVE  /\ u = t => receiver'[u] = s /\ status'[u] = "RECEIVING" /\ call'[u] = "call"
                         /\ st[u] = "QUEUED"
             /\ u # t => receiver'[u] = receiver[u] /\ call'[u] = call[u] /\ st[u] = callState[u]
             /\ u \notin {t, s} => status'[u] = status[u]
             /\ u = s => status'[u] = IF AwaitsCall(s) THEN "READY" ELSE status[u]
  BY <1>1, <1>2, <1>3, Types
<1>7. /\ SynchMesgTypeOK' /\ QueueInv' /\ PendingInv' /\ ActiveInv'
      /\ \A r \in Task : ToSet(callers'[r]) = ToSet(cll[r])
      /\ active' = active /\ callState' = st
  <2>1. active \in Pendings /\ activePrio \in Priorities
    BY Types DEF Pendings
  <2>2. st \in [Task -> CallStates]
    BY <1>2, Types DEF CallStates
  <2>3. TaskTypes'
    <3>1. armed' \subseteq Task
      BY <1>3 DEF SInv, SynchMesgTypeOK
    <3> QED
      BY <1>3, <1>4, <3>1, Types DEF TaskTypes
  <2>5. SendersStay
    BY <1>1, <1>6 DEF AwaitsCall, SendersStay
  <2>6. ASSUME NEW r \in Task, NEW u \in Task
        PROVE  /\ u \in ToSet(cll[r]) <=> st[u] = "QUEUED" /\ receiver'[u] = r
               /\ active[r] = u <=> st[u] \in {"ACTIVE", "ABANDONED"} /\ receiver'[u] = r
    <3>1. /\ u \in ToSet(callers[r]) <=> callState[u] = "QUEUED" /\ receiver[u] = r
          /\ active[r] = u <=> callState[u] \in {"ACTIVE", "ABANDONED"} /\ receiver[u] = r
      BY DEF SInv, QueueInv, ActiveInv
    <3> QED
      BY <1>1, <1>5, <1>6, <3>1
  <2>7. CallLinks(cll, active, st, receiver')
    BY <2>6 DEF CallLinks
  <2>8. CallStep(s, cll, active, activePrio, st)
    BY <1>2
  <2> QED
    BY <1>5, <2>1, <2>2, <2>3, <2>5, <2>7, <2>8, CallStepInv
<1>8. ServerWaitInv'
  <2> SUFFICES ASSUME NEW r \in Task
               PROVE  /\ AwaitsMesg(r)' => pending'[r] = None
                      /\ AwaitsCall(r)' => \A u \in Task : u \notin ToSet(callers'[r])
    BY DEF ServerWaitInv
  <2>1. pending' = pending
    BY <1>2 DEF CallStep
  <2>2. AwaitsMesg(r)' => AwaitsMesg(r)
    BY <1>6 DEF AwaitsMesg, AwaitsCall
  <2>3. AwaitsCall(r)' => AwaitsCall(r) /\ r # s
    BY <1>1, <1>6 DEF AwaitsCall
  <2> QED
    BY <1>5, <1>7, <2>1, <2>2, <2>3 DEF SInv, ServerWaitInv
<1>9. ASSUME NEW u \in Task PROVE AskInv(u)'
  <2>1. AskInv(u) /\ timeOut'[u] = timeOut[u] /\ callState'[u] = st[u]
        /\ (u \in armed' => u \in armed \/ u = t)
    BY <1>3, <1>4, <1>7 DEF SInv
  <2>2. CASE u = t
    BY <1>1, <1>6, <2>1, <2>2, SynchMesgAssumption DEF AskInv
  <2>3. CASE u # t /\ u # s
    BY <1>6, <2>1, <2>3 DEF AskInv
  <2>4. CASE u = s /\ AwaitsCall(s)
    <3>1. s # t /\ s \notin armed'
      BY <1>1, <1>3, <2>4
    <3>2. status'[s] = "READY"
      BY <1>6, <2>4
    <3>3. status[s] = "RECEIVING" /\ call[s] = "accept"
      BY <2>4 DEF AwaitsCall
    <3> QED
      BY <1>6, <2>1, <2>4, <3>1, <3>2, <3>3 DEF AskInv
  <2>5. CASE u = s /\ ~AwaitsCall(s)
    <3>1. u # t /\ status'[u] = status[u]
      BY <1>1, <1>6, <2>5
    <3> QED
      BY <1>6, <2>1, <3>1 DEF AskInv
  <2> QED
    BY <2>2, <2>3, <2>4, <2>5
<1> QED
  BY <1>7, <1>8, <1>9 DEF SInv

LEMMA AcceptTakeInv ==
    ASSUME SInv, NEW s \in Task, AcceptTake(s)
    PROVE  SInv'
<1>1. PICK t, cll, act, actPrio, st :
      /\ t = Head(callers[s])
      /\ cll = [callers EXCEPT ![s] = Tail(@)]
      /\ act = [active EXCEPT ![s] = t]
      /\ actPrio = [activePrio EXCEPT ![s] = priority[t]]
      /\ st = [callState EXCEPT ![t] = "ACTIVE"]
      /\ CallStep(s, cll, act, actPrio, st)
  BY DEF AcceptTake, CallStep
<1>2. /\ callers[s] # <<>> /\ active[s] = None /\ ~timeOut[s] /\ status[s] = "READY"
      /\ call[s] \in {"none", "accept"}
      /\ call' = [call EXCEPT ![s] = "none"]
      /\ UNCHANGED <<receiver, status, armed, timeOut>>
  BY DEF AcceptTake, Accepts, Calls, Resumes, Return
<1>3. /\ t \in Task /\ t \in ToSet(callers[s]) /\ Tail(callers[s]) \in Seq(Task)
      /\ IsInjective(Tail(callers[s]))
      /\ ToSet(Tail(callers[s])) = ToSet(callers[s]) \ {t}
  <2>1. callers[s] \in Seq(Task) /\ IsInjective(callers[s])
    BY Types DEF Queues, Once
  <2> QED
    BY <1>1, <1>2, <2>1, TailLemma
<1>4. /\ cll \in Queues /\ Once(cll)
      /\ ToSet(cll[s]) = ToSet(callers[s]) \ {t}
      /\ \A r \in Task \ {s} : cll[r] = callers[r]
  <2>1. callers \in Queues /\ Once(callers)
    BY Types
  <2>2. cll[s] = Tail(callers[s]) /\ \A r \in Task \ {s} : cll[r] = callers[r]
    BY <1>1, <2>1 DEF Queues
  <2> QED
    BY <1>1, <1>3, <2>1, <2>2 DEF Queues, Once
<1>5. /\ callState[t] = "QUEUED" /\ receiver[t] = s
      /\ status[t] = "RECEIVING" /\ call[t] = "call" /\ t # s
      /\ \A r \in Task : active[r] # t
  <2>1. callState[t] = "QUEUED" /\ receiver[t] = s
    BY <1>3 DEF SInv, QueueInv
  <2> QED
    BY <1>2, <1>3, <2>1 DEF SInv, AskInv, ActiveInv
<1>6. ASSUME NEW u \in Task
      PROVE  /\ u = t => st[u] = "ACTIVE"
             /\ u # t => st[u] = callState[u]
             /\ u = s => call'[u] = "none" /\ act[u] = t
             /\ u # s => call'[u] = call[u] /\ act[u] = active[u]
             /\ receiver'[u] = receiver[u] /\ status'[u] = status[u] /\ timeOut'[u] = timeOut[u]
  BY <1>1, <1>2, <1>3, Types
<1>7. /\ SynchMesgTypeOK' /\ QueueInv' /\ PendingInv' /\ ActiveInv'
      /\ \A r \in Task : ToSet(callers'[r]) = ToSet(cll[r])
      /\ active' = act /\ callState' = st
  <2>1. act \in Pendings /\ actPrio \in Priorities
    BY <1>1, <1>3, Types DEF Pendings, Priorities, SynchMesgTypeOK
  <2>2. st \in [Task -> CallStates]
    BY <1>1, Types DEF CallStates
  <2>3. TaskTypes'
    <3>1. armed' \subseteq Task
      BY <1>2 DEF SInv, SynchMesgTypeOK
    <3> QED
      BY <1>2, <3>1, Types DEF TaskTypes
  <2>4. SendersStay
    BY <1>2 DEF SendersStay
  <2>5. ASSUME NEW r \in Task, NEW u \in Task
        PROVE  /\ u \in ToSet(cll[r]) <=> st[u] = "QUEUED" /\ receiver'[u] = r
               /\ act[r] = u <=> st[u] \in {"ACTIVE", "ABANDONED"} /\ receiver'[u] = r
    <3>1. /\ u \in ToSet(callers[r]) <=> callState[u] = "QUEUED" /\ receiver[u] = r
          /\ active[r] = u <=> callState[u] \in {"ACTIVE", "ABANDONED"} /\ receiver[u] = r
      BY DEF SInv, QueueInv, ActiveInv
    <3>2. CASE u = t
      BY <1>3, <1>4, <1>5, <1>6, <3>1, <3>2
    <3>3. CASE u # t
      BY <1>2, <1>4, <1>6, <3>1, <3>3
    <3> QED
      BY <3>2, <3>3
  <2>6. CallLinks(cll, act, st, receiver')
    BY <2>5 DEF CallLinks
  <2>7. CallStep(s, cll, act, actPrio, st)
    BY <1>1
  <2> QED
    BY <1>4, <2>1, <2>2, <2>3, <2>4, <2>6, <2>7, CallStepInv
<1>8. ServerWaitInv'
  <2> SUFFICES ASSUME NEW r \in Task
               PROVE  /\ AwaitsMesg(r)' => pending'[r] = None
                      /\ AwaitsCall(r)' => \A u \in Task : u \notin ToSet(callers'[r])
    BY DEF ServerWaitInv
  <2>1. pending' = pending
    BY <1>1 DEF CallStep
  <2>2. AwaitsMesg(r)' => AwaitsMesg(r)
    BY <1>2, <1>6 DEF AwaitsMesg
  <2>3. AwaitsCall(r)' => AwaitsCall(r)
    BY <1>2, <1>6 DEF AwaitsCall
  <2> QED
    BY <1>4, <1>7, <2>1, <2>2, <2>3 DEF SInv, ServerWaitInv
<1>9. ASSUME NEW u \in Task PROVE AskInv(u)'
  <2>1. AskInv(u) /\ callState'[u] = st[u] /\ (u \in armed' <=> u \in armed)
    BY <1>2, <1>7 DEF SInv
  <2>2. CASE u = t
    BY <1>5, <1>6, <2>1, <2>2 DEF AskInv
  <2>3. CASE u # t
    BY <1>2, <1>5, <1>6, <2>1, <2>3 DEF AskInv
  <2> QED
    BY <2>2, <2>3
<1> QED
  BY <1>7, <1>8, <1>9 DEF SInv

LEMMA ReplyInv ==
    ASSUME SInv, NEW s \in Task, Reply(s)
    PROVE  SInv'
<1>1. PICK t, act, actPrio, st :
      /\ t = active[s]
      /\ act = [active EXCEPT ![s] = None]
      /\ actPrio = [activePrio EXCEPT ![s] = prioNominal[s]]
      /\ st = [callState EXCEPT ![t] = "IDLE"]
      /\ CallStep(s, callers, act, actPrio, st)
  BY DEF Reply, CallStep
<1>2. /\ t # None /\ receiver[t] = s /\ callState[t] \in {"ACTIVE", "ABANDONED"}
      /\ receiver' = [receiver EXCEPT ![t] = None]
      /\ IF callState[t] = "ACTIVE"
           THEN status' = [status EXCEPT ![t] = "READY"] /\ armed' = armed \ {t}
           ELSE UNCHANGED <<status, armed>>
      /\ UNCHANGED <<timeOut, call>>
  BY <1>1 DEF Reply, ReplyWakes, Ready
<1>3. t \in Task
  BY <1>1, <1>2, Types
<1>4. /\ status[t] # "SENDING"
      /\ callState[t] = "ACTIVE" => status[t] = "RECEIVING" /\ call[t] = "call"
      /\ callState[t] = "ABANDONED" => status[t] # "RECEIVING" \/ call[t] # "call"
      /\ \A r \in Task : t \notin ToSet(callers[r]) /\ (r # s => active[r] # t)
  BY <1>2, <1>3 DEF SInv, AskInv, QueueInv, ActiveInv
<1>5. ASSUME NEW u \in Task
      PROVE  /\ u = t => st[u] = "IDLE" /\ receiver'[u] = None
             /\ u # t => /\ st[u] = callState[u] /\ receiver'[u] = receiver[u]
                         /\ status'[u] = status[u]
             /\ u = s => act[u] = None
             /\ u # s => act[u] = active[u]
             /\ u = t => status'[u] = IF callState[t] = "ACTIVE" THEN "READY" ELSE status[u]
             /\ call'[u] = call[u] /\ timeOut'[u] = timeOut[u]
  BY <1>1, <1>2, <1>3, Types
<1>6. /\ SynchMesgTypeOK' /\ QueueInv' /\ PendingInv' /\ ActiveInv'
      /\ \A r \in Task : ToSet(callers'[r]) = ToSet(callers[r])
      /\ active' = act /\ callState' = st
  <2>1. /\ act \in Pendings /\ actPrio \in Priorities
        /\ callers \in Queues /\ Once(callers)
    BY <1>1, Types DEF Pendings, Priorities
  <2>2. st \in [Task -> CallStates]
    BY <1>1, Types DEF CallStates
  <2>3. TaskTypes'
    <3>1. armed' \subseteq Task
      BY <1>2 DEF SInv, SynchMesgTypeOK
    <3>2. status' \in [Task -> {"READY", "SENDING", "RECEIVING"}]
      BY <1>2, Types
    <3> QED
      BY <1>2, <3>1, <3>2, Types DEF TaskTypes
  <2>4. SendersStay
    BY <1>4, <1>5 DEF SendersStay
  <2>5. ASSUME NEW r \in Task, NEW u \in Task
        PROVE  /\ u \in ToSet(callers[r]) <=> st[u] = "QUEUED" /\ receiver'[u] = r
               /\ act[r] = u <=> st[u] \in {"ACTIVE", "ABANDONED"} /\ receiver'[u] = r
    <3>1. /\ u \in ToSet(callers[r]) <=> callState[u] = "QUEUED" /\ receiver[u] = r
          /\ active[r] = u <=> callState[u] \in {"ACTIVE", "ABANDONED"} /\ receiver[u] = r
      BY DEF SInv, QueueInv, ActiveInv
    <3>2. CASE u = t
      BY <1>4, <1>5, <3>1, <3>2
    <3>3. CASE u # t
      BY <1>1, <1>5, <3>1, <3>3
    <3> QED
      BY <3>2, <3>3
  <2>6. CallLinks(callers, act, st, receiver')
    BY <2>5 DEF CallLinks
  <2>7. CallStep(s, callers, act, actPrio, st)
    BY <1>1
  <2> QED
    BY <2>1, <2>2, <2>3, <2>4, <2>6, <2>7, CallStepInv
<1>7. ServerWaitInv'
  <2> SUFFICES ASSUME NEW r \in Task
               PROVE  /\ AwaitsMesg(r)' => pending'[r] = None
                      /\ AwaitsCall(r)' => \A u \in Task : u \notin ToSet(callers'[r])
    BY DEF ServerWaitInv
  <2>1. pending' = pending
    BY <1>1 DEF CallStep
  <2>2. AwaitsMesg(r)' => AwaitsMesg(r)
    BY <1>5 DEF AwaitsMesg
  <2>3. AwaitsCall(r)' => AwaitsCall(r)
    BY <1>5 DEF AwaitsCall
  <2> QED
    BY <1>6, <2>1, <2>2, <2>3 DEF SInv, ServerWaitInv
<1>8. ASSUME NEW u \in Task PROVE AskInv(u)'
  <2>1. AskInv(u) /\ callState'[u] = st[u] /\ (u \in armed' => u \in armed)
    BY <1>2, <1>6 DEF SInv
  <2>2. CASE u = t /\ callState[t] = "ACTIVE"
    BY <1>2, <1>4, <1>5, <2>1, <2>2 DEF AskInv
  <2>3. CASE u = t /\ callState[t] = "ABANDONED"
    BY <1>2, <1>4, <1>5, <2>1, <2>3 DEF AskInv
  <2>4. CASE u # t
    BY <1>5, <2>1, <2>4, SynchMesgAssumption DEF AskInv
  <2> QED
    BY <1>2, <2>2, <2>3, <2>4
<1> QED
  BY <1>6, <1>7, <1>8 DEF SInv

(* A call times out: it is dropped, or, accepted already, abandoned.       *)
LEMMA TimeoutCallInv ==
    ASSUME SInv, NEW t \in Task, t \in armed, call[t] = "call", TimeoutCall(t),
           timeOut' = [timeOut EXCEPT ![t] = TRUE], UNCHANGED call
    PROVE  SInv'
<1>1. /\ status[t] = "RECEIVING" /\ callState[t] \in {"QUEUED", "ACTIVE"} /\ receiver[t] \in Task
      /\ \A r \in Task : t \notin ToSet(senders[r])
  <2>1. status[t] = "RECEIVING" /\ callState[t] \in {"QUEUED", "ACTIVE"} /\ receiver[t] # None
    BY Types DEF SInv, AskInv
  <2> QED
    BY <2>1, Types DEF SInv, QueueInv
<1>4. PICK s \in Task : receiver[t] = s
  BY <1>1
<1>2. PICK cll, st :
      /\ callState[t] = "QUEUED" => cll = RemFrom(callers, s, t) /\ st = [callState EXCEPT ![t] = "IDLE"]
                                    /\ receiver' = [receiver EXCEPT ![t] = None]
      /\ callState[t] = "ACTIVE" => cll = callers /\ st = [callState EXCEPT ![t] = "ABANDONED"]
                                    /\ receiver' = receiver
      /\ CallStep(s, cll, active, activePrio, st)
      /\ status' = [status EXCEPT ![t] = "READY"] /\ armed' = armed \ {t}
  <2>1. CASE callState[t] = "QUEUED"
    BY <1>4, <2>1 DEF TimeoutCall, DropCall, CallStep, RemFrom, Ready
  <2>2. CASE callState[t] = "ACTIVE"
    BY <1>4, <2>2 DEF TimeoutCall, AbandonCall, CallStep, Ready
  <2> QED
    BY <1>1, <2>1, <2>2
<1>3. /\ cll \in Queues /\ Once(cll)
      /\ ToSet(cll[s]) = ToSet(callers[s]) \ {t}
      /\ \A r \in Task \ {s} : cll[r] = callers[r]
  <2>1. callers \in Queues /\ Once(callers)
    BY Types
  <2>2. CASE callState[t] = "QUEUED"
    <3>1. IsWithout(RemFrom(callers, s, t), callers, s, t)
      BY <2>1, RemEffect
    <3> QED
      BY <1>2, <2>2, <3>1 DEF IsWithout
  <2>3. CASE callState[t] = "ACTIVE"
    <3>1. t \notin ToSet(callers[s])
      BY <1>1, <2>3 DEF SInv, QueueInv
    <3> QED
      BY <1>2, <2>1, <2>3, <3>1
  <2> QED
    BY <1>1, <2>2, <2>3
<1>5. ASSUME NEW u \in Task
      PROVE  /\ u = t => /\ status'[u] = "READY" /\ timeOut'[u]
                         /\ callState[t] = "QUEUED" => st[u] = "IDLE" /\ receiver'[u] = None
                         /\ callState[t] = "ACTIVE" => st[u] = "ABANDONED" /\ receiver'[u] = s
             /\ u # t => /\ st[u] = callState[u] /\ receiver'[u] = receiver[u]
                         /\ status'[u] = status[u] /\ timeOut'[u] = timeOut[u]
             /\ call'[u] = call[u]
  BY <1>1, <1>2, <1>4, Types
<1>6. /\ SynchMesgTypeOK' /\ QueueInv' /\ PendingInv' /\ ActiveInv'
      /\ \A r \in Task : ToSet(callers'[r]) = ToSet(cll[r])
      /\ active' = active /\ callState' = st
  <2>1. active \in Pendings /\ activePrio \in Priorities
    BY Types DEF Pendings
  <2>2. st \in [Task -> CallStates]
    BY <1>1, <1>2, Types DEF CallStates
  <2>3. TaskTypes'
    <3>1. armed' \subseteq Task
      BY <1>2 DEF SInv, SynchMesgTypeOK
    <3>2. receiver' \in [Task -> Task \cup {None}]
      BY <1>1, <1>2, Types
    <3>3. status' \in [Task -> {"READY", "SENDING", "RECEIVING"}]
      BY <1>2, Types
    <3> QED
      BY <3>1, <3>2, <3>3, Types DEF TaskTypes
  <2>4. SendersStay
    BY <1>1, <1>5 DEF SendersStay
  <2>5. ASSUME NEW r \in Task, NEW u \in Task
        PROVE  /\ u \in ToSet(cll[r]) <=> st[u] = "QUEUED" /\ receiver'[u] = r
               /\ active[r] = u <=> st[u] \in {"ACTIVE", "ABANDONED"} /\ receiver'[u] = r
    <3>1. /\ u \in ToSet(callers[r]) <=> callState[u] = "QUEUED" /\ receiver[u] = r
          /\ active[r] = u <=> callState[u] \in {"ACTIVE", "ABANDONED"} /\ receiver[u] = r
      BY DEF SInv, QueueInv, ActiveInv
    <3>2. CASE u = t
      BY <1>1, <1>3, <1>4, <1>5, <3>1, <3>2, SynchMesgAssumption
    <3>3. CASE u # t
      BY <1>3, <1>5, <3>1, <3>3
    <3> QED
      BY <3>2, <3>3
  <2>6. CallLinks(cll, active, st, receiver')
    BY <2>5 DEF CallLinks
  <2>7. CallStep(s, cll, active, activePrio, st)
    BY <1>2
  <2> QED
    BY <1>3, <2>1, <2>2, <2>3, <2>4, <2>6, <2>7, CallStepInv
<1>7. ServerWaitInv'
  <2> SUFFICES ASSUME NEW r \in Task
               PROVE  /\ AwaitsMesg(r)' => pending'[r] = None
                      /\ AwaitsCall(r)' => \A u \in Task : u \notin ToSet(callers'[r])
    BY DEF ServerWaitInv
  <2>1. pending' = pending
    BY <1>2 DEF CallStep
  <2>2. AwaitsMesg(r)' => AwaitsMesg(r)
    BY <1>5 DEF AwaitsMesg
  <2>3. AwaitsCall(r)' => AwaitsCall(r)
    BY <1>5 DEF AwaitsCall
  <2> QED
    BY <1>3, <1>6, <2>1, <2>2, <2>3 DEF SInv, ServerWaitInv
<1>8. ASSUME NEW u \in Task PROVE AskInv(u)'
  <2>1. AskInv(u) /\ callState'[u] = st[u] /\ (u \in armed' => u \in armed /\ u # t)
    BY <1>2, <1>6 DEF SInv
  <2>2. CASE u = t
    <3>1. CASE callState[t] = "QUEUED"
      BY <1>5, <2>1, <2>2, <3>1 DEF AskInv
    <3>2. CASE callState[t] = "ACTIVE"
      <4>1. s # None
        BY SynchMesgAssumption
      <4> QED
        BY <1>5, <2>1, <2>2, <3>2, <4>1 DEF AskInv
    <3> QED
      BY <1>1, <3>1, <3>2
  <2>3. CASE u # t
    BY <1>5, <2>1, <2>3 DEF AskInv
  <2> QED
    BY <2>2, <2>3
<1> QED
  BY <1>6, <1>7, <1>8 DEF SInv

(* What an expired timeout node means for its task. *)
LEMMA ArmedWaits ==
    ASSUME SInv, NEW t \in Task, t \in armed
    PROVE  /\ call[t] = "send" => /\ status[t] = "SENDING" /\ receiver[t] \in Task
                                  /\ t \in ToSet(senders[receiver[t]])
           /\ call[t] = "call" => status[t] = "RECEIVING" /\ callState[t] \in {"QUEUED", "ACTIVE"}
           /\ call[t] \notin {"send", "call"} => status[t] = "RECEIVING"
<1>1. AskInv(t)
  BY DEF SInv
<1>2. /\ call[t] = "send" => status[t] = "SENDING" /\ receiver[t] # None
      /\ call[t] = "call" => status[t] = "RECEIVING" /\ callState[t] \in {"QUEUED", "ACTIVE"}
      /\ call[t] \notin {"send", "call"} => status[t] = "RECEIVING"
  BY <1>1, Types DEF AskInv
<1>3. receiver[t] # None => receiver[t] \in Task
  BY Types
<1> QED
  BY <1>2, <1>3 DEF SInv, QueueInv

LEMMA ExpireInv ==
    ASSUME SInv, NEW t \in Task, Expire(t)
    PROVE  SInv'
<1>1. t \in armed /\ timeOut' = [timeOut EXCEPT ![t] = TRUE] /\ UNCHANGED call
  BY DEF Expire
<1>2. CASE call[t] = "send"
  <2>1. receiver[t] \in Task /\ t \in ToSet(senders[receiver[t]])
    BY <1>1, <1>2, ArmedWaits
  <2>2. SenderLeaves(t, receiver[t]) /\ UNCHANGED endpoint
    BY <1>2 DEF Expire, TimeoutSend
  <2> QED
    BY <1>1, <2>1, <2>2, SenderLeavesInv
<1>3. CASE call[t] = "call"
  <2>1. TimeoutCall(t)
    BY <1>3 DEF Expire
  <2> QED
    BY <1>1, <1>3, <2>1, TimeoutCallInv
<1>4. CASE call[t] \notin {"send", "call"}
  <2>1. /\ UNCHANGED <<endpoint, pending, senders, callers, active, activePrio>>
        /\ UNCHANGED <<callState, receiver, priority>>
        /\ status' = [status EXCEPT ![t] = "READY"] /\ armed' = armed \ {t}
    BY <1>4 DEF Expire, Ready, serverVars
  <2>2. status[t] = "RECEIVING"
    BY <1>1, <1>4, ArmedWaits
  <2>3. SynchMesgTypeOK'
    BY <1>1, <2>1 DEF SInv, SynchMesgTypeOK
  <2>4. QueueInv' /\ PendingInv' /\ ActiveInv'
    BY <2>1, <2>2, QuietInv, Types
  <2>5. ServerWaitInv'
    BY <1>1, <2>1 DEF SInv, SynchMesgTypeOK, ServerWaitInv, AwaitsMesg, AwaitsCall
  <2>6. ASSUME NEW u \in Task PROVE AskInv(u)'
    BY <1>1, <1>4, <2>1, <2>2 DEF SInv, SynchMesgTypeOK, AskInv
  <2> QED
    BY <2>3, <2>4, <2>5, <2>6 DEF SInv
<1> QED
  BY <1>2, <1>3, <1>4

LEMMA NextInv == SInv /\ [SynchMesgNext]_vars => SInv'
<1> SUFFICES ASSUME SInv, [SynchMesgNext]_vars PROVE SInv'
  OBVIOUS
<1>1. CASE UNCHANGED vars
  BY <1>1 DEF vars, serverVars, taskVars, SInv, SynchMesgTypeOK, QueueInv, PendingInv, ActiveInv,
              ServerWaitInv, AskInv, AwaitsMesg, AwaitsCall
<1>2. ASSUME NEW s \in Server, NEW timed \in BOOLEAN,
             \/ MesgInit(s) \/ Recv(s) \/ AcceptTake(s) \/ Reply(s)
             \/ RecvBlock(s, timed) \/ AcceptBlock(s, timed)
      PROVE  SInv'
  <2>1. s \in Task
    OBVIOUS
  <2>2. CASE MesgInit(s)
    <3>1. /\ endpoint' \subseteq Server
          /\ UNCHANGED <<pending, senders, callers, active, activePrio>> /\ UNCHANGED taskVars
      BY <2>2 DEF MesgInit, SInv, SynchMesgTypeOK
    <3> QED
      BY <3>1, MesgInitInv
  <2>3. CASE Recv(s)
    <3>1. pending[s] # None /\ SenderLeaves(pending[s], s) /\ UNCHANGED <<endpoint, timeOut, call>>
      BY <2>3 DEF Recv
    <3>2. pending[s] \in Task /\ pending[s] \in ToSet(senders[s])
      BY <2>1, <3>1, Types DEF SInv, PendingInv, Pendings
    <3> QED
      BY <2>1, <3>1, <3>2, SenderLeavesInv
  <2>4. CASE AcceptTake(s)
    BY <2>1, <2>4, AcceptTakeInv
  <2>5. CASE Reply(s)
    BY <2>1, <2>5, ReplyInv
  <2>6. CASE RecvBlock(s, timed) \/ AcceptBlock(s, timed)
    BY <2>1, <2>6, ServerBlockInv
  <2> QED
    BY <1>2, <2>2, <2>3, <2>4, <2>5, <2>6
<1>3. ASSUME NEW s \in Server, NEW timed \in BOOLEAN, NEW t \in Task,
             SendDirect(t, s) \/ SendBlock(t, s, timed) \/ Call(t, s, timed)
      PROVE  SInv'
  <2>1. s \in Task
    OBVIOUS
  <2>2. CASE SendDirect(t, s)
    BY <2>1, <2>2, SendDirectInv
  <2>3. CASE SendBlock(t, s, timed)
    BY <2>1, <2>3, SendBlockInv
  <2>4. CASE Call(t, s, timed)
    BY <2>1, <2>4, CallInv
  <2> QED
    BY <1>3, <2>2, <2>3, <2>4
<1>4. ASSUME NEW t \in Task, Success(t) \/ Expire(t) \/ Timeout(t) PROVE SInv'
  BY <1>4, ReturnInv, ExpireInv
<1> QED
  BY <1>1, <1>2, <1>3, <1>4 DEF SynchMesgNext

(* SInv is an invariant of the specification. *)
THEOREM SynchMesgInvariant == SynchMesgSpec => []SInv
  BY InitInv, NextInv, PTL DEF SynchMesgSpec

LEMMA SInvNobodyForgotten == SInv => NobodyForgotten
<1> SUFFICES ASSUME SInv PROVE NobodyForgotten
  OBVIOUS
<1>1. ASSUME NEW s \in Task, NEW t
      PROVE  /\ senders[s] \in Seq(Task) /\ callers[s] \in Seq(Task)
             /\ t \in ToSet(senders[s]) <=> Contains(senders[s], t)
             /\ t \in ToSet(callers[s]) <=> Contains(callers[s], t)
             /\ t \in ToSet(senders[s]) \cup ToSet(callers[s]) => t \in Task
  <2>1. senders[s] \in Seq(Task) /\ callers[s] \in Seq(Task)
    BY Types DEF Queues
  <2> QED
    BY <2>1, InToSet
<1>2. ASSUME NEW q \in Seq(Task), q # <<>> PROVE Head(q) \in ToSet(q) /\ Head(q) \in Task
  BY <1>2, TailLemma
<1>3. SynchMesgTypeOK
  BY Types
<1>4. ASSUME NEW t \in Task
      PROVE  /\ active[t] # None => /\ receiver[active[t]] = t
                                    /\ callState[active[t]] \in {"ACTIVE", "ABANDONED"}
             /\ callState[t] = "QUEUED" <=> \E s \in Task : Contains(callers[s], t)
             /\ callState[t] \in {"ACTIVE", "ABANDONED"} <=> \E s \in Task : active[s] = t
  <2>1. active[t] # None => active[t] \in Task
    BY Types
  <2>2. receiver[t] # None <=> receiver[t] \in Task
    BY Types
  <2>3. callState[t] # "IDLE" => receiver[t] # None
    BY DEF SInv, AskInv
  <2>4. \A s \in Task : t \in ToSet(callers[s]) <=> callState[t] = "QUEUED" /\ receiver[t] = s
    BY DEF SInv, QueueInv
  <2>5. \A s \in Task : Contains(callers[s], t) <=> callState[t] = "QUEUED" /\ receiver[t] = s
    BY <1>1, <2>4
  <2> QED
    BY <2>1, <2>2, <2>3, <2>5 DEF SInv, ActiveInv
<1>5. ASSUME NEW s \in Task
      PROVE  /\ senders[s] # <<>> => Contains(senders[s], pending[s])
             /\ AwaitsMesg(s) => senders[s] = <<>>
             /\ AwaitsCall(s) => callers[s] = <<>>
  <2>1. senders[s] \in Seq(Task) /\ callers[s] \in Seq(Task)
    BY Types DEF Queues
  <2>2. senders[s] # <<>> => pending[s] \in ToSet(senders[s])
    BY <1>2, <2>1 DEF SInv, PendingInv
  <2>3. pending[s] = None => senders[s] = <<>>
    BY <1>2, <2>1 DEF SInv, PendingInv
  <2> QED
    BY <1>1, <1>2, <2>1, <2>2, <2>3 DEF SInv, ServerWaitInv
<1> QED
  BY <1>3, <1>4, <1>5 DEF NobodyForgotten, CallTraceable

(* Nobody who waits for a server is forgotten by kSyncRecv,                *)
(* kSynchMesgAccept, kSynchMesgReply or a timeout, however many tasks and  *)
(* servers there are.                                                      *)
THEOREM NobodyIsForgotten == SynchMesgSpec => []NobodyForgotten
  BY SynchMesgInvariant, SInvNobodyForgotten, PTL

(***************************************************************************)
(* Refinement: the request of one task moves from one stage to another, as *)
(* an action of RK0Rendezvous has it, or nothing that RK0Rendezvous sees   *)
(* changes.                                                                *)
(***************************************************************************)
Moves(t, from, to) ==
    /\ Stage(t) = from /\ Stage(t)' = to
    /\ \A u \in Task \ {t} : Stage(u)' = Stage(u)

Rests == (\A u \in Task : Stage(u)' = Stage(u)) /\ active' = active

LEMMA MovesMaps ==
    ASSUME NEW t \in Task, NEW from, NEW to, Moves(t, from, to)
    PROVE  LET stg == [u \in Task |-> Stage(u)] IN
           /\ stg[t] = from
           /\ stg' = [stg EXCEPT ![t] = to]
  BY DEF Moves

LEMMA RestsMaps ==
    ASSUME Rests
    PROVE  UNCHANGED <<[u \in Task |-> Stage(u)], active>>
  BY DEF Rests

LEMMA OfferMaps ==
    ASSUME NEW t \in Task, Moves(t, "idle", "offered"), active' = active
    PROVE  Rendezvous!RendezvousNext
<1>1. Rendezvous!Offer(t)
  BY MovesMaps DEF Rendezvous!Offer
<1> QED
  BY <1>1 DEF Rendezvous!RendezvousNext

LEMMA CopiedMaps ==
    ASSUME NEW t \in Task, Moves(t, "offered", "done"), active' = active
    PROVE  Rendezvous!RendezvousNext
<1>1. Rendezvous!Copied(t)
  BY MovesMaps DEF Rendezvous!Copied
<1> QED
  BY <1>1 DEF Rendezvous!RendezvousNext

LEMMA WithdrawMaps ==
    ASSUME NEW t \in Task, active' = active,
           Moves(t, "offered", "withdrawn") \/ Moves(t, "accepted", "abandoned")
    PROVE  Rendezvous!RendezvousNext
<1>1. Rendezvous!Withdraw(t)
  <2>1. CASE Moves(t, "offered", "withdrawn")
    BY <2>1, MovesMaps DEF Rendezvous!Withdraw
  <2>2. CASE Moves(t, "accepted", "abandoned")
    <3> DEFINE stg == [u \in Task |-> Stage(u)]
    <3>1. stg[t] = "accepted" /\ stg' = [stg EXCEPT ![t] = "abandoned"]
      BY <2>2, MovesMaps
    <3>2. stg[t] \in {"offered", "accepted"}
          /\ stg' = [stg EXCEPT ![t] = IF stg[t] = "offered" THEN "withdrawn" ELSE "abandoned"]
      BY <3>1
    <3> QED
      BY <3>2 DEF Rendezvous!Withdraw
  <2> QED
    BY <2>1, <2>2
<1> QED
  BY <1>1 DEF Rendezvous!RendezvousNext

LEMMA ReturnMaps ==
    ASSUME NEW t \in Task, active' = active,
           Moves(t, "done", "idle") \/ Moves(t, "withdrawn", "idle")
    PROVE  Rendezvous!RendezvousNext
<1>1. Rendezvous!Return(t)
  <2>1. CASE Moves(t, "done", "idle")
    BY <2>1, MovesMaps DEF Rendezvous!Return
  <2>2. CASE Moves(t, "withdrawn", "idle")
    BY <2>2, MovesMaps DEF Rendezvous!Return
  <2> QED
    BY <2>1, <2>2
<1> QED
  BY <1>1 DEF Rendezvous!RendezvousNext

LEMMA AcceptedMaps ==
    ASSUME NEW t \in Task, NEW s \in Task, Moves(t, "offered", "accepted"),
           active[s] = None, active' = [active EXCEPT ![s] = t]
    PROVE  Rendezvous!RendezvousNext
<1>1. Rendezvous!Accepted(t, s)
  BY MovesMaps DEF Rendezvous!Accepted
<1> QED
  BY <1>1 DEF Rendezvous!RendezvousNext

LEMMA AnswerMaps ==
    ASSUME NEW t \in Task, NEW s \in Task,
           \/ Moves(t, "accepted", "done")
           \/ Moves(t, "abandoned", "withdrawn")
           \/ Moves(t, "abandoned", "idle"),
           active[s] = t, active' = [active EXCEPT ![s] = None]
    PROVE  Rendezvous!RendezvousNext
<1>1. Rendezvous!Answer(s, t)
  <2>1. CASE Moves(t, "accepted", "done")
    BY <2>1, MovesMaps DEF Rendezvous!Answer
  <2>2. CASE Moves(t, "abandoned", "withdrawn")
    BY <2>2, MovesMaps DEF Rendezvous!Answer
  <2>3. CASE Moves(t, "abandoned", "idle")
    BY <2>3, MovesMaps DEF Rendezvous!Answer
  <2> QED
    BY <2>1, <2>2, <2>3
<1> QED
  BY <1>1 DEF Rendezvous!RendezvousNext

(* At first nobody asks. *)
LEMMA SynchInitMaps == SynchMesgInit => Rendezvous!RendezvousInit
  BY DEF SynchMesgInit, Rendezvous!RendezvousInit, Stage

(* A task whose request is untouched stays where it is. *)
LEMMA StageStays ==
    ASSUME NEW u \in Task, callState'[u] = callState[u],
           status'[u] = "SENDING" <=> status[u] = "SENDING",
           \/ callState[u] \in {"ABANDONED", "ACTIVE", "QUEUED"}
           \/ call[u] \notin {"send", "call"} /\ call'[u] \notin {"send", "call"}
           \/ call'[u] = call[u] /\ (timeOut'[u] <=> timeOut[u])
           \/ status[u] = "SENDING"
    PROVE  Stage(u)' = Stage(u)
  BY DEF Stage

LEMMA ServerStepMaps ==
    ASSUME SInv, NEW s \in Task, NEW timed \in BOOLEAN,
           MesgInit(s) \/ RecvBlock(s, timed) \/ AcceptBlock(s, timed)
    PROVE  Rests
<1>1. CASE MesgInit(s)
  BY <1>1 DEF MesgInit, Rests, Stage, taskVars
<1>2. CASE RecvBlock(s, timed) \/ AcceptBlock(s, timed)
  <2>1. PICK op \in {"recv", "accept"} :
           /\ Suspend(s, op, "RECEIVING", timed) /\ ~timeOut[s]
           /\ status[s] = "READY" /\ call[s] \in {"none", "accept"}
           /\ UNCHANGED <<active, callState>>
    BY <1>2 DEF RecvBlock, AcceptBlock, Accepts, Calls, Resumes, SInv, AskInv, serverVars
  <2>2. /\ status' = [status EXCEPT ![s] = "RECEIVING"] /\ call' = [call EXCEPT ![s] = op]
        /\ UNCHANGED timeOut
    BY <2>1, SuspendEffect, Types
  <2>3. ASSUME NEW u \in Task PROVE Stage(u)' = Stage(u)
    <3>1. /\ callState'[u] = callState[u] /\ timeOut'[u] = timeOut[u]
          /\ u = s => status'[u] = "RECEIVING" /\ call'[u] = op
          /\ u # s => status'[u] = status[u] /\ call'[u] = call[u]
      BY <2>1, <2>2, Types
    <3> QED
      BY <2>1, <3>1, StageStays
  <2> QED
    BY <2>1, <2>3 DEF Rests
<1> QED
  BY <1>1, <1>2

LEMMA SendDirectMaps ==
    ASSUME SInv, NEW t \in Task, NEW s \in Task, SendDirect(t, s)
    PROVE  Rests
<1>1. /\ UNCHANGED <<active, callState, timeOut, call>>
      /\ status' = [status EXCEPT ![s] = "READY"] /\ status[s] = "RECEIVING"
  BY DEF SendDirect, Ready, AwaitsMesg, serverVars
<1>2. ASSUME NEW u \in Task PROVE Stage(u)' = Stage(u)
  <2>1. /\ callState'[u] = callState[u] /\ timeOut'[u] = timeOut[u] /\ call'[u] = call[u]
        /\ status'[u] = "SENDING" <=> status[u] = "SENDING"
    BY <1>1, Types
  <2> QED
    BY <2>1, StageStays
<1> QED
  BY <1>1, <1>2 DEF Rests

LEMMA SendBlockMaps ==
    ASSUME SInv, NEW t \in Task, NEW s \in Task, NEW timed \in BOOLEAN, SendBlock(t, s, timed)
    PROVE  Rendezvous!RendezvousNext
<1>1. /\ status[t] = "READY" /\ call[t] = "none" /\ ~timeOut[t] /\ callState[t] = "IDLE"
  <2>1. MayAsk(t, s)
    BY DEF SendBlock
  <2> QED
    BY <2>1, AskerIdle
<1>2. /\ Suspend(t, "send", "SENDING", timed)
      /\ active' = active /\ callState' = callState
  BY DEF SendBlock, UpdateReceiverPrio
<1>3. /\ status' = [status EXCEPT ![t] = "SENDING"] /\ call' = [call EXCEPT ![t] = "send"]
      /\ UNCHANGED timeOut
  BY <1>1, <1>2, SuspendEffect, Types
<1>4. Stage(t) = "idle" /\ Stage(t)' = "offered"
  <2>1. callState'[t] = "IDLE" /\ status'[t] = "SENDING"
    BY <1>1, <1>2, <1>3, Types
  <2> QED
    BY <1>1, <2>1 DEF Stage
<1>5. ASSUME NEW u \in Task \ {t} PROVE Stage(u)' = Stage(u)
  <2>1. /\ callState'[u] = callState[u] /\ timeOut'[u] = timeOut[u] /\ call'[u] = call[u]
        /\ status'[u] = status[u]
    BY <1>2, <1>3, Types
  <2> QED
    BY <2>1, StageStays
<1> QED
  BY <1>2, <1>4, <1>5, OfferMaps DEF Moves

LEMMA CallMaps ==
    ASSUME SInv, NEW t \in Task, NEW s \in Task, NEW timed \in BOOLEAN, Call(t, s, timed)
    PROVE  Rendezvous!RendezvousNext
<1>1. /\ status[t] = "READY" /\ call[t] = "none" /\ ~timeOut[t] /\ callState[t] = "IDLE" /\ s # t
  <2>1. MayAsk(t, s)
    BY DEF Call
  <2> QED
    BY <2>1, AskerIdle
<1>2. /\ active' = active /\ callState' = [callState EXCEPT ![t] = "QUEUED"]
      /\ status' = [status EXCEPT ![t] = "RECEIVING",
                                  ![s] = IF AwaitsCall(s) THEN "READY" ELSE @]
      /\ call' = [call EXCEPT ![t] = "call"]
  BY DEF Call, UpdateReceiverPrio
<1>3. timeOut' = timeOut
  BY <1>1, Types DEF Call
<1>4. Stage(t) = "idle" /\ Stage(t)' = "offered"
  <2>1. callState'[t] = "QUEUED"
    BY <1>2, Types
  <2> QED
    BY <1>1, <2>1 DEF Stage
<1>5. ASSUME NEW u \in Task \ {t} PROVE Stage(u)' = Stage(u)
  <2>1. /\ callState'[u] = callState[u] /\ timeOut'[u] = timeOut[u] /\ call'[u] = call[u]
        /\ status'[u] = "SENDING" <=> status[u] = "SENDING"
    BY <1>2, <1>3, Types DEF AwaitsCall
  <2> QED
    BY <2>1, StageStays
<1> QED
  BY <1>2, <1>4, <1>5, OfferMaps DEF Moves

LEMMA SenderLeavesMaps ==
    ASSUME SInv, NEW t \in Task, NEW s \in Task, t \in ToSet(senders[s]), SenderLeaves(t, s),
           UNCHANGED call, UNCHANGED timeOut \/ timeOut' = [timeOut EXCEPT ![t] = TRUE]
    PROVE  Rendezvous!RendezvousNext
<1>1. /\ status[t] = "SENDING" /\ callState[t] = "IDLE" /\ call[t] = "send" /\ ~timeOut[t]
  BY DEF SInv, QueueInv, AskInv
<1>2. /\ active' = active /\ callState' = callState /\ status' = [status EXCEPT ![t] = "READY"]
  BY DEF SenderLeaves, UpdateReceiverPrio, Ready
<1>3. /\ callState'[t] = "IDLE" /\ status'[t] = "READY" /\ call'[t] = "send"
      /\ Stage(t) = "offered"
  BY <1>1, <1>2, Types DEF Stage
<1>4. ASSUME NEW u \in Task \ {t} PROVE Stage(u)' = Stage(u)
  <2>1. /\ callState'[u] = callState[u] /\ timeOut'[u] = timeOut[u] /\ call'[u] = call[u]
        /\ status'[u] = status[u]
    BY <1>2, Types
  <2> QED
    BY <2>1, StageStays
<1>5. CASE UNCHANGED timeOut
  <2>1. Stage(t)' = "done"
    BY <1>1, <1>3, <1>5 DEF Stage
  <2> QED
    BY <1>2, <1>3, <1>4, <2>1, CopiedMaps DEF Moves
<1>6. CASE timeOut' = [timeOut EXCEPT ![t] = TRUE]
  <2>1. timeOut'[t]
    BY <1>6, Types
  <2>2. Stage(t)' = "withdrawn"
    BY <1>3, <2>1 DEF Stage
  <2> QED
    BY <1>2, <1>3, <1>4, <2>2, WithdrawMaps DEF Moves
<1> QED
  BY <1>5, <1>6

LEMMA AcceptTakeMaps ==
    ASSUME SInv, NEW s \in Task, AcceptTake(s)
    PROVE  Rendezvous!RendezvousNext
<1>1. PICK t :
      /\ t = Head(callers[s])
      /\ active' = [active EXCEPT ![s] = t]
      /\ callState' = [callState EXCEPT ![t] = "ACTIVE"]
  BY DEF AcceptTake, UpdateReceiverPrio
<1>2. /\ callers[s] # <<>> /\ active[s] = None
      /\ call[s] \in {"none", "accept"}
      /\ call' = [call EXCEPT ![s] = "none"]
      /\ UNCHANGED <<status, timeOut>>
  BY DEF AcceptTake, Accepts, Calls, Resumes, Return
<1>3. t \in Task /\ callState[t] = "QUEUED"
  <2>1. callers[s] \in Seq(Task)
    BY Types DEF Queues
  <2>2. t \in Task /\ t \in ToSet(callers[s])
    BY <1>1, <1>2, <2>1, TailLemma
  <2> QED
    BY <2>2 DEF SInv, QueueInv
<1>4. Stage(t) = "offered" /\ Stage(t)' = "accepted"
  <2>1. callState'[t] = "ACTIVE"
    BY <1>1, <1>3, Types
  <2> QED
    BY <1>3, <2>1 DEF Stage
<1>5. ASSUME NEW u \in Task \ {t} PROVE Stage(u)' = Stage(u)
  <2>1. /\ callState'[u] = callState[u] /\ timeOut'[u] = timeOut[u] /\ status'[u] = status[u]
        /\ u # s => call'[u] = call[u]
        /\ u = s => call'[u] = "none"
    BY <1>1, <1>2, Types
  <2> QED
    BY <1>2, <2>1, StageStays
<1> QED
  BY <1>1, <1>2, <1>3, <1>4, <1>5, AcceptedMaps DEF Moves

LEMMA ReplyMaps ==
    ASSUME SInv, NEW s \in Task, Reply(s)
    PROVE  Rendezvous!RendezvousNext
<1>1. PICK t :
      /\ t = active[s] /\ t # None /\ callState[t] \in {"ACTIVE", "ABANDONED"}
      /\ active' = [active EXCEPT ![s] = None]
      /\ callState' = [callState EXCEPT ![t] = "IDLE"]
      /\ callState[t] = "ACTIVE" => status' = [status EXCEPT ![t] = "READY"]
      /\ callState[t] = "ABANDONED" => status' = status
      /\ UNCHANGED <<timeOut, call>>
  BY DEF Reply, ReplyWakes, Ready, UpdateReceiverPrio
<1>2. t \in Task
  BY <1>1, Types
<1>3. AskInv(t)
  BY <1>2 DEF SInv
<1>4. /\ callState'[t] = "IDLE" /\ call'[t] = call[t] /\ timeOut'[t] = timeOut[t]
      /\ callState[t] = "ACTIVE" => status'[t] = "READY"
      /\ callState[t] = "ABANDONED" => status'[t] = status[t]
  BY <1>1, <1>2, Types
<1>5. ASSUME NEW u \in Task \ {t} PROVE Stage(u)' = Stage(u)
  <2>1. /\ callState'[u] = callState[u] /\ timeOut'[u] = timeOut[u] /\ call'[u] = call[u]
        /\ status'[u] = status[u]
    BY <1>1, <1>2, Types
  <2> QED
    BY <2>1, StageStays
<1>6. \/ Moves(t, "accepted", "done")
      \/ Moves(t, "abandoned", "withdrawn")
      \/ Moves(t, "abandoned", "idle")
  <2>1. CASE callState[t] = "ACTIVE"
    <3>1. call[t] = "call" /\ ~timeOut[t]
      BY <1>3, <2>1 DEF AskInv
    <3>2. Stage(t) = "accepted" /\ Stage(t)' = "done"
      BY <1>4, <2>1, <3>1 DEF Stage
    <3> QED
      BY <1>5, <3>2 DEF Moves
  <2>2. CASE callState[t] = "ABANDONED"
    <3>1. status[t] # "SENDING" /\ call[t] # "send" /\ (call[t] = "call" => timeOut[t])
      BY <1>3, <2>2 DEF AskInv
    <3>2. Stage(t) = "abandoned" /\ Stage(t)' = IF call[t] = "call" THEN "withdrawn" ELSE "idle"
      BY <1>4, <2>2, <3>1 DEF Stage
    <3> QED
      BY <1>5, <3>2 DEF Moves
  <2> QED
    BY <1>1, <2>1, <2>2
<1> QED
  BY <1>1, <1>2, <1>6, AnswerMaps

(* A call returns what became of the request. *)
LEMMA ReturnStepMaps ==
    ASSUME SInv, NEW t \in Task, Success(t) \/ Timeout(t)
    PROVE  Rendezvous!RendezvousNext \/ Rests
<1>1. /\ UNCHANGED <<active, callState, status>>
      /\ status[t] = "READY" /\ call' = [call EXCEPT ![t] = "none"]
      /\ \A u \in Task \ {t} : timeOut'[u] = timeOut[u]
  BY Types DEF Success, Timeout, Resumes, Return, serverVars
<1>2. AskInv(t)
  BY DEF SInv
<1>3. call'[t] = "none" /\ callState[t] \in {"IDLE", "ABANDONED"}
  BY <1>1, <1>2, Types DEF AskInv, CallStates
<1>4. ASSUME NEW u \in Task \ {t} PROVE Stage(u)' = Stage(u)
  <2>1. /\ callState'[u] = callState[u] /\ timeOut'[u] = timeOut[u] /\ call'[u] = call[u]
        /\ status'[u] = status[u]
    BY <1>1, Types
  <2> QED
    BY <2>1, StageStays
<1>5. CASE callState[t] = "ABANDONED" \/ call[t] \notin {"send", "call"}
  <2>1. Stage(t)' = Stage(t)
    BY <1>1, <1>3, <1>5, StageStays
  <2> QED
    BY <1>1, <1>4, <2>1 DEF Rests
<1>6. CASE callState[t] = "IDLE" /\ call[t] \in {"send", "call"}
  <2>1. /\ Stage(t) = IF timeOut[t] THEN "withdrawn" ELSE "done"
        /\ Stage(t)' = "idle"
    BY <1>1, <1>3, <1>6 DEF Stage
  <2>2. Moves(t, "done", "idle") \/ Moves(t, "withdrawn", "idle")
    BY <1>4, <2>1 DEF Moves
  <2> QED
    BY <1>1, <2>2, ReturnMaps
<1> QED
  BY <1>3, <1>5, <1>6

LEMMA ExpireMaps ==
    ASSUME SInv, NEW t \in Task, Expire(t)
    PROVE  Rendezvous!RendezvousNext \/ Rests
<1>1. t \in armed /\ timeOut' = [timeOut EXCEPT ![t] = TRUE] /\ UNCHANGED call
  BY DEF Expire
<1>2. CASE call[t] = "send"
  <2>1. receiver[t] \in Task /\ t \in ToSet(senders[receiver[t]])
    BY <1>1, <1>2, ArmedWaits
  <2>2. SenderLeaves(t, receiver[t])
    BY <1>2 DEF Expire, TimeoutSend
  <2> QED
    BY <1>1, <2>1, <2>2, SenderLeavesMaps
<1>3. CASE call[t] = "call"
  <2>1. status[t] = "RECEIVING" /\ callState[t] \in {"QUEUED", "ACTIVE"}
    BY <1>1, <1>3, ArmedWaits
  <2>2. /\ active' = active /\ status' = [status EXCEPT ![t] = "READY"]
        /\ callState[t] = "QUEUED" => callState' = [callState EXCEPT ![t] = "IDLE"]
        /\ callState[t] = "ACTIVE" => callState' = [callState EXCEPT ![t] = "ABANDONED"]
    BY <1>3, <2>1 DEF Expire, TimeoutCall, DropCall, AbandonCall, UpdateReceiverPrio, Ready
  <2>3. ASSUME NEW u \in Task \ {t} PROVE Stage(u)' = Stage(u)
    <3>1. /\ callState'[u] = callState[u] /\ timeOut'[u] = timeOut[u] /\ call'[u] = call[u]
          /\ status'[u] = status[u]
      BY <1>1, <2>1, <2>2, Types
    <3> QED
      BY <3>1, StageStays
  <2>4. status'[t] = "READY" /\ timeOut'[t] /\ call'[t] = "call"
    BY <1>1, <1>3, <2>2, Types
  <2>5. CASE callState[t] = "QUEUED"
    <3>1. callState'[t] = "IDLE"
      BY <2>2, <2>5, Types
    <3>2. Stage(t) = "offered" /\ Stage(t)' = "withdrawn"
      BY <2>4, <2>5, <3>1 DEF Stage
    <3> QED
      BY <2>2, <2>3, <3>2, WithdrawMaps DEF Moves
  <2>6. CASE callState[t] = "ACTIVE"
    <3>1. callState'[t] = "ABANDONED"
      BY <2>2, <2>6, Types
    <3>2. Stage(t) = "accepted" /\ Stage(t)' = "abandoned"
      BY <2>6, <3>1 DEF Stage
    <3> QED
      BY <2>2, <2>3, <3>2, WithdrawMaps DEF Moves
  <2> QED
    BY <2>1, <2>5, <2>6
<1>4. CASE call[t] \notin {"send", "call"}
  <2>1. /\ UNCHANGED <<active, callState>> /\ status' = [status EXCEPT ![t] = "READY"]
    BY <1>4 DEF Expire, Ready, serverVars
  <2>2. status[t] = "RECEIVING"
    BY <1>1, <1>4, ArmedWaits
  <2>3. ASSUME NEW u \in Task PROVE Stage(u)' = Stage(u)
    <3>1. /\ callState'[u] = callState[u] /\ call'[u] = call[u]
          /\ u # t => timeOut'[u] = timeOut[u] /\ status'[u] = status[u]
          /\ u = t => status'[u] = "READY"
      BY <1>1, <2>1, Types
    <3> QED
      BY <1>4, <2>2, <3>1, StageStays
  <2> QED
    BY <2>1, <2>3 DEF Rests
<1> QED
  BY <1>2, <1>3, <1>4

LEMMA NextMaps ==
    ASSUME SInv, [SynchMesgNext]_vars
    PROVE  Rendezvous!RendezvousNext \/ Rests
<1>1. CASE UNCHANGED vars
  BY <1>1 DEF vars, serverVars, taskVars, Rests, Stage
<1>2. ASSUME NEW s \in Server, NEW timed \in BOOLEAN,
             \/ MesgInit(s) \/ Recv(s) \/ AcceptTake(s) \/ Reply(s)
             \/ RecvBlock(s, timed) \/ AcceptBlock(s, timed)
      PROVE  Rendezvous!RendezvousNext \/ Rests
  <2>1. s \in Task
    OBVIOUS
  <2>2. CASE MesgInit(s) \/ RecvBlock(s, timed) \/ AcceptBlock(s, timed)
    BY <2>1, <2>2, ServerStepMaps
  <2>3. CASE Recv(s)
    <3>1. pending[s] # None /\ SenderLeaves(pending[s], s) /\ UNCHANGED <<timeOut, call>>
      BY <2>3 DEF Recv
    <3>2. pending[s] \in Task /\ pending[s] \in ToSet(senders[s])
      BY <2>1, <3>1, Types DEF SInv, PendingInv, Pendings
    <3> QED
      BY <2>1, <3>1, <3>2, SenderLeavesMaps
  <2>4. CASE AcceptTake(s)
    BY <2>1, <2>4, AcceptTakeMaps
  <2>5. CASE Reply(s)
    BY <2>1, <2>5, ReplyMaps
  <2> QED
    BY <1>2, <2>2, <2>3, <2>4, <2>5
<1>3. ASSUME NEW s \in Server, NEW timed \in BOOLEAN, NEW t \in Task,
             SendDirect(t, s) \/ SendBlock(t, s, timed) \/ Call(t, s, timed)
      PROVE  Rendezvous!RendezvousNext \/ Rests
  <2>1. s \in Task
    OBVIOUS
  <2> QED
    BY <1>3, <2>1, SendDirectMaps, SendBlockMaps, CallMaps
<1>4. ASSUME NEW t \in Task, Success(t) \/ Expire(t) \/ Timeout(t)
      PROVE  Rendezvous!RendezvousNext \/ Rests
  BY <1>4, ReturnStepMaps, ExpireMaps
<1> QED
  BY <1>1, <1>2, <1>3, <1>4 DEF SynchMesgNext

(* Synchronous messages keep what RK0Rendezvous promises, for any tasks    *)
(* and servers: a request is served or withdrawn, never both, and a late   *)
(* answer goes to nobody.                                                  *)
THEOREM SynchMesgImplements == SynchMesgSpec => ImplementsRendezvous
<1> DEFINE stg == [t \in Task |-> Stage(t)]
<1>1. SynchMesgInit => Rendezvous!RendezvousInit
  BY SynchInitMaps
<1>2. SInv /\ [SynchMesgNext]_vars => [Rendezvous!RendezvousNext]_<<stg, active>>
  BY NextMaps, RestsMaps
<1> QED
  BY <1>1, <1>2, SynchMesgInvariant, PTL
  DEF SynchMesgSpec, ImplementsRendezvous, Rendezvous!RendezvousSpec

(***************************************************************************)
(* The priority of a server.  It is proved where no server asks another    *)
(* one, as ServerPriority says; any number of servers may have any number  *)
(* of senders and callers.                                                 *)
(***************************************************************************)
ServersAskNobody == \A s \in Server : receiver[s] = None

(* What kTaskSynchMesgPrio_ returns. *)
Prio(s) == SynchMesgPrio(s, senders, callers, active, activePrio, callState)

AskedInv == \A t \in Task : receiver[t] \in (Server \ {t}) \cup {None}

(* The queues are in order, so that it is enough to look at their heads,   *)
(* and the priority of the active caller is known.                         *)
PrioInv ==
    \A s \in Task :
        /\ Sorted(senders[s], priority) /\ Sorted(callers[s], priority)
        /\ active[s] # None => activePrio[s] = priority[active[s]]
        /\ priority[s] = Prio(s)

LEMMA FirstOf ==
    ASSUME NEW q \in Seq(Task), q # <<>>
    PROVE  /\ q[1] \in ToSet(q) /\ q[1] \in Task
           /\ \A p \in [Task -> Nat] :
                 Sorted(q, p) => \A t \in ToSet(q) : p[q[1]] <= p[t]
<1>1. Len(q) \in Nat \ {0} /\ 1 \in 1 .. Len(q) /\ q[1] \in Task
  BY LenProperties, EmptySeq
<1>2. q[1] \in ToSet(q)
  BY <1>1, InToSet
<1>3. ASSUME NEW p \in [Task -> Nat], Sorted(q, p), NEW t \in ToSet(q)
      PROVE  p[q[1]] <= p[t]
  <2>1. PICK i \in 1 .. Len(q) : q[i] = t
    BY InToSet
  <2>2. CASE i = 1
    BY <1>1, <2>1, <2>2
  <2>3. CASE i # 1
    <3>1. 1 < i
      BY <1>1, <2>3
    <3> QED
      BY <1>1, <1>3, <2>1, <3>1 DEF Sorted
  <2> QED
    BY <2>2, <2>3
<1> QED
  BY <1>1, <1>2, <1>3

(* The best of the heads is the best of all who wait. *)
LEMMA BestOfAll ==
    ASSUME SInv, PrioInv
    PROVE  ServerPriority
<1> SUFFICES ASSUME NEW s \in Server
             PROVE  priority[s] = Min({prioNominal[s]} \cup
                      {priority[t] : t \in {t \in Task :
                                             receiver[t] = s /\ callState[t] # "ABANDONED"}})
  BY DEF ServerPriority
<1> DEFINE A == IF active[s] # None /\ callState[active[s]] = "ACTIVE" THEN {activePrio[s]} ELSE {}
           H == {priority[q[1]] : q \in {senders[s], callers[s]} \ {<<>>}}
           L == {prioNominal[s]} \cup A \cup H
           W == {t \in Task : receiver[t] = s /\ callState[t] # "ABANDONED"}
           R == {prioNominal[s]} \cup {priority[t] : t \in W}
<1>1. /\ s \in Task /\ senders[s] \in Seq(Task) /\ callers[s] \in Seq(Task)
      /\ priority \in [Task -> Nat] /\ prioNominal[s] \in Nat
      /\ active[s] \in Task \cup {None}
  BY Types DEF SynchMesgTypeOK, Queues
<1>2. /\ Sorted(senders[s], priority) /\ Sorted(callers[s], priority)
      /\ active[s] # None => activePrio[s] = priority[active[s]]
      /\ priority[s] = Min(L)
  BY <1>1 DEF PrioInv, Prio, SynchMesgPrio
<1>3. \A t \in Task : /\ t \in ToSet(senders[s]) <=> status[t] = "SENDING" /\ receiver[t] = s
                      /\ t \in ToSet(callers[s]) <=> callState[t] = "QUEUED" /\ receiver[t] = s
                      /\ active[s] = t <=> callState[t] \in {"ACTIVE", "ABANDONED"}
                                           /\ receiver[t] = s
                      /\ AskInv(t) /\ callState[t] \in CallStates
  BY <1>1, Types DEF SInv, QueueInv, ActiveInv
<1>4. \A q \in {senders[s], callers[s]} \ {<<>>} : q[1] \in W
  <2>1. ASSUME NEW t \in ToSet(senders[s]) \cup ToSet(callers[s]) PROVE t \in W
    <3>1. t \in Task
      BY <1>1, <2>1, InToSet
    <3> QED
      BY <1>3, <2>1, <3>1 DEF AskInv
  <2> HIDE DEF W
  <2>2. \A q \in {senders[s], callers[s]} \ {<<>>} :
           q \in Seq(Task) /\ q # <<>> /\ ToSet(q) \subseteq ToSet(senders[s]) \cup ToSet(callers[s])
    BY <1>1
  <2>3. \A q \in {senders[s], callers[s]} \ {<<>>} : q[1] \in ToSet(q)
    BY <2>2, FirstOf
  <2> QED
    BY <2>1, <2>2, <2>3
<1>5. ASSUME NEW t \in W PROVE \E x \in A \cup H : x <= priority[t]
  <2>1. t \in Task /\ receiver[t] = s /\ receiver[t] # None /\ priority[t] \in Nat
    BY <1>1
  <2>2. CASE callState[t] = "ACTIVE"
    <3>1. active[s] = t /\ active[s] # None
      BY <1>3, <2>1, <2>2
    <3>2. activePrio[s] \in A /\ activePrio[s] = priority[t]
      BY <1>2, <2>2, <3>1
    <3> QED
      BY <2>1, <3>2
  <2>3. CASE t \in ToSet(senders[s])
    <3>1. senders[s] # <<>>
      BY <2>3, ToSetEmpty
    <3>2. priority[senders[s][1]] <= priority[t]
      BY <1>1, <1>2, <2>3, <3>1, FirstOf
    <3> QED
      BY <3>1, <3>2
  <2>4. CASE t \in ToSet(callers[s])
    <3>1. callers[s] # <<>>
      BY <2>4, ToSetEmpty
    <3>2. priority[callers[s][1]] <= priority[t]
      BY <1>1, <1>2, <2>4, <3>1, FirstOf
    <3> QED
      BY <3>1, <3>2
  <2>5. \/ callState[t] = "ACTIVE" \/ t \in ToSet(senders[s]) \/ t \in ToSet(callers[s])
    BY <1>3, <2>1 DEF AskInv, CallStates
  <2> QED
    BY <2>2, <2>3, <2>4, <2>5
<1>6. A \subseteq R
  <2> SUFFICES ASSUME active[s] # None, callState[active[s]] = "ACTIVE"
               PROVE  activePrio[s] \in R
    OBVIOUS
  <2>1. active[s] \in W
    BY <1>1, <1>3
  <2> QED
    BY <1>2, <2>1
<1>7. H \subseteq R
  BY <1>4
<1>8. R \in SUBSET Nat
  BY <1>1
<1> HIDE DEF A, H
<1>9. L \in SUBSET Nat /\ L \subseteq R /\ L # {} /\ R # {}
  BY <1>6, <1>7, <1>8
<1>10. \A y \in R : \E x \in L : x <= y
  <2> SUFFICES ASSUME NEW y \in R PROVE \E x \in L : x <= y
    OBVIOUS
  <2>1. CASE y = prioNominal[s]
    BY <1>1, <2>1
  <2>2. CASE \E t \in W : y = priority[t]
    BY <1>5, <2>2
  <2> QED
    BY <2>1, <2>2
<1> HIDE DEF L, R
<1>11. Min(L) \in L /\ Min(R) \in R /\ (\A x \in L : Min(L) <= x) /\ (\A x \in R : Min(R) <= x)
  BY <1>8, <1>9, MinOfNats
<1>12. Min(L) = Min(R)
  <2> DEFINE l == Min(L)
             r == Min(R)
  <2>1. l \in L /\ r \in R /\ l \in R /\ l \in Nat /\ r \in Nat
    BY <1>8, <1>9, <1>11
  <2>2. PICK x \in L : x <= r
    BY <1>10, <2>1
  <2>3. l <= x /\ r <= l /\ x \in Nat
    BY <1>9, <1>11, <2>1
  <2> HIDE DEF l, r
  <2>4. l = r
    BY <2>1, <2>2, <2>3
  <2> QED
    BY <2>4 DEF l, r
<1>13. R = {prioNominal[s]} \cup {priority[t] : t \in {t \in Task :
                                             receiver[t] = s /\ callState[t] # "ABANDONED"}}
  BY DEF R
<1> QED
  BY <1>2, <1>12, <1>13

(* Where nothing that its priority depends on changed, a server keeps it.  *)
LEMMA SamePrio ==
    ASSUME NEW s \in Task, NEW snd, NEW cll, NEW act, NEW actPrio, NEW st,
           senders'[s] = snd[s], callers'[s] = cll[s], active'[s] = act[s],
           activePrio'[s] = actPrio[s],
           act[s] # None => callState'[act[s]] = st[act[s]],
           \A q \in {snd[s], cll[s]} \ {<<>>} : priority'[q[1]] = priority[q[1]]
    PROVE  Prio(s)' = SynchMesgPrio(s, snd, cll, act, actPrio, st)
<1> DEFINE H == {priority[q[1]] : q \in {snd[s], cll[s]} \ {<<>>}}
           A == IF act[s] # None /\ st[act[s]] = "ACTIVE" THEN {actPrio[s]} ELSE {}
           NewH == {priority'[q[1]] : q \in {senders'[s], callers'[s]} \ {<<>>}}
           NewA == IF active'[s] # None /\ callState'[active'[s]] = "ACTIVE"
                     THEN {activePrio'[s]} ELSE {}
<1>1. NewH = H
  OBVIOUS
<1>2. NewA = A
  OBVIOUS
<1>3. Prio(s)' = Min({prioNominal[s]} \cup NewA \cup NewH)
  BY DEF Prio, SynchMesgPrio
<1>4. SynchMesgPrio(s, snd, cll, act, actPrio, st) = Min({prioNominal[s]} \cup A \cup H)
  BY DEF SynchMesgPrio
<1> HIDE DEF NewH, NewA, A, H
<1> QED
  BY <1>1, <1>2, <1>3, <1>4

(* kSynchMesgUpdateReceiverPrio_ of a server that asks nobody leaves every *)
(* queue in order, and gives the server the priority it is to have.        *)
LEMMA UpdatePrio ==
    ASSUME SInv, PrioInv, NEW s \in Task, receiver[s] = None,
           NEW snd \in Queues, NEW cll \in Queues,
           NEW act, NEW actPrio, actPrio \in Priorities, NEW st,
           UpdateReceiverPrio(s, snd, cll, act, actPrio, st),
           s \notin ToSet(snd[s]), s \notin ToSet(cll[s]),
           Sorted(snd[s], priority), Sorted(cll[s], priority),
           act[s] # None => act[s] \in Task \ {s} /\ actPrio[s] = priority[act[s]],
           \A r \in Task \ {s} :
               /\ snd[r] = senders[r] /\ cll[r] = callers[r]
               /\ act[r] = active[r] /\ actPrio[r] = activePrio[r]
               /\ active[r] # None => st[active[r]] = callState[active[r]]
    PROVE  PrioInv'
<1> DEFINE p == SynchMesgPrio(s, snd, cll, act, actPrio, st)
           prio == [priority EXCEPT ![s] = p]
<1>1. /\ priority' = prio
      /\ senders' = [r \in Task |-> Requeue(snd[r], s, prio)]
      /\ callers' = [r \in Task |-> Requeue(cll[r], s, prio)]
      /\ active' = act /\ activePrio' = actPrio /\ callState' = st
  BY DEF UpdateReceiverPrio
<1>2. /\ SynchMesgTypeOK /\ priority \in [Task -> Nat] /\ active \in [Task -> Task \cup {None}]
      /\ \A r \in Task : snd[r] \in Seq(Task) /\ cll[r] \in Seq(Task)
  BY Types DEF SynchMesgTypeOK, Queues
<1>3. \A r \in Task : s \notin ToSet(snd[r]) /\ s \notin ToSet(cll[r])
  <2>1. \A r \in Task : s \notin ToSet(senders[r]) /\ s \notin ToSet(callers[r])
    BY DEF SInv, QueueInv
  <2> QED
    BY <2>1
<1>4. p \in Nat
  BY <1>2, SynchMesgPrioType DEF Queues, Priorities
<1> HIDE DEF p
<1>5. /\ priority' \in [Task -> Nat] /\ priority'[s] = p
      /\ \A u \in Task : u # s => priority'[u] = priority[u]
  BY <1>1, <1>2, <1>4
<1> HIDE DEF prio
<1>6. \A r \in Task : senders'[r] = snd[r] /\ callers'[r] = cll[r]
  <2> SUFFICES ASSUME NEW r \in Task PROVE senders'[r] = snd[r] /\ callers'[r] = cll[r]
    OBVIOUS
  <2>1. ~Contains(snd[r], s) /\ ~Contains(cll[r], s)
    BY <1>2, <1>3, InToSet
  <2> QED
    BY <1>1, <2>1 DEF Requeue
<1>7. \A r \in Task : /\ \A u \in ToSet(snd[r]) \cup ToSet(cll[r]) : priority'[u] = priority[u]
                      /\ \A q \in {snd[r], cll[r]} \ {<<>>} : priority'[q[1]] = priority[q[1]]
  <2> SUFFICES ASSUME NEW r \in Task
               PROVE  /\ \A u \in ToSet(snd[r]) \cup ToSet(cll[r]) : priority'[u] = priority[u]
                      /\ \A q \in {snd[r], cll[r]} \ {<<>>} : priority'[q[1]] = priority[q[1]]
    OBVIOUS
  <2>1. \A u \in ToSet(snd[r]) \cup ToSet(cll[r]) : u \in Task /\ u # s
    BY <1>2, <1>3, InToSet
  <2>2. \A u \in ToSet(snd[r]) \cup ToSet(cll[r]) : priority'[u] = priority[u]
    BY <1>5, <2>1
  <2>3. ASSUME NEW q \in {snd[r], cll[r]} \ {<<>>} PROVE priority'[q[1]] = priority[q[1]]
    <3>1. q \in Seq(Task) /\ q # <<>> /\ (q = snd[r] \/ q = cll[r])
      BY <1>2
    <3>2. q[1] \in ToSet(q)
      BY <3>1, FirstOf
    <3> QED
      BY <2>2, <3>1, <3>2
  <2> QED
    BY <2>2, <2>3
<1>8. ASSUME NEW r \in Task
      PROVE  /\ Sorted(senders'[r], priority') /\ Sorted(callers'[r], priority')
             /\ active'[r] # None => activePrio'[r] = priority'[active'[r]]
             /\ priority'[r] = Prio(r)'
  <2>1. Sorted(snd[r], priority) /\ Sorted(cll[r], priority)
    BY DEF PrioInv
  <2>2. Sorted(snd[r], priority') /\ Sorted(cll[r], priority')
    <3>1. snd[r] \in Seq(Task) /\ \A u \in ToSet(snd[r]) : priority'[u] = priority[u]
      BY <1>2, <1>7
    <3>2. cll[r] \in Seq(Task) /\ \A u \in ToSet(cll[r]) : priority'[u] = priority[u]
      BY <1>2, <1>7
    <3>3. Sorted(snd[r], priority')
      BY <2>1, <3>1, SameOrder
    <3>4. Sorted(cll[r], priority')
      BY <2>1, <3>2, SameOrder
    <3> QED
      BY <3>3, <3>4
  <2>3. Sorted(senders'[r], priority') /\ Sorted(callers'[r], priority')
    BY <1>6, <2>2
  <2>4. CASE r = s
    <3>1. Prio(s)' = p
      BY <1>1, <1>6, <1>7, SamePrio DEF p
    <3> QED
      BY <1>1, <1>5, <2>3, <2>4, <3>1
  <2>5. CASE r # s
    <3>1. /\ snd[r] = senders[r] /\ cll[r] = callers[r]
          /\ act[r] = active[r] /\ actPrio[r] = activePrio[r]
          /\ active[r] # None => st[active[r]] = callState[active[r]]
      BY <2>5
    <3>2. /\ senders'[r] = senders[r] /\ callers'[r] = callers[r] /\ active'[r] = active[r]
          /\ activePrio'[r] = activePrio[r]
          /\ active[r] # None => callState'[active[r]] = callState[active[r]]
          /\ \A q \in {senders[r], callers[r]} \ {<<>>} : priority'[q[1]] = priority[q[1]]
      BY <1>1, <1>6, <1>7, <3>1
    <3>3. Prio(r)' = Prio(r)
      BY <3>2, SamePrio DEF Prio
    <3>4. active[r] # None => active[r] \in Task /\ active[r] # s
      BY <1>2 DEF SInv, ActiveInv
    <3>5. priority[r] = Prio(r) /\ (active[r] # None => activePrio[r] = priority[active[r]])
      BY DEF PrioInv
    <3> QED
      BY <1>5, <2>3, <2>5, <3>2, <3>3, <3>4, <3>5
  <2> QED
    BY <2>4, <2>5
<1> QED
  BY <1>8 DEF PrioInv

LEMMA PrioTypes ==
    ASSUME SInv, PrioInv, ServersAskNobody, NEW s \in Server
    PROVE  /\ s \in Task /\ receiver[s] = None
           /\ \A r \in Task : s \notin ToSet(senders[r]) /\ s \notin ToSet(callers[r])
           /\ \A r \in Task : active[r] # s
           /\ \A r \in Task : senders[r] \in Seq(Task) /\ callers[r] \in Seq(Task)
           /\ \A r \in Task : Sorted(senders[r], priority) /\ Sorted(callers[r], priority)
           /\ \A u \in Task : priority[u] \in Nat
           /\ active[s] # None => active[s] \in Task \ {s} /\ activePrio[s] = priority[active[s]]
<1>1. s \in Task /\ receiver[s] = None
  BY DEF ServersAskNobody
<1>2. /\ \A r \in Task : s \notin ToSet(senders[r]) /\ s \notin ToSet(callers[r])
      /\ \A r \in Task : active[r] # s
  BY <1>1 DEF SInv, QueueInv, ActiveInv
<1>3. /\ \A r \in Task : senders[r] \in Seq(Task) /\ callers[r] \in Seq(Task)
      /\ \A u \in Task : priority[u] \in Nat
      /\ active[s] \in Task \cup {None}
  BY <1>1, Types DEF Queues, SynchMesgTypeOK
<1> QED
  BY <1>1, <1>2, <1>3 DEF PrioInv

LEMMA SendBlockPrio ==
    ASSUME SInv, PrioInv, ServersAskNobody, NEW s \in Server, NEW t \in Task,
           NEW timed \in BOOLEAN, SendBlock(t, s, timed)
    PROVE  PrioInv'
<1> DEFINE snd == EnqIn(senders, s, t, priority)
<1>1. /\ MayAsk(t, s) /\ s \in Task
      /\ UpdateReceiverPrio(s, snd, callers, active, activePrio, callState)
  BY DEF SendBlock, EnqIn
<1>2. s # t /\ t \notin ToSet(senders[s])
  BY <1>1, AskerIdle
<1>3. /\ snd \in Queues /\ ToSet(snd[s]) = ToSet(senders[s]) \cup {t}
      /\ \A r \in Task \ {s} : snd[r] = senders[r]
  <2>1. senders \in Queues /\ Once(senders)
    BY Types
  <2> QED
    BY <1>1, <1>2, <2>1, EnqEffect
<1>4. Sorted(snd[s], priority)
  <2>1. snd[s] = TCBQEnqByPrio(senders[s], t, priority)
    BY <1>1, Types DEF EnqIn, Queues
  <2>2. senders[s] \in Seq(Task) /\ Sorted(senders[s], priority) /\ \A u \in Task : priority[u] \in Nat
    BY <1>1, PrioTypes
  <2> QED
    BY <2>1, <2>2, EnqSorted
<1> HIDE DEF snd
<1>5. s \notin ToSet(snd[s]) /\ s \notin ToSet(callers[s]) /\ receiver[s] = None
  BY <1>1, <1>2, <1>3, PrioTypes
<1>6. /\ callers \in Queues /\ activePrio \in Priorities /\ Sorted(callers[s], priority)
      /\ active[s] # None => active[s] \in Task \ {s} /\ activePrio[s] = priority[active[s]]
  BY <1>1, Types, PrioTypes
<1> QED
  BY <1>1, <1>3, <1>4, <1>5, <1>6, UpdatePrio

LEMMA SenderLeavesPrio ==
    ASSUME SInv, PrioInv, ServersAskNobody, NEW s \in Server, NEW t \in Task, SenderLeaves(t, s)
    PROVE  PrioInv'
<1> DEFINE snd == RemFrom(senders, s, t)
<1>1. /\ s \in Task
      /\ UpdateReceiverPrio(s, snd, callers, active, activePrio, callState)
  BY DEF SenderLeaves, RemFrom
<1>2. IsWithout(snd, senders, s, t)
  BY <1>1, Types, RemEffect
<1>3. /\ snd \in Queues /\ ToSet(snd[s]) = ToSet(senders[s]) \ {t}
      /\ \A r \in Task \ {s} : snd[r] = senders[r]
  BY <1>2 DEF IsWithout
<1>4. Sorted(snd[s], priority)
  <2>1. snd[s] = TCBQRem(senders[s], t)
    BY <1>1, Types DEF RemFrom, Queues
  <2>2. senders[s] \in Seq(Task) /\ Sorted(senders[s], priority) /\ \A u \in Task : priority[u] \in Nat
    BY <1>1, PrioTypes
  <2> QED
    BY <2>1, <2>2, RemSorted
<1> HIDE DEF snd
<1>5. s \notin ToSet(snd[s]) /\ s \notin ToSet(callers[s]) /\ receiver[s] = None
  BY <1>1, <1>3, PrioTypes
<1>6. /\ callers \in Queues /\ activePrio \in Priorities /\ Sorted(callers[s], priority)
      /\ active[s] # None => active[s] \in Task \ {s} /\ activePrio[s] = priority[active[s]]
  BY <1>1, Types, PrioTypes
<1> QED
  BY <1>1, <1>3, <1>4, <1>5, <1>6, UpdatePrio

LEMMA CallPrio ==
    ASSUME SInv, PrioInv, ServersAskNobody, NEW s \in Server, NEW t \in Task,
           NEW timed \in BOOLEAN, Call(t, s, timed)
    PROVE  PrioInv'
<1> DEFINE cll == EnqIn(callers, s, t, priority)
           st == [callState EXCEPT ![t] = "QUEUED"]
<1>1. /\ MayAsk(t, s) /\ s \in Task
      /\ UpdateReceiverPrio(s, senders, cll, active, activePrio, st)
  BY DEF Call, EnqIn
<1>2. s # t /\ t \notin ToSet(callers[s]) /\ \A r \in Task : active[r] # t
  BY <1>1, AskerIdle
<1>3. /\ cll \in Queues /\ ToSet(cll[s]) = ToSet(callers[s]) \cup {t}
      /\ \A r \in Task \ {s} : cll[r] = callers[r]
  <2>1. callers \in Queues /\ Once(callers) /\ s \in Task /\ t \notin ToSet(callers[s])
    BY <1>1, <1>2, Types
  <2>2. /\ EnqIn(callers, s, t, priority) \in Queues
        /\ Once(EnqIn(callers, s, t, priority))
        /\ ToSet(EnqIn(callers, s, t, priority)[s]) = ToSet(callers[s]) \cup {t}
        /\ \A r \in Task \ {s} : EnqIn(callers, s, t, priority)[r] = callers[r]
    BY ONLY <2>1, t \in Task, EnqEffect, SMTT(60)
  <2> QED
    BY <2>2
<1>4. Sorted(cll[s], priority)
  <2>1. cll[s] = TCBQEnqByPrio(callers[s], t, priority)
    BY <1>1, Types DEF EnqIn, Queues
  <2>2. callers[s] \in Seq(Task) /\ Sorted(callers[s], priority) /\ \A u \in Task : priority[u] \in Nat
    BY <1>1, PrioTypes
  <2> QED
    BY <2>1, <2>2, EnqSorted
<1> HIDE DEF cll
<1>5. s \notin ToSet(cll[s]) /\ s \notin ToSet(senders[s]) /\ receiver[s] = None
  BY <1>1, <1>2, <1>3, PrioTypes
<1>6. /\ senders \in Queues /\ activePrio \in Priorities /\ Sorted(senders[s], priority)
      /\ active[s] # None => active[s] \in Task \ {s} /\ activePrio[s] = priority[active[s]]
  BY <1>1, Types, PrioTypes
<1>7. \A r \in Task : active[r] # None => st[active[r]] = callState[active[r]]
  BY <1>2, Types
<1> HIDE DEF st
<1> QED
  BY <1>1, <1>3, <1>4, <1>5, <1>6, <1>7, UpdatePrio

LEMMA AcceptTakePrio ==
    ASSUME SInv, PrioInv, ServersAskNobody, NEW s \in Server, AcceptTake(s)
    PROVE  PrioInv'
<1> DEFINE t == Head(callers[s])
           cll == [callers EXCEPT ![s] = Tail(callers[s])]
           act == [active EXCEPT ![s] = t]
           actPrio == [activePrio EXCEPT ![s] = priority[t]]
           st == [callState EXCEPT ![t] = "ACTIVE"]
<1>1. /\ s \in Task /\ callers[s] # <<>>
      /\ UpdateReceiverPrio(s, senders, cll, act, actPrio, st)
  BY DEF AcceptTake
<1>2. /\ s \notin ToSet(callers[s]) /\ s \notin ToSet(senders[s]) /\ receiver[s] = None
      /\ callers[s] \in Seq(Task) /\ Sorted(callers[s], priority) /\ Sorted(senders[s], priority)
      /\ \A u \in Task : priority[u] \in Nat
  BY <1>1, PrioTypes
<1>3. /\ t \in Task /\ t \in ToSet(callers[s]) /\ Tail(callers[s]) \in Seq(Task)
      /\ ToSet(Tail(callers[s])) \subseteq ToSet(callers[s])
  BY <1>1, <1>2, TailLemma
<1>4. t # s /\ callState[t] = "QUEUED"
  BY <1>1, <1>2, <1>3 DEF SInv, QueueInv
<1>5. \A r \in Task : active[r] # t
  BY <1>3, <1>4 DEF SInv, ActiveInv
<1>6. Sorted(Tail(callers[s]), priority)
  BY <1>1, <1>2, TailSorted
<1> HIDE DEF t
<1>7. /\ cll \in Queues /\ cll[s] = Tail(callers[s])
      /\ \A r \in Task \ {s} : cll[r] = callers[r]
  BY <1>1, <1>3, Types DEF Queues
<1>8. /\ act[s] = t /\ actPrio[s] = priority[t] /\ actPrio \in Priorities
      /\ \A r \in Task \ {s} : act[r] = active[r] /\ actPrio[r] = activePrio[r]
  BY <1>1, <1>2, <1>3, Types DEF Priorities
<1>9. \A r \in Task : active[r] # None => st[active[r]] = callState[active[r]]
  BY <1>5, Types
<1> HIDE DEF cll, act, actPrio, st
<1>10. senders \in Queues
  BY Types
<1>11. \A r \in Task \ {s} :
          /\ senders[r] = senders[r] /\ cll[r] = callers[r]
          /\ act[r] = active[r] /\ actPrio[r] = activePrio[r]
          /\ active[r] # None => st[active[r]] = callState[active[r]]
  BY <1>7, <1>8, <1>9
<1>12. s \notin ToSet(cll[s]) /\ Sorted(cll[s], priority)
  BY <1>2, <1>3, <1>6, <1>7
<1>13. act[s] # None => act[s] \in Task \ {s} /\ actPrio[s] = priority[act[s]]
  BY <1>3, <1>4, <1>8
<1> QED
  BY <1>1, <1>2, <1>7, <1>8, <1>10, <1>11, <1>12, <1>13, UpdatePrio

LEMMA ReplyPrio ==
    ASSUME SInv, PrioInv, ServersAskNobody, NEW s \in Server, Reply(s)
    PROVE  PrioInv'
<1> DEFINE t == active[s]
           act == [active EXCEPT ![s] = None]
           actPrio == [activePrio EXCEPT ![s] = prioNominal[s]]
           st == [callState EXCEPT ![t] = "IDLE"]
<1>1. /\ s \in Task /\ t # None /\ receiver[t] = s
      /\ UpdateReceiverPrio(s, senders, callers, act, actPrio, st)
  BY DEF Reply
<1>2. /\ s \notin ToSet(callers[s]) /\ s \notin ToSet(senders[s]) /\ receiver[s] = None
      /\ Sorted(callers[s], priority) /\ Sorted(senders[s], priority)
  BY <1>1, PrioTypes
<1>3. t \in Task /\ \A r \in Task \ {s} : active[r] # t
  BY <1>1, Types DEF SInv, ActiveInv
<1> HIDE DEF t
<1>4. /\ act[s] = None /\ actPrio \in Priorities
      /\ \A r \in Task \ {s} : act[r] = active[r] /\ actPrio[r] = activePrio[r]
  BY <1>1, Types DEF Priorities
<1>5. \A r \in Task \ {s} : active[r] # None => st[active[r]] = callState[active[r]]
  BY <1>3, Types
<1> HIDE DEF act, actPrio, st
<1>6. senders \in Queues /\ callers \in Queues
  BY Types
<1> QED
  BY <1>1, <1>2, <1>4, <1>5, <1>6, UpdatePrio

LEMMA TimeoutCallPrio ==
    ASSUME SInv, PrioInv, ServersAskNobody, NEW t \in Task, NEW s \in Server, receiver[t] = s,
           \/ DropCall(t, s) /\ callState[t] = "QUEUED"
           \/ AbandonCall(t, s)
    PROVE  PrioInv'
<1>1. /\ s \notin ToSet(callers[s]) /\ s \notin ToSet(senders[s]) /\ receiver[s] = None
      /\ Sorted(callers[s], priority) /\ Sorted(senders[s], priority) /\ s \in Task
      /\ callers[s] \in Seq(Task) /\ \A u \in Task : priority[u] \in Nat
      /\ active[s] # None => active[s] \in Task \ {s} /\ activePrio[s] = priority[active[s]]
  BY PrioTypes
<1>2. \A r \in Task \ {s} : active[r] # t
  BY DEF SInv, ActiveInv
<1>3. senders \in Queues /\ callers \in Queues /\ Once(callers) /\ activePrio \in Priorities
  BY Types
<1>4. CASE AbandonCall(t, s)
  <2> DEFINE st == [callState EXCEPT ![t] = "ABANDONED"]
  <2>1. UpdateReceiverPrio(s, senders, callers, active, activePrio, st)
    BY <1>4 DEF AbandonCall
  <2>2. \A r \in Task \ {s} : active[r] # None => st[active[r]] = callState[active[r]]
    BY <1>2, Types
  <2> HIDE DEF st
  <2>3. \A r \in Task \ {s} :
           /\ senders[r] = senders[r] /\ callers[r] = callers[r]
           /\ active[r] = active[r] /\ activePrio[r] = activePrio[r]
           /\ active[r] # None => st[active[r]] = callState[active[r]]
    BY <2>2
  <2>4. /\ s \in Task /\ receiver[s] = None /\ senders \in Queues /\ callers \in Queues
        /\ activePrio \in Priorities /\ s \notin ToSet(senders[s]) /\ s \notin ToSet(callers[s])
        /\ Sorted(senders[s], priority) /\ Sorted(callers[s], priority)
        /\ active[s] # None => active[s] \in Task \ {s} /\ activePrio[s] = priority[active[s]]
    BY <1>1, <1>3
  <2> QED
    BY ONLY SInv, PrioInv, <2>1, <2>3, <2>4, UpdatePrio
<1>5. CASE DropCall(t, s)
  <2> DEFINE st == [callState EXCEPT ![t] = "IDLE"]
             cll == RemFrom(callers, s, t)
  <2>1. UpdateReceiverPrio(s, senders, cll, active, activePrio, st)
    BY <1>5 DEF DropCall, RemFrom
  <2>2. \A r \in Task \ {s} : active[r] # None => st[active[r]] = callState[active[r]]
    BY <1>2, Types
  <2>3. IsWithout(cll, callers, s, t)
    BY <1>1, <1>3, RemEffect
  <2>4. Sorted(cll[s], priority)
    <3>1. cll[s] = TCBQRem(callers[s], t)
      BY <1>1, <1>3 DEF RemFrom, Queues
    <3> QED
      BY <1>1, <3>1, RemSorted
  <2> HIDE DEF st, cll
  <2>5. /\ cll \in Queues /\ s \notin ToSet(cll[s])
        /\ \A r \in Task \ {s} : cll[r] = callers[r]
    BY <1>1, <2>3 DEF IsWithout
  <2>6. \A r \in Task \ {s} :
           /\ senders[r] = senders[r] /\ cll[r] = callers[r]
           /\ active[r] = active[r] /\ activePrio[r] = activePrio[r]
           /\ active[r] # None => st[active[r]] = callState[active[r]]
    BY <2>2, <2>5
  <2>7. /\ s \in Task /\ receiver[s] = None /\ senders \in Queues /\ cll \in Queues
        /\ activePrio \in Priorities /\ s \notin ToSet(senders[s]) /\ s \notin ToSet(cll[s])
        /\ Sorted(senders[s], priority) /\ Sorted(cll[s], priority)
        /\ active[s] # None => active[s] \in Task \ {s} /\ activePrio[s] = priority[active[s]]
    BY <1>1, <1>3, <2>4, <2>5
  <2> QED
    BY ONLY SInv, PrioInv, <2>1, <2>6, <2>7, UpdatePrio
<1> QED
  BY <1>4, <1>5

(* No other step touches what the priorities come from. *)
LEMMA PrioStays ==
    ASSUME PrioInv,
           UNCHANGED <<senders, callers, active, activePrio, callState, priority>>
    PROVE  PrioInv'
<1>1. ASSUME NEW s \in Task PROVE Prio(s)' = Prio(s)
  BY SamePrio DEF Prio
<1> QED
  BY <1>1 DEF PrioInv

(***************************************************************************)
(* Whom a task waits for is a server, and another task.                    *)
(***************************************************************************)
LEMMA AskedStep ==
    ASSUME SInv, AskedInv, [SynchMesgNext]_vars
    PROVE  AskedInv'
<1>1. receiver \in [Task -> Task \cup {None}] /\ pending \in [Task -> Task \cup {None}]
  BY Types DEF Pendings
<1>2. CASE UNCHANGED receiver
  BY <1>2 DEF AskedInv
<1>3. ASSUME NEW t \in Task, receiver' = [receiver EXCEPT ![t] = None] PROVE AskedInv'
  BY <1>1, <1>3 DEF AskedInv
<1>4. ASSUME NEW t \in Task, NEW s \in Server \ {t}, receiver' = [receiver EXCEPT ![t] = s]
      PROVE  AskedInv'
  BY <1>1, <1>4 DEF AskedInv
<1>5. CASE UNCHANGED vars
  BY <1>2, <1>5 DEF vars, taskVars
<1>6. ASSUME NEW s \in Server, NEW timed \in BOOLEAN,
             \/ MesgInit(s) \/ AcceptTake(s)
             \/ RecvBlock(s, timed) \/ AcceptBlock(s, timed)
      PROVE  AskedInv'
  BY <1>2, <1>6 DEF MesgInit, AcceptTake, RecvBlock, AcceptBlock, taskVars
<1>7. ASSUME NEW s \in Server, Recv(s) PROVE AskedInv'
  <2>1. pending[s] \in Task /\ receiver' = [receiver EXCEPT ![pending[s]] = None]
    BY <1>1, <1>7 DEF Recv, SenderLeaves
  <2> QED
    BY <1>3, <2>1
<1>8. ASSUME NEW s \in Server, Reply(s) PROVE AskedInv'
  <2>1. active[s] \in Task /\ receiver' = [receiver EXCEPT ![active[s]] = None]
    BY <1>8, Types DEF Reply
  <2> QED
    BY <1>3, <2>1
<1>9. ASSUME NEW s \in Server, NEW timed \in BOOLEAN, NEW t \in Task,
             SendBlock(t, s, timed) \/ Call(t, s, timed)
      PROVE  AskedInv'
  <2>1. s # t /\ receiver' = [receiver EXCEPT ![t] = s]
    BY <1>9 DEF SendBlock, Call, MayAsk
  <2> QED
    BY <1>4, <2>1
<1>10. ASSUME NEW s \in Server, NEW t \in Task, SendDirect(t, s) PROVE AskedInv'
  BY <1>2, <1>10 DEF SendDirect
<1>11. ASSUME NEW t \in Task, Success(t) \/ Timeout(t) PROVE AskedInv'
  BY <1>2, <1>11 DEF Success, Timeout
<1>12. ASSUME NEW t \in Task, Expire(t) PROVE AskedInv'
  <2>1. UNCHANGED receiver \/ receiver' = [receiver EXCEPT ![t] = None]
    BY <1>12 DEF Expire, TimeoutSend, SenderLeaves, TimeoutCall, DropCall, AbandonCall
  <2> QED
    BY <1>2, <1>3, <2>1
<1> QED
  BY <1>5, <1>6, <1>7, <1>8, <1>9, <1>10, <1>11, <1>12 DEF SynchMesgNext

(***************************************************************************)
(* Every step keeps the priorities.                                        *)
(***************************************************************************)
LEMMA ExpirePrio ==
    ASSUME SInv, AskedInv, PrioInv, ServersAskNobody, NEW t \in Task, Expire(t)
    PROVE  PrioInv'
<1>1. t \in armed /\ receiver[t] \in Server \cup {None} /\ AskInv(t)
  BY DEF Expire, AskedInv, SInv
<1>2. CASE call[t] = "send"
  <2>1. receiver[t] \in Server
    BY <1>1, <1>2, ArmedWaits
  <2>2. SenderLeaves(t, receiver[t])
    BY <1>2 DEF Expire, TimeoutSend
  <2> QED
    BY <2>1, <2>2, SenderLeavesPrio
<1>3. CASE call[t] = "call"
  <2>1. callState[t] \in {"QUEUED", "ACTIVE"}
    BY <1>1, <1>3, ArmedWaits
  <2>2. receiver[t] \in Server
    BY <1>1, <2>1 DEF AskInv
  <2>3. \/ DropCall(t, receiver[t]) /\ callState[t] = "QUEUED"
        \/ AbandonCall(t, receiver[t])
    BY <1>3 DEF Expire, TimeoutCall
  <2> QED
    BY <2>2, <2>3, TimeoutCallPrio
<1>4. CASE call[t] \notin {"send", "call"}
  <2>1. UNCHANGED <<senders, callers, active, activePrio, callState, priority>>
    BY <1>4 DEF Expire, serverVars
  <2> QED
    BY <2>1, PrioStays
<1> QED
  BY <1>2, <1>3, <1>4

LEMMA PrioStep ==
    ASSUME SInv, AskedInv, PrioInv, ServersAskNobody, [SynchMesgNext]_vars
    PROVE  PrioInv'
<1> DEFINE Same == UNCHANGED <<senders, callers, active, activePrio, callState, priority>>
<1>1. CASE UNCHANGED vars
  <2>1. Same
    BY <1>1 DEF vars, serverVars, taskVars
  <2> QED
    BY <2>1, PrioStays
<1>2. ASSUME NEW s \in Server, NEW timed \in BOOLEAN,
             MesgInit(s) \/ RecvBlock(s, timed) \/ AcceptBlock(s, timed)
      PROVE  PrioInv'
  <2>1. Same
    BY <1>2 DEF MesgInit, RecvBlock, AcceptBlock, serverVars, taskVars
  <2> QED
    BY <2>1, PrioStays
<1>3. ASSUME NEW s \in Server, Recv(s) PROVE PrioInv'
  <2>1. pending[s] \in Task /\ SenderLeaves(pending[s], s)
    BY <1>3, Types DEF Recv, Pendings
  <2> QED
    BY <2>1, SenderLeavesPrio
<1>4. ASSUME NEW s \in Server, AcceptTake(s) \/ Reply(s) PROVE PrioInv'
  BY <1>4, AcceptTakePrio, ReplyPrio
<1>5. ASSUME NEW s \in Server, NEW timed \in BOOLEAN, NEW t \in Task,
             SendDirect(t, s) \/ SendBlock(t, s, timed) \/ Call(t, s, timed)
      PROVE  PrioInv'
  <2>1. CASE SendDirect(t, s)
    <3>1. Same
      BY <2>1 DEF SendDirect, serverVars
    <3> QED
      BY <3>1, PrioStays
  <2>2. CASE SendBlock(t, s, timed)
    BY <2>2, SendBlockPrio
  <2>3. CASE Call(t, s, timed)
    BY <2>3, CallPrio
  <2> QED
    BY <1>5, <2>1, <2>2, <2>3
<1>6. ASSUME NEW t \in Task, Success(t) \/ Timeout(t) PROVE PrioInv'
  <2>1. Same
    BY <1>6 DEF Success, Timeout, serverVars
  <2> QED
    BY <2>1, PrioStays
<1>7. ASSUME NEW t \in Task, Expire(t) PROVE PrioInv'
  BY <1>7, ExpirePrio
<1> QED
  BY <1>1, <1>2, <1>3, <1>4, <1>5, <1>6, <1>7 DEF SynchMesgNext

LEMMA PrioInit == SynchMesgInit => AskedInv /\ PrioInv
<1> SUFFICES ASSUME SynchMesgInit PROVE AskedInv /\ PrioInv
  OBVIOUS
<1>1. AskedInv
  BY DEF SynchMesgInit, AskedInv
<1>2. ASSUME NEW s \in Task
      PROVE  /\ Sorted(senders[s], priority) /\ Sorted(callers[s], priority)
             /\ active[s] = None
             /\ priority[s] = Prio(s)
  <2>1. senders[s] = <<>> /\ callers[s] = <<>> /\ active[s] = None
    BY DEF SynchMesgInit
  <2>2. Sorted(<<>>, priority)
    BY EmptySeq DEF Sorted
  <2>3. priority[s] = prioNominal[s] /\ prioNominal[s] \in Nat
    BY DEF SynchMesgInit
  <2> DEFINE L == {prioNominal[s]}
  <2>4. L \in SUBSET Nat /\ L # {}
    BY <2>3
  <2>5. Prio(s) = Min(L)
    BY <2>1 DEF Prio, SynchMesgPrio
  <2>6. Min(L) \in L
    <3> HIDE DEF L
    <3> QED
      BY <2>4, MinOfNats
  <2> QED
    BY <2>1, <2>2, <2>3, <2>5, <2>6
<1> QED
  BY <1>1, <1>2 DEF PrioInv

(* While no server asks another one, each runs exactly at the best         *)
(* priority of those who wait for it, for any servers and tasks, whoever   *)
(* gives up and when.                                                      *)
THEOREM ServerPriorityHolds == SynchMesgSpec /\ []ServersAskNobody => []ServerPriority
<1>1. SInv /\ AskedInv /\ [SynchMesgNext]_vars => AskedInv'
  BY AskedStep
<1>2. SInv /\ AskedInv /\ PrioInv /\ ServersAskNobody /\ [SynchMesgNext]_vars => PrioInv'
  BY PrioStep
<1>3. SInv /\ PrioInv => ServerPriority
  BY BestOfAll
<1> QED
  BY <1>1, <1>2, <1>3, PrioInit, SynchMesgInvariant, PTL DEF SynchMesgSpec

(* With a single server there is no other one to ask: it always runs at    *)
(* the best priority of those who wait for it.                             *)
THEOREM SingleServerPriority ==
    ASSUME \A r, s \in Server : r = s
    PROVE  SynchMesgSpec => []ServerPriority
<1>1. SInv /\ AskedInv /\ [SynchMesgNext]_vars => AskedInv'
  BY AskedStep
<1>2. AskedInv => ServersAskNobody
  BY DEF AskedInv, ServersAskNobody
<1> QED
  BY <1>1, <1>2, PrioInit, SynchMesgInvariant, ServerPriorityHolds, PTL DEF SynchMesgSpec
=============================================================================
