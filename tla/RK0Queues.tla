----------------------------- MODULE RK0Queues ------------------------------
(***************************************************************************)
(* Task queues (RK_TCBQ, core/src/ksch.c), as sequences.                   *)
(***************************************************************************)
EXTENDS Integers, SequencesExt, FiniteSets

(* kTCBQRem: unlink the node of t. *)
TCBQRem(q, t) == RemoveFirst(q, t)

(* Every task of the set ts is unlinked; the others keep their order. *)
TCBQWithout(q, ts) ==
    LET keep  == {i \in DOMAIN q : q[i] \notin ts}
        place == [i \in keep |-> Cardinality({j \in keep : j <= i})]
    IN  [n \in 1 .. Cardinality(keep) |-> q[CHOOSE i \in keep : place[i] = n]]

(* Fault: the queue is kept in order of arrival. *)
TCBQEnqFifo(q, t, prio) == Append(q, t)

(* kTCBQEnqByPrio: t goes behind every task at its priority or above, prio *)
(* giving the priorities the list is scanned with.                         *)
TCBQEnqByPrio(q, t, prio) ==
    InsertAt(q, Min({i \in 1 .. Len(q) : prio[q[i]] > prio[t]} \cup {Len(q) + 1}), t)
=============================================================================
