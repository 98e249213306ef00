------------------------------ MODULE RK0Delta ------------------------------
(***************************************************************************)
(* The delta lists of core/src/ktimer.c.  A node's dtick is what it has to *)
(* go beyond the node before it, so that a tick only counts down the head. *)
(* A list is the sequence of its nodes; dtick is a function of all nodes.  *)
(***************************************************************************)
EXTENDS Integers, SequencesExt

(* How far the node at position i is from expiring: dtick added up to i.   *)
DueIn(list, dtick, i) ==
    LET due[k \in 0 .. Len(list)] == IF k = 0 THEN 0 ELSE due[k - 1] + dtick[list[k]]
    IN  due[i]

(* The nodes that have nothing to go any more are at the front. *)
Expired(list, dtick) == {list[i] : i \in {j \in 1 .. Len(list) : DueIn(list, dtick, j) = 0}}

(* kTimeoutListInsertDelta_ and the part of kTimeoutNodeAdd before it: the *)
(* walk passes the nodes that expire before delay, and stops in front of   *)
(* one that expires at the same tick.  The result is a record.             *)
InsertDelta(list, dtick, node, delay) ==
    LET at   == Min({i \in 1 .. Len(list) : DueIn(list, dtick, i) >= delay} \cup {Len(list) + 1})
        rest == delay - DueIn(list, dtick, at - 1)
    IN  [list  |-> InsertAt(list, at, node),
         dtick |-> [n \in DOMAIN dtick |->
                       CASE n = node -> rest
                         [] at <= Len(list) /\ n = list[at] -> dtick[n] - rest
                         [] OTHER -> dtick[n]]]

(* kRemoveTimeoutNode: the next node inherits what this one had to go.     *)
(* Fault: it does not.                                                     *)
RemoveNodeOnly(list, dtick, node) ==
    [list |-> RemoveFirst(list, node), dtick |-> [dtick EXCEPT ![node] = 0]]

RemoveNode(list, dtick, node) ==
    LET at == CHOOSE i \in 1 .. Len(list) : list[i] = node IN
    [list  |-> RemoveFirst(list, node),
     dtick |-> [n \in DOMAIN dtick |->
                   CASE n = node -> 0
                     [] at < Len(list) /\ n = list[at + 1] -> dtick[n] + dtick[node]
                     [] OTHER -> dtick[n]]]

(* A tick counts down the head, unless that has expired already. *)
TickHead(list, dtick) ==
    IF list # <<>> /\ dtick[Head(list)] > 0
      THEN [dtick EXCEPT ![Head(list)] = @ - 1]
      ELSE dtick
=============================================================================
