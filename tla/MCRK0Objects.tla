---------------------------- MODULE MCRK0Objects ----------------------------
(***************************************************************************)
(* A small instance of RK0Objects, and of RK0MRM.  They have no variable   *)
(* in common: a behaviour of the run is one of either while the other      *)
(* stays at its start.                                                     *)
(***************************************************************************)
EXTENDS RK0Objects, RK0MRM, TLC

CONSTANTS main, postproc, s1, s2, k1, k2, k3, sema, mutex, mesgq, b1, b2, b3, d1, d2, d3

MCTcbs == <<s1, s2>>
MCStacks == <<k1, k2, k3>>
MCAttr == {[prio |-> 0, preempt |-> TRUE], [prio |-> 1, preempt |-> FALSE]}
MCObjects == [SEMAPHORE |-> <<sema>>, MUTEX |-> <<mutex>>, MESGQ |-> <<mesgq>>]

MCMrmPool == <<b1, b2, b3>>
MCMesgPool == <<d1, d2, d3>>

MCInit == ObjectsInit /\ MRMInit
MCNext ==
    \/ MRMInit /\ ObjectsNext /\ UNCHANGED mrmVars
    \/ ObjectsInit /\ MRMNext /\ UNCHANGED vars
MCSpec == MCInit /\ [][MCNext]_<<vars, mrmVars>>
=============================================================================
