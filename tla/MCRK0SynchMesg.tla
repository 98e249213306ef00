-------------------------- MODULE MCRK0SynchMesg ----------------------------
(***************************************************************************)
(* Small instances of RK0SynchMesg.                                        *)
(***************************************************************************)
EXTENDS RK0SynchMesg

CONSTANTS t1, t2, t3, t4

MCTask == {t1, t2, t3, t4}
MCPrioNominal == (t1 :> 1) @@ (t2 :> 2) @@ (t3 :> 2) @@ (t4 :> 3)
=============================================================================
