--------------------------- MODULE MCRK0MesgQueue ---------------------------
(***************************************************************************)
(* Small instances of RK0MesgQueue.                                        *)
(***************************************************************************)
EXTENDS RK0MesgQueue

CONSTANTS t1, t2, t3

MCTask == {t1, t2, t3}
MCPrio == (t1 :> 1) @@ (t2 :> 2) @@ (t3 :> 2)
=============================================================================
