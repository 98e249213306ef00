----------------------------- MODULE MCRK0Mesg ------------------------------
(***************************************************************************)
(* Small instances of RK0Mesg.                                             *)
(***************************************************************************)
EXTENDS RK0Mesg

CONSTANTS t1, t2, t3, p1, m1, m2

MCTask == {t1, t2, t3}
MCPrioNominal == (t1 :> 2) @@ (t2 :> 3) @@ (t3 :> 4)

MCPool == {p1}
MCMemPool == p1 :> <<m1, m2>>
MCCeiling == p1 :> 1
=============================================================================
