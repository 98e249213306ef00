------------------------------ MODULE MCRK0Wait -----------------------------
(***************************************************************************)
(* Small instances of RK0Wait: idle and three tasks hi, mid, lo.           *)
(***************************************************************************)
EXTENDS RK0Wait

CONSTANTS hi, mid, lo, idle, sema, sleepq

MCTask  == {hi, mid, lo, idle}
MCPair  == {hi, lo, idle}
MCPairPrios == (hi :> 0) @@ (lo :> 2) @@ (idle :> 3)
MCPrios == (hi :> 0) @@ (mid :> 1) @@ (lo :> 2) @@ (idle :> 3)
MCInit  == [s \in Sema |-> 1]
MCMax   == [s \in Sema |-> 2]
=============================================================================
