----------------------------- MODULE MCRK0Mutex -----------------------------
(***************************************************************************)
(* Small instances of RK0Mutex: the idle task and three tasks hi, mid, lo  *)
(* of different nominal priorities, or two of them equal, and two mutexes. *)
(***************************************************************************)
EXTENDS RK0Mutex

CONSTANTS hi, mid, lo, idle

MCTask        == {hi, mid, lo, idle}
MCPrios       == (hi :> 0) @@ (mid :> 1) @@ (lo :> 2) @@ (idle :> 3)
MCPriosTied   == (hi :> 0) @@ (mid :> 1) @@ (lo :> 1) @@ (idle :> 2)
=============================================================================
