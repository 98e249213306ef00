----------------------------- MODULE MCRK0Sleep -----------------------------
(***************************************************************************)
(* A small instance of RK0Sleep: a task that waits for event flags and one *)
(* that sleeps in every way, on a counter of type 0 .. 5.                  *)
(***************************************************************************)
EXTENDS RK0Sleep

CONSTANTS worker, waiter, f1, f2

MCTask == {worker, waiter}
MCWant == {<<{f1, f2}, "ALL">>, <<{f1, f2}, "ANY">>}
MCMask == {{f1}, {f2}}
=============================================================================
