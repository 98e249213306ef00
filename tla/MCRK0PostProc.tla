---------------------------- MODULE MCRK0PostProc ---------------------------
(***************************************************************************)
(* A small instance of RK0PostProc: a periodic timer and a one-shot due   *)
(* at the same time, and a ring for two jobs.                              *)
(***************************************************************************)
EXTENDS RK0PostProc

CONSTANTS every, once

MCPeriod == (every :> 2) @@ (once :> 1)
MCPhase  == (every :> 0) @@ (once :> 1)
=============================================================================
