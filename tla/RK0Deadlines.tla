--------------------------- MODULE RK0Deadlines -----------------------------
(***************************************************************************)
(* What a list of timeouts promises: every armed node expires with the     *)
(* tick that is the delay-th after it was armed, all nodes due at a tick   *)
(* with that tick, unless it is disarmed first.                            *)
(***************************************************************************)
EXTENDS Integers

CONSTANTS
    Node,     \* the timeout nodes
    MaxDelay  \* the longest delay

VARIABLE remaining \* of each armed node, how many ticks it has to go

DeadlinesInit == remaining = [n \in {} |-> 0]

Set(nodes) == [n \in nodes |-> remaining[n]]

Arm ==
    \E n \in Node \ DOMAIN remaining, d \in 1 .. MaxDelay :
        remaining' = [m \in DOMAIN remaining \cup {n} |-> IF m = n THEN d ELSE remaining[m]]

Disarm == \E n \in DOMAIN remaining : remaining' = Set(DOMAIN remaining \ {n})

(* The nodes with one tick to go expire. *)
TickOne ==
    remaining' = [n \in {m \in DOMAIN remaining : remaining[m] > 1} |-> remaining[n] - 1]

DeadlinesNext == Arm \/ Disarm \/ TickOne

DeadlinesSpec == DeadlinesInit /\ [][DeadlinesNext]_remaining
=============================================================================
