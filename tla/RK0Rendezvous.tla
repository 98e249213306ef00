---------------------------- MODULE RK0Rendezvous ----------------------------
(***************************************************************************)
(* What synchronous messages promise: a sender or caller offers a request  *)
(* to one server; the server takes it or it is withdrawn, never both; a    *)
(* server works on one call at a time, and the answer goes to the caller   *)
(* it works for, or to nobody if that one gave up.                         *)
(***************************************************************************)
CONSTANTS Task, Nobody

VARIABLES
    stage,  \* of the request of each task
    serving \* the caller a server works for

RendezvousInit ==
    /\ stage = [t \in Task |-> "idle"]
    /\ serving = [t \in Task |-> Nobody]

Offer(t) == stage[t] = "idle" /\ stage' = [stage EXCEPT ![t] = "offered"] /\ UNCHANGED serving

(* A message that a server waits for is received as it is sent. *)
Copied(t) ==
    /\ stage[t] = "offered"
    /\ stage' = [stage EXCEPT ![t] = "done"]
    /\ UNCHANGED serving

Accepted(t, s) ==
    /\ stage[t] = "offered"
    /\ serving[s] = Nobody
    /\ stage' = [stage EXCEPT ![t] = "accepted"]
    /\ serving' = [serving EXCEPT ![s] = t]

Withdraw(t) ==
    /\ stage[t] \in {"offered", "accepted"}
    /\ stage' = [stage EXCEPT ![t] = IF stage[t] = "offered" THEN "withdrawn" ELSE "abandoned"]
    /\ UNCHANGED serving

(* Only the answer to a call given up lets its caller ask anew. *)
Answer(s, t) ==
    /\ serving[s] = t
    /\ serving' = [serving EXCEPT ![s] = Nobody]
    /\ \/ stage[t] = "accepted" /\ stage' = [stage EXCEPT ![t] = "done"]
       \/ stage[t] = "abandoned" /\ stage' = [stage EXCEPT ![t] = "withdrawn"]
       \/ stage[t] = "abandoned" /\ stage' = [stage EXCEPT ![t] = "idle"]

Return(t) ==
    /\ stage[t] \in {"done", "withdrawn"}
    /\ stage' = [stage EXCEPT ![t] = "idle"]
    /\ UNCHANGED serving

RendezvousNext ==
    \/ \E t \in Task : Offer(t) \/ Copied(t) \/ Withdraw(t) \/ Return(t)
    \/ \E t, s \in Task : Accepted(t, s) \/ Answer(s, t)

RendezvousSpec == RendezvousInit /\ [][RendezvousNext]_<<stage, serving>>
=============================================================================
