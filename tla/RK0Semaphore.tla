---------------------------- MODULE RK0Semaphore ----------------------------
(***************************************************************************)
(* What RK0's semaphores promise: a post adds a token, or gives it straight *)
(* to one waiter; a pend takes a token or waits for one; a waiter may give *)
(* up only while it has not been given a token; nobody waits while a token *)
(* is there; and a pend reports success exactly if it got a token.         *)
(***************************************************************************)
EXTENDS Naturals

CONSTANTS Task, Sema, NoQueue, InitValue, MaxValue

VARIABLES
    tokens, \* the tokens of each semaphore
    wanted, \* the semaphore of the pend a task is suspended in, or NoQueue
    call    \* how far that pend is

absVars == <<tokens, wanted, call>>

AbsInit ==
    /\ tokens = InitValue
    /\ wanted = [t \in Task |-> NoQueue]
    /\ call = [t \in Task |-> "idle"]

Waiting(s) == {t \in Task : call[t] = "waiting" /\ wanted[t] = s}

Take(s) ==
    /\ tokens[s] > 0
    /\ tokens' = [tokens EXCEPT ![s] = @ - 1]
    /\ UNCHANGED <<wanted, call>>

Wait(t, s) ==
    /\ call[t] = "idle"
    /\ tokens[s] = 0
    /\ wanted' = [wanted EXCEPT ![t] = s]
    /\ call' = [call EXCEPT ![t] = "waiting"]
    /\ UNCHANGED tokens

Add(s) ==
    /\ Waiting(s) = {}
    /\ tokens[s] < MaxValue[s]
    /\ tokens' = [tokens EXCEPT ![s] = @ + 1]
    /\ UNCHANGED <<wanted, call>>

Give(s) ==
    /\ \E t \in Waiting(s) : call' = [call EXCEPT ![t] = "granted"]
    /\ UNCHANGED <<tokens, wanted>>

GiveUp(t) ==
    /\ call[t] = "waiting"
    /\ call' = [call EXCEPT ![t] = "expired"]
    /\ UNCHANGED <<tokens, wanted>>

Return(t, from) ==
    /\ call[t] = from
    /\ wanted' = [wanted EXCEPT ![t] = NoQueue]
    /\ call' = [call EXCEPT ![t] = "idle"]
    /\ UNCHANGED tokens

AbsNext ==
    \/ \E s \in Sema : Take(s) \/ Add(s) \/ Give(s)
    \/ \E t \in Task : \/ \E s \in Sema : Wait(t, s)
                       \/ GiveUp(t)
                       \/ Return(t, "granted") \/ Return(t, "expired")

AbsSpec == AbsInit /\ [][AbsNext]_absVars
=============================================================================
