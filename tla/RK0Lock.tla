------------------------------ MODULE RK0Lock -------------------------------
(***************************************************************************)
(* What RK0's mutexes promise their users, whatever the scheduler and the  *)
(* clock do: a mutex has one owner at most, who alone releases it; a       *)
(* release with tasks waiting gives the mutex to one of them; a waiter may *)
(* give up only while it has not been given the mutex; and a call reports  *)
(* success exactly to an owner.                                            *)
(***************************************************************************)
CONSTANTS Task, NoTask, Mutex, NoMutex

VARIABLES
    owner,  \* the owner of each mutex, or NoTask
    wanted, \* the mutex of the lock call a task is suspended in, or NoMutex
    call    \* how far that call is

absVars == <<owner, wanted, call>>

AbsTypeOK ==
    /\ owner \in [Mutex -> Task \cup {NoTask}]
    /\ wanted \in [Task -> Mutex \cup {NoMutex}]
    /\ call \in [Task -> {"idle", "waiting", "granted", "expired"}]

AbsInit ==
    /\ owner = [m \in Mutex |-> NoTask]
    /\ wanted = [t \in Task |-> NoMutex]
    /\ call = [t \in Task |-> "idle"]

Waiting(m) == {t \in Task : call[t] = "waiting" /\ wanted[t] = m}

(* Each action is a step of a task t that is in no lock call, except for    *)
(* the last two.                                                           *)
Take(t, m) ==
    /\ call[t] = "idle"
    /\ owner[m] = NoTask
    /\ owner' = [owner EXCEPT ![m] = t]
    /\ UNCHANGED <<wanted, call>>

Wait(t, m) ==
    /\ call[t] = "idle"
    /\ owner[m] \notin {t, NoTask}
    /\ wanted' = [wanted EXCEPT ![t] = m]
    /\ call' = [call EXCEPT ![t] = "waiting"]
    /\ UNCHANGED owner

Release(t, m) ==
    /\ call[t] = "idle"
    /\ owner[m] = t
    /\ Waiting(m) = {}
    /\ owner' = [owner EXCEPT ![m] = NoTask]
    /\ UNCHANGED <<wanted, call>>

Give(t, m) ==
    /\ call[t] = "idle"
    /\ owner[m] = t
    /\ \E w \in Waiting(m) :
          /\ owner' = [owner EXCEPT ![m] = w]
          /\ call' = [call EXCEPT ![w] = "granted"]
    /\ UNCHANGED wanted

GiveUp(t) ==
    /\ call[t] = "waiting"
    /\ call' = [call EXCEPT ![t] = "expired"]
    /\ UNCHANGED <<owner, wanted>>

Return(t, from) ==
    /\ call[t] = from
    /\ wanted' = [wanted EXCEPT ![t] = NoMutex]
    /\ call' = [call EXCEPT ![t] = "idle"]
    /\ UNCHANGED owner

AbsNext ==
    \E t \in Task :
        \/ \E m \in Mutex : Take(t, m) \/ Wait(t, m) \/ Release(t, m) \/ Give(t, m)
        \/ GiveUp(t)
        \/ Return(t, "granted") \/ Return(t, "expired")

AbsSpec == AbsInit /\ [][AbsNext]_absVars
=============================================================================
