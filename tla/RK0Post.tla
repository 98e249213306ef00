------------------------------- MODULE RK0Post ------------------------------
(***************************************************************************)
(* What asynchronous direct messages promise: a message buffer is free, in *)
(* the hands of one task, or on its way to one task; on that way no buffer *)
(* is lost, and none overtakes one that the same task sent earlier.        *)
(***************************************************************************)
EXTENDS Integers, Sequences

CONSTANTS Task, Mesg, Nobody

VARIABLES
    holder, \* the task that has the buffer in its hands, or Nobody
    origin, \* the task that sent it last, or Nobody since it was acquired
    mail    \* to each task: the buffers on their way

OnTheWay(m) == \E t \in Task : \E i \in 1 .. Len(mail[t]) : mail[t][i] = m

PostInit ==
    /\ holder = [m \in Mesg |-> Nobody]
    /\ origin = [m \in Mesg |-> Nobody]
    /\ mail = [t \in Task |-> <<>>]

Acquire(m, t) ==
    /\ holder[m] = Nobody
    /\ ~OnTheWay(m)
    /\ holder' = [holder EXCEPT ![m] = t]
    /\ UNCHANGED <<origin, mail>>

(* The buffer becomes free, or goes straight to a task that waits for one. *)
Release(m, next) ==
    /\ holder[m] # Nobody
    /\ holder' = [holder EXCEPT ![m] = next]
    /\ origin' = [origin EXCEPT ![m] = Nobody]
    /\ UNCHANGED mail

Post(m, to) ==
    /\ holder[m] # Nobody
    /\ origin' = [origin EXCEPT ![m] = holder[m]]
    /\ \/ /\ mail' = [mail EXCEPT ![to] = Append(@, m)]
          /\ holder' = [holder EXCEPT ![m] = Nobody]
       \/ \* The other task has it at once, and it overtakes nothing.
          /\ \A i \in 1 .. Len(mail[to]) : origin[mail[to][i]] # holder[m]
          /\ holder' = [holder EXCEPT ![m] = to]
          /\ UNCHANGED mail

Fetch(t, i) ==
    /\ \A j \in 1 .. i - 1 : origin[mail[t][j]] # origin[mail[t][i]]
    /\ holder' = [holder EXCEPT ![mail[t][i]] = t]
    /\ mail' = [mail EXCEPT ![t] = SubSeq(@, 1, i - 1) \o SubSeq(@, i + 1, Len(@))]
    /\ UNCHANGED origin

PostNext ==
    \/ \E m \in Mesg, t \in Task : Acquire(m, t) \/ Post(m, t)
    \/ \E m \in Mesg, next \in Task \cup {Nobody} : Release(m, next)
    \/ \E t \in Task : \E i \in 1 .. Len(mail[t]) : Fetch(t, i)

PostSpec == PostInit /\ [][PostNext]_<<holder, origin, mail>>
=============================================================================
