----------------------------- MODULE RK0Channel -----------------------------
(***************************************************************************)
(* What a message queue promises: a bounded queue of messages, and of each *)
(* task a place for the message that was handed to it while it waited.     *)
(***************************************************************************)
EXTENDS Integers, Sequences

CONSTANTS Task, Mesg, NoMesg

VARIABLES
    capacity, \* how many messages it holds at most, at least one
    queue, \* the messages sent and not received, oldest first
    inbox  \* the message a waiting task was given and has not returned with

ChannelInit == capacity \in Nat \ {0} /\ queue = <<>> /\ inbox = [t \in Task |-> NoMesg]

Put(m) ==
    /\ Len(queue) < capacity
    /\ queue' \in {Append(queue, m), <<m>> \o queue}
    /\ UNCHANGED inbox

Overwrite(m) == capacity = 1 /\ queue' = <<m>> /\ UNCHANGED inbox

Take == queue # <<>> /\ queue' = Tail(queue) /\ UNCHANGED inbox

(* A message overtakes no other on its way to one task, or to several. *)
Hand(m) ==
    /\ queue = <<>>
    /\ \E some \in (SUBSET {t \in Task : inbox[t] = NoMesg}) \ {{}} :
          inbox' = [t \in Task |-> IF t \in some THEN m ELSE inbox[t]]
    /\ UNCHANGED queue

Return == \E t \in Task : inbox' = [inbox EXCEPT ![t] = NoMesg] /\ UNCHANGED queue

(* A reset drops the messages, and those waiting tasks were given. *)
Reset ==
    /\ queue' = <<>>
    /\ \E some \in SUBSET Task : inbox' = [t \in Task |-> IF t \in some THEN NoMesg ELSE inbox[t]]

ChannelNext ==
    /\ \/ \E m \in Mesg : Put(m) \/ Overwrite(m) \/ Hand(m)
       \/ Take \/ Return \/ Reset
    /\ UNCHANGED capacity

ChannelSpec == ChannelInit /\ [][ChannelNext]_<<capacity, queue, inbox>>
=============================================================================
