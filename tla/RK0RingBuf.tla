----------------------------- MODULE RK0RingBuf -----------------------------
(***************************************************************************)
(* The ring buffer of core/src/kringbuf.c, as operators on a record.  The  *)
(* pointers are positions 0 .. maxBuf - 1; dataSize words are one message. *)
(***************************************************************************)
EXTENDS Integers, SequencesExt

(* kRingBufInit, kRingBufReset *)
RingReset(rb) == [rb EXCEPT !.nFull = 0, !.writePtr = 0, !.readPtr = 0]

RingInit(maxBuf, empty) ==
    [buf |-> [i \in 0 .. maxBuf - 1 |-> empty], maxBuf |-> maxBuf,
     nFull |-> 0, writePtr |-> 0, readPtr |-> 0]

(* kRingBufAdvance_ and kRingBufRetreat_ *)
Advance(rb, ptr) == IF ptr + 1 = rb.maxBuf THEN 0 ELSE ptr + 1
Retreat(rb, ptr) == (IF ptr = 0 THEN rb.maxBuf ELSE ptr) - 1

RingWrite(rb, m) ==
    [rb EXCEPT !.buf[rb.writePtr] = m, !.writePtr = Advance(rb, @), !.nFull = @ + 1]

RingRead(rb) == [rb EXCEPT !.readPtr = Advance(rb, @), !.nFull = @ - 1]

RingPeek(rb) == rb.buf[rb.readPtr]

(* kRingBufJam *)
(* Fault: the message is written before the pointer is moved back. *)
RingJamLate(rb, m) ==
    [rb EXCEPT !.readPtr = Retreat(rb, @), !.buf[rb.readPtr] = m, !.nFull = @ + 1]

RingJam(rb, m) ==
    [rb EXCEPT !.readPtr = Retreat(rb, @), !.buf[Retreat(rb, rb.readPtr)] = m, !.nFull = @ + 1]

RingOverwrite(rb, m) ==
    [rb EXCEPT !.buf[rb.writePtr] = m, !.writePtr = 0, !.readPtr = 0, !.nFull = 1]

(* The messages it holds, oldest first. *)
Contents(rb) == [i \in 1 .. rb.nFull |-> rb.buf[(rb.readPtr + i - 1) % rb.maxBuf]]
=============================================================================
