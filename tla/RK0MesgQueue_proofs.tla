------------------------ MODULE RK0MesgQueue_proofs ------------------------
(***************************************************************************)
(* Proofs about RK0MesgQueue, for any tasks, priorities, messages and      *)
(* depths: the waits and the count of a broadcast stay consistent, nobody  *)
(* waits for a message that is there, and the queue implements RK0Channel. *)
(* LateReset is FALSE: with a reset while a broadcast is being read, the   *)
(* assertions of the code itself fail.                                     *)
(***************************************************************************)
EXTENDS RK0MesgQueue, RK0Seqs

(***************************************************************************)
(* The ring buffer.                                                        *)
(***************************************************************************)
Cell == Mesg \cup {NoMesg}

RingOK(rb) ==
    /\ DOMAIN rb = {"buf", "maxBuf", "nFull", "writePtr", "readPtr"}
    /\ rb.maxBuf \in Nat \ {0} /\ rb.nFull \in 0 .. rb.maxBuf
    /\ rb.readPtr \in 0 .. rb.maxBuf - 1
    /\ rb.writePtr = IF rb.readPtr + rb.nFull < rb.maxBuf THEN rb.readPtr + rb.nFull
                     ELSE rb.readPtr + rb.nFull - rb.maxBuf
    /\ rb.buf \in [0 .. rb.maxBuf - 1 -> Cell]

(* What wraps around once. *)
LEMMA Wrapped ==
    ASSUME NEW a \in Nat, NEW n \in Nat, n > 0, a < 2 * n
    PROVE  a % n = IF a < n THEN a ELSE a - n
<1>1. CASE a < n
  BY <1>1
<1>2. CASE a >= n
  BY <1>2
<1> QED
  BY <1>1, <1>2

(* The place of the i-th message. *)
At(rb, i) == IF rb.readPtr + i - 1 < rb.maxBuf THEN rb.readPtr + i - 1
             ELSE rb.readPtr + i - 1 - rb.maxBuf

LEMMA ContentsLemma ==
    ASSUME NEW rb, RingOK(rb)
    PROVE  /\ Contents(rb) \in Seq(Cell) /\ Len(Contents(rb)) = rb.nFull
           /\ \A i \in 1 .. rb.nFull : /\ At(rb, i) \in 0 .. rb.maxBuf - 1
                                       /\ Contents(rb)[i] = rb.buf[At(rb, i)]
<1> DEFINE c == Contents(rb)
<1>1. rb.nFull \in Nat /\ rb.readPtr \in Nat /\ rb.maxBuf \in Nat /\ rb.maxBuf > 0
  BY DEF RingOK
<1>2. ASSUME NEW i \in 1 .. rb.nFull
      PROVE  /\ (rb.readPtr + i - 1) % rb.maxBuf = At(rb, i)
             /\ At(rb, i) \in 0 .. rb.maxBuf - 1
  <2> DEFINE a == rb.readPtr + i - 1
             n == rb.maxBuf
  <2>1. a \in Nat /\ a < 2 * n
    BY DEF RingOK
  <2>2. At(rb, i) = IF a < n THEN a ELSE a - n
    BY <1>1 DEF At
  <2> HIDE DEF a
  <2>3. a % n = IF a < n THEN a ELSE a - n
    BY <1>1, <2>1, Wrapped
  <2>4. (IF a < n THEN a ELSE a - n) \in 0 .. n - 1
    BY <1>1, <2>1
  <2> QED
    BY <2>2, <2>3, <2>4 DEF a
<1>3. c = [i \in 1 .. rb.nFull |-> rb.buf[At(rb, i)]]
  BY <1>2 DEF Contents
<1>4. \A i \in 1 .. rb.nFull : rb.buf[At(rb, i)] \in Cell
  BY <1>2 DEF RingOK
<1> HIDE DEF c
<1>5. c \in [1 .. rb.nFull -> Cell]
  BY <1>3, <1>4
<1>6. c \in Seq(Cell) /\ Len(c) = rb.nFull
  BY <1>1, <1>5, SeqDef, LenProperties
<1> QED
  BY <1>2, <1>3, <1>6 DEF c

(* A write adds the message behind the others. *)
LEMMA WriteLemma ==
    ASSUME NEW rb, RingOK(rb), rb.nFull < rb.maxBuf, NEW m \in Cell
    PROVE  /\ RingOK(RingWrite(rb, m))
           /\ RingWrite(rb, m).maxBuf = rb.maxBuf /\ RingWrite(rb, m).nFull = rb.nFull + 1
           /\ Contents(RingWrite(rb, m)) = Append(Contents(rb), m)
           /\ rb.maxBuf = 1 => RingPeek(RingWrite(rb, m)) = m
<1> DEFINE w == RingWrite(rb, m)
           at == rb.writePtr
<1>1. /\ w.buf = [rb.buf EXCEPT ![at] = m] /\ w.maxBuf = rb.maxBuf /\ w.nFull = rb.nFull + 1
      /\ w.writePtr = (IF at + 1 = rb.maxBuf THEN 0 ELSE at + 1) /\ w.readPtr = rb.readPtr
      /\ DOMAIN w = {"buf", "maxBuf", "nFull", "writePtr", "readPtr"}
  BY DEF RingWrite, RingOK, Advance
<1> HIDE DEF w
<1>2. at \in 0 .. rb.maxBuf - 1
  BY DEF RingOK
<1>3. w.buf \in [0 .. rb.maxBuf - 1 -> Cell]
  BY <1>1, <1>2 DEF RingOK
<1>4. RingOK(w)
  <2>1. /\ rb.nFull \in Nat /\ rb.readPtr \in Nat /\ rb.maxBuf \in Nat \ {0}
        /\ rb.nFull <= rb.maxBuf /\ rb.readPtr < rb.maxBuf
        /\ rb.writePtr = IF rb.readPtr + rb.nFull < rb.maxBuf THEN rb.readPtr + rb.nFull
                         ELSE rb.readPtr + rb.nFull - rb.maxBuf
    BY DEF RingOK
  <2>2. w.writePtr = IF w.readPtr + w.nFull < w.maxBuf THEN w.readPtr + w.nFull
                     ELSE w.readPtr + w.nFull - w.maxBuf
    BY <1>1, <2>1
  <2> QED
    BY <1>1, <1>3, <2>1, <2>2 DEF RingOK
<1>5. At(w, w.nFull) = at
  BY <1>1 DEF RingOK, At
<1>6. \A i \in 1 .. rb.nFull : At(w, i) = At(rb, i) /\ At(rb, i) # at
  BY <1>1 DEF RingOK, At
<1>7. Contents(w) = Append(Contents(rb), m)
  <2>1. /\ Contents(w) \in Seq(Cell) /\ Len(Contents(w)) = rb.nFull + 1
        /\ \A i \in 1 .. rb.nFull + 1 : Contents(w)[i] = w.buf[At(w, i)]
    <3>1. /\ Contents(w) \in Seq(Cell) /\ Len(Contents(w)) = w.nFull
          /\ \A i \in 1 .. w.nFull : Contents(w)[i] = w.buf[At(w, i)]
      BY <1>4, ContentsLemma
    <3>2. w.nFull = rb.nFull + 1
      BY <1>1
    <3> QED
      BY <3>1, <3>2
  <2>2. /\ Contents(rb) \in Seq(Cell) /\ Len(Contents(rb)) = rb.nFull
        /\ \A i \in 1 .. rb.nFull : Contents(rb)[i] = rb.buf[At(rb, i)]
                                    /\ At(rb, i) \in 0 .. rb.maxBuf - 1
    BY ContentsLemma
  <2>3. /\ Append(Contents(rb), m) \in Seq(Cell)
        /\ Len(Append(Contents(rb), m)) = rb.nFull + 1
        /\ Append(Contents(rb), m)[rb.nFull + 1] = m
        /\ \A i \in 1 .. rb.nFull : Append(Contents(rb), m)[i] = Contents(rb)[i]
    BY <2>2, AppendProperties
  <2>4. w.buf[at] = m /\ \A i \in 0 .. rb.maxBuf - 1 : i # at => w.buf[i] = rb.buf[i]
    BY <1>1, <1>2 DEF RingOK
  <2>5. rb.nFull \in Nat
    BY DEF RingOK
  <2>6. \A i \in 1 .. rb.nFull + 1 : Contents(w)[i] = Append(Contents(rb), m)[i]
    <3> SUFFICES ASSUME NEW i \in 1 .. rb.nFull + 1
                 PROVE  Contents(w)[i] = Append(Contents(rb), m)[i]
      OBVIOUS
    <3>1. CASE i = rb.nFull + 1
      BY <1>1, <1>5, <2>1, <2>3, <2>4, <3>1
    <3>2. CASE i # rb.nFull + 1
      <4>1. i \in 1 .. rb.nFull
        BY <2>5, <3>2
      <4> QED
        BY <1>6, <2>1, <2>2, <2>3, <2>4, <4>1
    <3> QED
      BY <3>1, <3>2
  <2> QED
    BY <2>1, <2>3, <2>6, SeqEqual
<1>8. rb.maxBuf = 1 => RingPeek(w) = m
  BY <1>1, <1>2 DEF RingPeek, RingOK
<1> QED
  BY <1>1, <1>4, <1>7, <1>8 DEF w

(* kRingBufJam puts it before them. *)
LEMMA JamLemma ==
    ASSUME NEW rb, RingOK(rb), rb.nFull < rb.maxBuf, NEW m \in Cell
    PROVE  /\ RingOK(RingJam(rb, m))
           /\ RingJam(rb, m).maxBuf = rb.maxBuf /\ RingJam(rb, m).nFull = rb.nFull + 1
           /\ Contents(RingJam(rb, m)) = <<m>> \o Contents(rb)
<1> DEFINE w == RingJam(rb, m)
           at == Retreat(rb, rb.readPtr)
           r == <<m>> \o Contents(rb)
<1>1. /\ w.buf = [rb.buf EXCEPT ![at] = m] /\ w.maxBuf = rb.maxBuf /\ w.nFull = rb.nFull + 1
      /\ w.readPtr = at /\ w.writePtr = rb.writePtr
      /\ DOMAIN w = {"buf", "maxBuf", "nFull", "writePtr", "readPtr"}
  BY DEF RingJam, RingOK
<1> HIDE DEF w
<1>2. at \in 0 .. rb.maxBuf - 1 /\ at = (IF rb.readPtr = 0 THEN rb.maxBuf ELSE rb.readPtr) - 1
  BY DEF RingOK, Retreat
<1>3. w.buf \in [0 .. rb.maxBuf - 1 -> Cell]
  BY <1>1, <1>2 DEF RingOK
<1> HIDE DEF at
<1>4. RingOK(w)
  <2>1. /\ rb.maxBuf \in Nat \ {0} /\ rb.nFull \in 0 .. rb.maxBuf /\ rb.readPtr \in 0 .. rb.maxBuf - 1
        /\ rb.writePtr = IF rb.readPtr + rb.nFull < rb.maxBuf
                         THEN rb.readPtr + rb.nFull ELSE rb.readPtr + rb.nFull - rb.maxBuf
    BY DEF RingOK
  <2>2. w.maxBuf \in Nat \ {0} /\ w.nFull \in 0 .. w.maxBuf /\ w.readPtr \in 0 .. w.maxBuf - 1
    BY <1>1, <1>2, <2>1
  <2>3. w.writePtr = IF w.readPtr + w.nFull < w.maxBuf
                     THEN w.readPtr + w.nFull ELSE w.readPtr + w.nFull - w.maxBuf
    BY <1>1, <1>2, <2>1
  <2> QED
    BY <1>1, <1>3, <2>2, <2>3 DEF RingOK
<1>5. At(w, 1) = at
  BY <1>1, <1>2 DEF RingOK, At
<1>6. ASSUME NEW i \in 1 .. rb.nFull PROVE At(w, i + 1) = At(rb, i) /\ At(rb, i) # at
  <2>1. /\ rb.nFull \in Nat /\ rb.readPtr \in Nat /\ rb.maxBuf \in Nat \ {0}
        /\ rb.nFull <= rb.maxBuf /\ rb.readPtr < rb.maxBuf
        /\ rb.nFull < rb.maxBuf
    BY DEF RingOK
  <2>2. w.readPtr = at /\ w.maxBuf = rb.maxBuf /\ at \in Int /\ i \in Int
    BY <1>1, <1>2
  <2>3. At(w, i + 1) = IF at + i < rb.maxBuf THEN at + i ELSE at + i - rb.maxBuf
    BY <2>1, <2>2 DEF At
  <2>4. CASE rb.readPtr = 0
    BY <1>2, <2>1, <2>3, <2>4 DEF At
  <2>5. CASE rb.readPtr # 0
    BY <1>2, <2>1, <2>3, <2>5 DEF At
  <2> QED
    BY <2>4, <2>5
<1>7. Contents(w) = r
  <2>1. /\ Contents(w) \in Seq(Cell) /\ Len(Contents(w)) = rb.nFull + 1
        /\ \A i \in 1 .. rb.nFull + 1 : Contents(w)[i] = w.buf[At(w, i)]
    <3>1. /\ Contents(w) \in Seq(Cell) /\ Len(Contents(w)) = w.nFull
          /\ \A i \in 1 .. w.nFull : Contents(w)[i] = w.buf[At(w, i)]
      BY <1>4, ContentsLemma
    <3>2. w.nFull = rb.nFull + 1
      BY <1>1
    <3> QED
      BY <3>1, <3>2
  <2>2. /\ Contents(rb) \in Seq(Cell) /\ Len(Contents(rb)) = rb.nFull
        /\ \A i \in 1 .. rb.nFull : Contents(rb)[i] = rb.buf[At(rb, i)]
                                    /\ At(rb, i) \in 0 .. rb.maxBuf - 1
    BY ContentsLemma
  <2>3. <<m>> \in Seq(Cell) /\ Len(<<m>>) = 1 /\ <<m>>[1] = m
    OBVIOUS
  <2>4. /\ r \in Seq(Cell) /\ Len(r) = 1 + rb.nFull
        /\ \A i \in 1 .. 1 + rb.nFull : r[i] = IF i <= 1 THEN <<m>>[i] ELSE Contents(rb)[i - 1]
    BY <2>2, <2>3, ConcatProperties
  <2>5. w.buf[at] = m /\ \A i \in 0 .. rb.maxBuf - 1 : i # at => w.buf[i] = rb.buf[i]
    BY <1>1, <1>2 DEF RingOK
  <2>6. rb.nFull \in Nat
    BY DEF RingOK
  <2> HIDE DEF r
  <2>7. \A i \in 1 .. rb.nFull + 1 : Contents(w)[i] = r[i]
    <3> SUFFICES ASSUME NEW i \in 1 .. rb.nFull + 1 PROVE Contents(w)[i] = r[i]
      OBVIOUS
    <3>1. CASE i = 1
      BY <1>5, <2>1, <2>3, <2>4, <2>5, <2>6, <3>1
    <3>2. CASE i # 1
      <4>1. i - 1 \in 1 .. rb.nFull /\ (i - 1) + 1 = i
        BY <2>6, <3>2
      <4>2. At(w, i) = At(rb, i - 1) /\ At(rb, i - 1) # at
        BY <1>6, <4>1
      <4>3. r[i] = Contents(rb)[i - 1]
        BY <2>4, <2>6, <3>2
      <4> QED
        BY <2>1, <2>2, <2>5, <4>1, <4>2, <4>3
    <3> QED
      BY <3>1, <3>2
  <2>8. Len(r) = Len(Contents(w))
    BY <2>1, <2>4, <2>6
  <2> QED
    BY <2>1, <2>4, <2>7, <2>8, SeqEqual
<1> QED
  BY <1>1, <1>4, <1>7 DEF w

(* A read takes the oldest message out. *)
LEMMA ReadLemma ==
    ASSUME NEW rb, RingOK(rb), rb.nFull > 0
    PROVE  /\ RingOK(RingRead(rb))
           /\ RingRead(rb).maxBuf = rb.maxBuf /\ RingRead(rb).nFull = rb.nFull - 1
           /\ Contents(rb) # <<>> /\ Contents(RingRead(rb)) = Tail(Contents(rb))
<1> DEFINE w == RingRead(rb)
<1>1. /\ w.buf = rb.buf /\ w.maxBuf = rb.maxBuf /\ w.nFull = rb.nFull - 1
      /\ w.readPtr = (IF rb.readPtr + 1 = rb.maxBuf THEN 0 ELSE rb.readPtr + 1)
      /\ w.writePtr = rb.writePtr
      /\ DOMAIN w = {"buf", "maxBuf", "nFull", "writePtr", "readPtr"}
  BY DEF RingRead, RingOK, Advance
<1> HIDE DEF w
<1>2. RingOK(w)
  <2>1. /\ rb.nFull \in Nat /\ rb.readPtr \in Nat /\ rb.maxBuf \in Nat \ {0}
        /\ rb.nFull <= rb.maxBuf /\ rb.readPtr < rb.maxBuf
        /\ rb.writePtr = IF rb.readPtr + rb.nFull < rb.maxBuf THEN rb.readPtr + rb.nFull
                         ELSE rb.readPtr + rb.nFull - rb.maxBuf
    BY DEF RingOK
  <2>2. w.writePtr = IF w.readPtr + w.nFull < w.maxBuf THEN w.readPtr + w.nFull
                     ELSE w.readPtr + w.nFull - w.maxBuf
    <3>1. CASE rb.readPtr + 1 = rb.maxBuf
      BY <1>1, <2>1, <3>1
    <3>2. CASE rb.readPtr + 1 # rb.maxBuf
      BY <1>1, <2>1, <3>2
    <3> QED
      BY <3>1, <3>2
  <2>3. w.readPtr \in 0 .. w.maxBuf - 1 /\ w.nFull \in 0 .. w.maxBuf
    BY <1>1, <2>1
  <2>4. w.buf \in [0 .. w.maxBuf - 1 -> Cell] /\ w.maxBuf \in Nat \ {0}
    BY <1>1 DEF RingOK
  <2> QED
    BY <1>1, <2>2, <2>3, <2>4 DEF RingOK
<1>3. ASSUME NEW i \in 1 .. rb.nFull - 1 PROVE At(w, i) = At(rb, i + 1)
  <2>1. /\ rb.nFull \in Nat /\ rb.readPtr \in Nat /\ rb.maxBuf \in Nat \ {0}
        /\ rb.nFull <= rb.maxBuf /\ rb.readPtr < rb.maxBuf
    BY DEF RingOK
  <2>2. CASE rb.readPtr + 1 = rb.maxBuf
    <3>1. w.readPtr = 0 /\ w.maxBuf = rb.maxBuf
      BY <1>1, <2>1, <2>2
    <3> QED
      BY <2>1, <2>2, <3>1 DEF At
  <2>3. CASE rb.readPtr + 1 # rb.maxBuf
    <3>1. w.readPtr = rb.readPtr + 1 /\ w.maxBuf = rb.maxBuf
      BY <1>1, <2>1, <2>3
    <3> QED
      BY <2>1, <2>3, <3>1 DEF At
  <2> QED
    BY <2>2, <2>3
<1>4. rb.nFull \in Nat
  BY DEF RingOK
<1>5. /\ Contents(w) \in Seq(Cell) /\ Len(Contents(w)) = rb.nFull - 1
      /\ \A i \in 1 .. rb.nFull - 1 : Contents(w)[i] = w.buf[At(w, i)]
  BY <1>1, <1>2, ContentsLemma
<1>6. /\ Contents(rb) \in Seq(Cell) /\ Len(Contents(rb)) = rb.nFull
      /\ \A i \in 1 .. rb.nFull : Contents(rb)[i] = rb.buf[At(rb, i)]
  BY ContentsLemma
<1>7. Contents(rb) # <<>>
  BY <1>6, EmptySeq
<1>8. /\ Tail(Contents(rb)) \in Seq(Cell) /\ Len(Tail(Contents(rb))) = rb.nFull - 1
      /\ \A i \in 1 .. rb.nFull - 1 : Tail(Contents(rb))[i] = Contents(rb)[i + 1]
  BY <1>6, <1>7, HeadTailProperties
<1>9. \A i \in 1 .. rb.nFull - 1 : Contents(w)[i] = Tail(Contents(rb))[i]
  <2> SUFFICES ASSUME NEW i \in 1 .. rb.nFull - 1
               PROVE  Contents(w)[i] = Tail(Contents(rb))[i]
    OBVIOUS
  <2>1. i + 1 \in 1 .. rb.nFull
    BY <1>4
  <2> QED
    BY <1>1, <1>3, <1>5, <1>6, <1>8, <2>1
<1>10. Contents(w) = Tail(Contents(rb))
  BY <1>5, <1>8, <1>9, SeqEqual
<1> QED
  BY <1>1, <1>2, <1>7, <1>10 DEF w

(* A reset ring, like a new one, holds nothing. *)
LEMMA ResetLemma ==
    ASSUME NEW rb, RingOK(rb)
    PROVE  /\ RingOK(RingReset(rb)) /\ RingReset(rb).maxBuf = rb.maxBuf
           /\ RingReset(rb).nFull = 0 /\ Contents(RingReset(rb)) = <<>>
<1> DEFINE w == RingReset(rb)
<1>1. /\ w.buf = rb.buf /\ w.maxBuf = rb.maxBuf /\ w.nFull = 0 /\ w.readPtr = 0 /\ w.writePtr = 0
      /\ DOMAIN w = {"buf", "maxBuf", "nFull", "writePtr", "readPtr"}
  BY DEF RingReset, RingOK
<1> HIDE DEF w
<1>2. RingOK(w)
  BY <1>1 DEF RingOK
<1>3. Contents(w) \in Seq(Cell) /\ Len(Contents(w)) = 0
  BY <1>1, <1>2, ContentsLemma
<1> QED
  BY <1>1, <1>2, <1>3, EmptySeq DEF w

LEMMA RingInitLemma ==
    ASSUME NEW n \in Nat \ {0}
    PROVE  /\ RingOK(RingInit(n, NoMesg)) /\ RingInit(n, NoMesg).maxBuf = n
           /\ RingInit(n, NoMesg).nFull = 0 /\ Contents(RingInit(n, NoMesg)) = <<>>
<1> DEFINE w == RingInit(n, NoMesg)
<1>1. /\ w.buf = [i \in 0 .. n - 1 |-> NoMesg] /\ w.maxBuf = n /\ w.nFull = 0
      /\ w.readPtr = 0 /\ w.writePtr = 0
      /\ DOMAIN w = {"buf", "maxBuf", "nFull", "writePtr", "readPtr"}
  BY DEF RingInit
<1> HIDE DEF w
<1>2. RingOK(w)
  <2>1. w.buf \in [0 .. n - 1 -> Cell]
    BY <1>1 DEF Cell
  <2> QED
    BY <1>1, <2>1 DEF RingOK
<1>3. Contents(w) \in Seq(Cell) /\ Len(Contents(w)) = 0
  BY <1>1, <1>2, ContentsLemma
<1> QED
  BY <1>1, <1>2, <1>3, EmptySeq DEF w

(* Overwriting a mailbox leaves the message alone in it. *)
LEMMA OverwriteLemma ==
    ASSUME NEW rb, RingOK(rb), rb.maxBuf = 1, NEW m \in Cell
    PROVE  /\ RingOK(RingOverwrite(rb, m)) /\ RingOverwrite(rb, m).maxBuf = 1
           /\ RingOverwrite(rb, m).nFull = 1 /\ Contents(RingOverwrite(rb, m)) = <<m>>
<1> DEFINE w == RingOverwrite(rb, m)
<1>1. /\ w.buf = [rb.buf EXCEPT ![rb.writePtr] = m] /\ w.maxBuf = 1 /\ w.nFull = 1
      /\ w.readPtr = 0 /\ w.writePtr = 0
      /\ DOMAIN w = {"buf", "maxBuf", "nFull", "writePtr", "readPtr"}
  BY DEF RingOverwrite, RingOK
<1> HIDE DEF w
<1>2. rb.writePtr = 0 /\ rb.buf \in [0 .. 0 -> Cell]
  BY DEF RingOK
<1>3. w.buf \in [0 .. 0 -> Cell] /\ w.buf[0] = m
  BY <1>1, <1>2
<1>4. RingOK(w)
  BY <1>1, <1>3 DEF RingOK
<1>5. Contents(w) \in Seq(Cell) /\ Len(Contents(w)) = 1 /\ Contents(w)[1] = w.buf[At(w, 1)]
  <2>1. 1 \in 1 .. w.nFull
    BY <1>1
  <2> QED
    BY <1>1, <1>4, <2>1, ContentsLemma
<1>6. At(w, 1) = 0
  BY <1>1 DEF At
<1>7. Contents(w) = <<m>>
  <2>1. <<m>> \in Seq(Cell) /\ Len(<<m>>) = 1 /\ <<m>>[1] = m
    OBVIOUS
  <2>2. \A i \in 1 .. 1 : Contents(w)[i] = <<m>>[i]
    BY <1>3, <1>5, <1>6, <2>1
  <2> QED
    BY <1>5, <2>1, <2>2, SeqEqual
<1> QED
  BY <1>1, <1>4, <1>7 DEF w

(***************************************************************************)
(* The invariant.                                                          *)
(***************************************************************************)
Delivered == {t \in Task : waitInfo[t] = "BROADCAST_DELIVER"}

(* Who waits is in a queue, and in one. *)
WaitersOK ==
    /\ waitingReceivers \in Seq(Receiver \cup Audience) /\ IsInjective(waitingReceivers)
    /\ waitingSenders \in Seq(Sender) /\ IsInjective(waitingSenders)
    /\ \A t \in Task : /\ status[t] = "RECEIVING" <=> t \in ToSet(waitingReceivers)
                       /\ status[t] = "SENDING" <=> t \in ToSet(waitingSenders)

(* A wait is for what the call asks for.  Nobody is delivered a message    *)
(* while its timeout is armed.                                             *)
TaskOK(t) ==
    /\ call[t].op \in {"send", "jam"} => t \in Sender
    /\ call[t].op = "recv" => t \in Receiver
    /\ call[t].op = "brecv" => t \in Audience
    /\ status[t] = "SENDING" => call[t].op \in {"send", "jam"} /\ waitInfo[t] = "NORMAL"
    /\ status[t] = "RECEIVING" =>
          \/ call[t].op = "recv" /\ waitInfo[t] = "NORMAL"
          \/ call[t].op = "brecv" /\ waitInfo[t] \in {"BROADCAST", "BROADCAST_DELIVER"}
    /\ status[t] = "READY" =>
          \/ waitInfo[t] = "NORMAL"
          \/ call[t].op = "recv" /\ waitInfo[t] = "DIRECT_DELIVER"
          \/ call[t].op = "brecv" /\ waitInfo[t] = "BROADCAST_DELIVER"
    /\ t \in armed => status[t] # "READY" /\ waitInfo[t] # "BROADCAST_DELIVER"
    /\ timeOut[t] => status[t] = "READY" /\ waitInfo[t] = "NORMAL" /\ call[t] # NoCall

BroadcastOK ==
    /\ broadcastReceivers = Cardinality(Delivered)
    /\ broadcastReceivers > 0 => ringBuf.nFull = 1 /\ ringBuf.maxBuf = 1

TypesOK ==
    /\ status \in [Task -> {"READY", "SENDING", "RECEIVING"}]
    /\ armed \subseteq Task
    /\ timeOut \in [Task -> BOOLEAN]
    /\ waitInfo \in [Task -> {"NORMAL", "BROADCAST", "BROADCAST_DELIVER", "DIRECT_DELIVER"}]
    /\ recvBuf \in [Task -> Mesg \cup {NoMesg}]
    /\ call \in [Task -> SendCall \cup RecvCall \cup {NoCall}]
    /\ jobs \in Seq(Nat)

QueueInv ==
    /\ TypesOK /\ RingOK(ringBuf) /\ WaitersOK /\ BroadcastOK /\ NoReceiverStarves
    /\ \A t \in Task : TaskOK(t)

(* The facts about the constants. *)
LEMMA Ids ==
    /\ IsFiniteSet(Task) /\ Sender \subseteq Task /\ Receiver \subseteq Task
    /\ Audience \subseteq Task /\ Depth \subseteq Nat \ {0}
    /\ NoCall.op = "none"
  BY MesgQueueAssumption DEF NoCall

LEMMA InQueues ==
    ASSUME WaitersOK
    PROVE  ToSet(waitingReceivers) \subseteq Task /\ ToSet(waitingSenders) \subseteq Task
  BY Ids, InToSet DEF WaitersOK

LEMMA DeliveredCount ==
    ASSUME BroadcastOK
    PROVE  /\ IsFiniteSet(Delivered) /\ broadcastReceivers \in Nat
           /\ broadcastReceivers = 0 <=> Delivered = {}
<1>1. Delivered \subseteq Task
  BY DEF Delivered
<1>2. IsFiniteSet(Delivered)
  BY <1>1, Ids, FS_Subset
<1> QED
  BY <1>2, FS_CardinalityType, FS_EmptySet DEF BroadcastOK

(* A broadcast that is not read yet fills its mailbox. *)
LEMMA NotFull ==
    ASSUME RingOK(ringBuf), BroadcastOK, ~Full \/ ringBuf.nFull = 0 \/ broadcastReceivers = 0
    PROVE  broadcastReceivers = 0 /\ Delivered = {}
<1>1. /\ broadcastReceivers \in Nat /\ (broadcastReceivers = 0 <=> Delivered = {})
  BY DeliveredCount
<1>2. ringBuf.nFull \in Nat /\ ringBuf.maxBuf \in Nat
  BY DEF RingOK
<1> QED
  BY <1>1, <1>2 DEF BroadcastOK, Full

(* The receiver that is served first. *)
LEMMA NormalLemma ==
    ASSUME WaitersOK
    PROVE  /\ \A r \in NormalReceiver : r \in ToSet(waitingReceivers) /\ waitInfo[r] # "BROADCAST"
           /\ \A r, s \in NormalReceiver : r = s
           /\ NormalReceiver = {} =>
                 \A t \in ToSet(waitingReceivers) : waitInfo[t] = "BROADCAST"
<1> DEFINE normal == DOMAIN waitingReceivers \ Places("BROADCAST")
<1>1. DOMAIN waitingReceivers = 1 .. Len(waitingReceivers) /\ Len(waitingReceivers) \in Nat
  BY LenProperties DEF WaitersOK
<1>2. normal = {i \in DOMAIN waitingReceivers : waitInfo[waitingReceivers[i]] # "BROADCAST"}
  BY DEF Places
<1>3. normal \subseteq Nat
  BY <1>1
<1>4. NormalReceiver = IF normal = {} THEN {} ELSE {waitingReceivers[Min(normal)]}
  BY DEF NormalReceiver
<1> HIDE DEF normal
<1>5. normal # {} => Min(normal) \in normal
  BY <1>3, MinOfNats
<1>6. \A i \in normal : /\ waitingReceivers[i] \in ToSet(waitingReceivers)
                        /\ waitInfo[waitingReceivers[i]] # "BROADCAST"
  BY <1>2 DEF ToSet
<1>7. normal = {} => \A t \in ToSet(waitingReceivers) : waitInfo[t] = "BROADCAST"
  BY <1>2 DEF ToSet
<1> QED
  BY <1>4, <1>5, <1>6, <1>7

LEMMA PlacesLemma ==
    ASSUME WaitersOK, NEW info
    PROVE  /\ IsFiniteSet(Places(info)) /\ Cardinality(Places(info)) \in Nat
           /\ TasksAt(Places(info)) = {t \in ToSet(waitingReceivers) : waitInfo[t] = info}
           /\ Cardinality(TasksAt(Places(info))) = Cardinality(Places(info))
<1> DEFINE P == Places(info)
           T == TasksAt(P)
           f == [i \in P |-> waitingReceivers[i]]
<1>1. /\ DOMAIN waitingReceivers = 1 .. Len(waitingReceivers) /\ Len(waitingReceivers) \in Nat
      /\ IsInjective(waitingReceivers)
  BY LenProperties DEF WaitersOK
<1>2. /\ P = {i \in DOMAIN waitingReceivers : waitInfo[waitingReceivers[i]] = info}
      /\ P \subseteq 1 .. Len(waitingReceivers)
  BY <1>1 DEF Places
<1>3. T = {waitingReceivers[i] : i \in P}
  BY DEF TasksAt
<1> HIDE DEF P, T
<1>4. IsFiniteSet(P)
  <2>1. IsFiniteSet(1 .. Len(waitingReceivers))
    BY <1>1, FS_Interval
  <2> QED
    BY <1>2, <2>1, FS_Subset
<1>5. f \in Surjection(P, T)
  BY <1>3 DEF Surjection
<1>6. f \in Injection(P, T)
  BY <1>1, <1>2, <1>3 DEF Injection, IsInjective
<1>7. Cardinality(T) = Cardinality(P)
  BY <1>4, <1>5, <1>6, FS_Surjection
<1>8. T = {t \in ToSet(waitingReceivers) : waitInfo[t] = info}
  BY <1>2, <1>3 DEF ToSet
<1> QED
  BY <1>4, <1>7, <1>8, FS_CardinalityType DEF P, T

(***************************************************************************)
(* What a step leaves as it was.                                           *)
(***************************************************************************)
LEMMA SameTask ==
    ASSUME NEW u \in Task, TaskOK(u), status'[u] = status[u], call'[u] = call[u],
           waitInfo'[u] = waitInfo[u], timeOut'[u] = timeOut[u], u \in armed' => u \in armed
    PROVE  TaskOK(u)'
  BY DEF TaskOK

(* u is left alone or woken as a sender. *)
Woke(u) ==
    \/ status'[u] = status[u] /\ (u \in armed' => u \in armed)
    \/ status[u] = "SENDING" /\ status'[u] = "READY" /\ u \notin armed'

LEMMA WokenTask ==
    ASSUME NEW u \in Task, TaskOK(u), Woke(u), call'[u] = call[u],
           waitInfo'[u] = waitInfo[u], timeOut'[u] = timeOut[u]
    PROVE  TaskOK(u)'
  BY DEF TaskOK, Woke

(* Nobody is delivered a broadcast, and nobody comes to have read one. *)
LEMMA SameBroadcast ==
    ASSUME BroadcastOK, broadcastReceivers' = broadcastReceivers,
           \A u \in Task : waitInfo'[u] = "BROADCAST_DELIVER" <=> waitInfo[u] = "BROADCAST_DELIVER",
           broadcastReceivers > 0 =>
              ringBuf'.nFull = ringBuf.nFull /\ ringBuf'.maxBuf = ringBuf.maxBuf
    PROVE  BroadcastOK' /\ Delivered' = Delivered
<1>1. Delivered' = Delivered
  BY DEF Delivered
<1> QED
  BY <1>1 DEF BroadcastOK

(* Tasks leave the queues. *)
LEMMA LeaveQueues ==
    ASSUME WaitersOK, NEW ts,
           \A u \in Task : status'[u] = IF u \in ts THEN "READY" ELSE status[u],
           waitingReceivers' \in Seq(Receiver \cup Audience), IsInjective(waitingReceivers'),
           waitingSenders' \in Seq(Sender), IsInjective(waitingSenders'),
           ToSet(waitingReceivers') = ToSet(waitingReceivers) \ ts,
           ToSet(waitingSenders') = ToSet(waitingSenders) \ ts
    PROVE  WaitersOK'
  BY DEF WaitersOK

LEMMA NobodyStarves ==
    ASSUME NoReceiverStarves, broadcastReceivers' = broadcastReceivers,
           ringBuf.nFull = 0 => ringBuf'.nFull = 0,
           \A u \in Task : status'[u] = "RECEIVING" /\ waitInfo'[u] = "NORMAL" =>
                              status[u] = "RECEIVING" /\ waitInfo[u] = "NORMAL"
    PROVE  NoReceiverStarves'
  BY DEF NoReceiverStarves, NothingToRecv

(***************************************************************************)
(* Sending.                                                                *)
(***************************************************************************)

(* A call that was waited in is done, or none is. *)
Returning(u) ==
    \/ call'[u] = call[u]
    \/ /\ call'[u] = NoCall /\ status[u] = "READY"
       /\ waitInfo[u] = "NORMAL" /\ ~timeOut[u]

LEMMA ReturnedTask ==
    ASSUME NEW u \in Task, TaskOK(u), Returning(u), Woke(u),
           waitInfo'[u] = waitInfo[u], timeOut'[u] = timeOut[u]
    PROVE  TaskOK(u)'
<1>1. CASE call'[u] = call[u]
  BY <1>1, WokenTask
<1>2. CASE call'[u] # call[u]
  BY <1>2, Ids DEF Returning, TaskOK, Woke
<1> QED
  BY <1>1, <1>2

LEMMA ReturnLemma ==
    ASSUME QueueInv, NEW t \in Task, Return(t), status[t] = "READY",
           waitInfo[t] = "NORMAL", ~timeOut[t]
    PROVE  /\ call' \in [Task -> SendCall \cup RecvCall \cup {NoCall}]
           /\ \A u \in Task : Returning(u)
<1>1. call \in [Task -> SendCall \cup RecvCall \cup {NoCall}] /\ call' = [call EXCEPT ![t] = NoCall]
  BY DEF QueueInv, TypesOK, Return
<1> QED
  BY <1>1 DEF Returning

(* A message goes straight to a waiting receiver. *)
LEMMA HandOverInv ==
    ASSUME QueueInv, NEW m \in Mesg, Direct, HandOver(m), UNCHANGED <<timeOut, jobs>>,
           call' \in [Task -> SendCall \cup RecvCall \cup {NoCall}],
           \A u \in Task : Returning(u)
    PROVE  QueueInv'
<1>1. PICK r \in NormalReceiver :
        /\ waitingReceivers' = TCBQRem(waitingReceivers, r)
        /\ recvBuf' = [recvBuf EXCEPT ![r] = m]
        /\ waitInfo' = [waitInfo EXCEPT ![r] = "DIRECT_DELIVER"]
        /\ Ready({r})
        /\ UNCHANGED <<ringBuf, waitingSenders, broadcastReceivers>>
  BY DEF HandOver
<1>2. /\ WaitersOK /\ TypesOK /\ BroadcastOK /\ RingOK(ringBuf) /\ NoReceiverStarves
      /\ \A t \in Task : TaskOK(t)
  BY DEF QueueInv
<1>3. /\ broadcastReceivers = 0 /\ Delivered = {} /\ ringBuf.nFull = 0
  BY <1>2, NotFull DEF Direct
<1>4. /\ r \in Task /\ r \in ToSet(waitingReceivers) /\ waitInfo[r] # "BROADCAST"
      /\ r \in Receiver \cup Audience
  BY <1>1, <1>2, NormalLemma, InQueues, InToSet DEF WaitersOK
<1>5. status[r] = "RECEIVING" /\ waitInfo[r] = "NORMAL" /\ call[r].op = "recv"
  BY <1>2, <1>3, <1>4 DEF WaitersOK, TaskOK, Delivered
<1>6. TypesOK'
  BY <1>1, <1>2 DEF TypesOK, Ready
<1>7. /\ status'[r] = "READY" /\ waitInfo'[r] = "DIRECT_DELIVER" /\ r \notin armed'
      /\ timeOut'[r] = timeOut[r]
      /\ \A u \in Task : u # r => /\ status'[u] = status[u] /\ waitInfo'[u] = waitInfo[u]
                                  /\ timeOut'[u] = timeOut[u] /\ (u \in armed' => u \in armed)
  BY <1>1, <1>2, <1>4 DEF TypesOK, Ready
<1>8. WaitersOK'
  <2>1. /\ waitingReceivers' \in Seq(Receiver \cup Audience) /\ IsInjective(waitingReceivers')
        /\ ToSet(waitingReceivers') = ToSet(waitingReceivers) \ {r}
    BY <1>1, <1>2, <1>4, TCBQRemLemma DEF WaitersOK
  <2>2. r \notin ToSet(waitingSenders)
    BY <1>2, <1>4, <1>5 DEF WaitersOK
  <2>3. \A u \in Task : status'[u] = IF u \in {r} THEN "READY" ELSE status[u]
    BY <1>7
  <2>4. /\ waitingSenders' \in Seq(Sender) /\ IsInjective(waitingSenders')
        /\ ToSet(waitingSenders') = ToSet(waitingSenders) \ {r}
    BY <1>1, <1>2, <2>2 DEF WaitersOK
  <2> QED
    BY <1>2, <2>1, <2>3, <2>4, LeaveQueues
<1>9. ASSUME NEW u \in Task PROVE TaskOK(u)'
  <2>1. CASE u = r
    <3>1. call'[u] = call[u] /\ ~timeOut[u]
      BY <1>2, <1>5, <2>1 DEF Returning, TaskOK
    <3> QED
      BY <1>2, <1>5, <1>7, <2>1, <3>1 DEF TaskOK
  <2>2. CASE u # r
    <3>1. TaskOK(u) /\ Returning(u) /\ Woke(u)
      BY <1>2, <1>7, <2>2 DEF Woke
    <3> QED
      BY <1>7, <2>2, <3>1, ReturnedTask
  <2> QED
    BY <2>1, <2>2
<1>10. BroadcastOK'
  <2>1. \A u \in Task :
           waitInfo'[u] = "BROADCAST_DELIVER" <=> waitInfo[u] = "BROADCAST_DELIVER"
    BY <1>5, <1>7
  <2>2. broadcastReceivers' = broadcastReceivers /\ ringBuf' = ringBuf
    BY <1>1
  <2> QED
    BY <1>2, <2>1, <2>2, SameBroadcast
<1>11. RingOK(ringBuf') /\ NoReceiverStarves'
  BY <1>1, <1>2, <1>3 DEF NoReceiverStarves, NothingToRecv
<1> QED
  BY <1>6, <1>8, <1>9, <1>10, <1>11 DEF QueueInv

(* A message goes into the ring, when no receiver waits for one. *)
LEMMA StoreInv ==
    ASSUME QueueInv, ~Direct, ringBuf.nFull = 0 \/ ~Full, NEW rb, RingOK(rb),
           rb.maxBuf = ringBuf.maxBuf, Store(rb), UNCHANGED <<timeOut, jobs>>,
           broadcastReceivers = 0,
           call' \in [Task -> SendCall \cup RecvCall \cup {NoCall}],
           \A u \in Task : Returning(u)
    PROVE  QueueInv' /\ NormalReceiver = {} /\ waitInfo' = waitInfo
<1>1. /\ WaitersOK /\ TypesOK /\ BroadcastOK /\ RingOK(ringBuf) /\ NoReceiverStarves
      /\ \A t \in Task : TaskOK(t)
  BY DEF QueueInv
<1>2. Delivered = {}
  BY <1>1, NotFull
<1>3. NormalReceiver = {}
  <2> SUFFICES ASSUME NEW r \in NormalReceiver PROVE FALSE
    OBVIOUS
  <2>1. r \in ToSet(waitingReceivers) /\ waitInfo[r] # "BROADCAST" /\ r \in Task
    BY <1>1, NormalLemma, InQueues
  <2>2. status[r] = "RECEIVING" /\ waitInfo[r] = "NORMAL"
    BY <1>1, <1>2, <2>1 DEF WaitersOK, TaskOK, Delivered
  <2>3. ringBuf.nFull = 0
    BY <1>1, <2>1, <2>2 DEF NoReceiverStarves, NothingToRecv
  <2> QED
    BY <2>3 DEF Direct
<1>4. /\ ringBuf' = rb /\ waitingReceivers' = waitingReceivers /\ Ready({})
      /\ waitInfo' = [t \in Task |-> waitInfo[t]]
      /\ UNCHANGED <<waitingSenders, broadcastReceivers, recvBuf>>
  BY <1>3 DEF Store
<1>5. /\ waitInfo' = waitInfo /\ armed' = armed
      /\ \A u \in Task : status'[u] = status[u]
  BY <1>1, <1>4 DEF TypesOK, Ready
<1>6. TypesOK'
  BY <1>1, <1>4, <1>5 DEF TypesOK, Ready
<1>7. WaitersOK'
  BY <1>1, <1>4, <1>5 DEF WaitersOK
<1>8. ASSUME NEW u \in Task PROVE TaskOK(u)'
  BY <1>1, <1>5, ReturnedTask DEF Woke
<1>9. BroadcastOK'
  <2>1. broadcastReceivers' = broadcastReceivers
    BY <1>4
  <2> QED
    BY <1>1, <1>5, <2>1, SameBroadcast
<1>10. \A u \in Task : ~(status[u] = "RECEIVING" /\ waitInfo[u] = "NORMAL")
  BY <1>1, <1>3, NormalLemma DEF WaitersOK
<1>11. NoReceiverStarves'
  BY <1>5, <1>10 DEF NoReceiverStarves
<1> QED
  BY <1>3, <1>4, <1>5, <1>6, <1>7, <1>8, <1>9, <1>11 DEF QueueInv

LEMMA AcceptInv ==
    ASSUME QueueInv, NEW m \in Mesg, NEW op \in {"send", "jam"}, Accept(op, m),
           call' \in [Task -> SendCall \cup RecvCall \cup {NoCall}],
           \A u \in Task : Returning(u)
    PROVE  QueueInv'
<1>1. ~Full /\ UNCHANGED <<timeOut, jobs>> /\ RingOK(ringBuf) /\ broadcastReceivers = 0
  BY NotFull DEF Accept, QueueInv
<1>2. CASE Direct
  BY <1>1, <1>2, HandOverInv DEF Accept
<1>3. CASE ~Direct
  <2> DEFINE rb == IF op = "jam" THEN RingJam(ringBuf, m) ELSE RingWrite(ringBuf, m)
  <2>1. Store(rb)
    BY <1>3 DEF Accept
  <2>2. ringBuf.nFull < ringBuf.maxBuf /\ m \in Cell
    BY <1>1 DEF Full, RingOK, Cell
  <2>3. RingOK(rb) /\ rb.maxBuf = ringBuf.maxBuf
    BY <1>1, <2>2, JamLemma, WriteLemma
  <2> HIDE DEF rb
  <2> QED
    BY <1>1, <1>3, <2>1, <2>3, StoreInv
<1> QED
  BY <1>2, <1>3

LEMMA SendInv ==
    ASSUME QueueInv, NEW m \in Mesg, NEW op \in {"send", "jam"}, Send(op, m)
    PROVE  QueueInv'
<1>1. Accept(op, m) /\ call' = call
  BY DEF Send
<1>2. /\ call' \in [Task -> SendCall \cup RecvCall \cup {NoCall}]
      /\ \A u \in Task : Returning(u)
  BY <1>1 DEF QueueInv, TypesOK, Returning
<1> QED
  BY <1>1, <1>2, AcceptInv

LEMMA CallMesg ==
    ASSUME TypesOK, NEW t \in Task, call[t].op \in {"send", "jam"}
    PROVE  call[t] \in SendCall /\ call[t].mesg \in Mesg /\ call[t] # NoCall
  BY DEF TypesOK, SendCall, RecvCall, NoCall

LEMMA SendResumeInv ==
    ASSUME QueueInv, NEW t \in Sender, SendResume(t)
    PROVE  QueueInv'
<1>1. /\ t \in Task /\ status[t] = "READY" /\ call[t].op \in {"send", "jam"} /\ ~timeOut[t]
      /\ Accept(call[t].op, call[t].mesg) /\ Return(t) /\ TypesOK /\ TaskOK(t)
  BY Ids DEF SendResume, Resumes, QueueInv
<1>2. call[t].mesg \in Mesg
  BY <1>1, CallMesg
<1>3. waitInfo[t] = "NORMAL"
  BY <1>1 DEF TaskOK
<1>4. /\ call' \in [Task -> SendCall \cup RecvCall \cup {NoCall}]
      /\ \A u \in Task : Returning(u)
  BY <1>1, <1>3, ReturnLemma
<1> QED
  BY <1>1, <1>2, <1>4, AcceptInv

LEMMA PostOvwInv ==
    ASSUME QueueInv, NEW m \in Mesg, PostOvw(m)
    PROVE  QueueInv'
<1>1. /\ ringBuf.maxBuf = 1 /\ broadcastReceivers = 0 /\ UNCHANGED <<timeOut, call, jobs>>
      /\ m \in Cell
  BY DEF PostOvw, Mailbox, Cell
<1>2. /\ call' \in [Task -> SendCall \cup RecvCall \cup {NoCall}]
      /\ \A u \in Task : Returning(u)
  BY <1>1 DEF QueueInv, TypesOK, Returning
<1>3. RingOK(RingOverwrite(ringBuf, m)) /\ RingOverwrite(ringBuf, m).maxBuf = ringBuf.maxBuf
  BY <1>1, OverwriteLemma DEF QueueInv
<1>4. CASE Direct
  BY <1>1, <1>2, <1>4, HandOverInv DEF PostOvw
<1>5. CASE ~Direct /\ ringBuf.nFull = 0
  <2>1. Store(RingOverwrite(ringBuf, m))
    BY <1>5 DEF PostOvw
  <2> QED
    BY <1>1, <1>2, <1>3, <1>5, <2>1, StoreInv
<1>6. CASE ~Direct /\ ringBuf.nFull # 0
  <2>1. /\ ringBuf' = RingOverwrite(ringBuf, m)
        /\ UNCHANGED <<waitingReceivers, waitingSenders, broadcastReceivers, recvBuf, waitInfo,
                       status, armed, timeOut, call, jobs>>
    BY <1>6 DEF PostOvw
  <2>2. TypesOK' /\ WaitersOK' /\ RingOK(ringBuf')
    BY <1>3, <2>1 DEF QueueInv, TypesOK, WaitersOK
  <2>3. \A u \in Task : TaskOK(u)'
    BY <2>1 DEF QueueInv, TaskOK
  <2>4. BroadcastOK'
    BY <1>1, <2>1, SameBroadcast, DeliveredCount DEF QueueInv
  <2>5. NoReceiverStarves'
    BY <1>1, <1>6, <2>1 DEF QueueInv, NoReceiverStarves, NothingToRecv
  <2> QED
    BY <2>2, <2>3, <2>4, <2>5 DEF QueueInv
<1> QED
  BY <1>4, <1>5, <1>6

(***************************************************************************)
(* Waiting.                                                                *)
(***************************************************************************)
LEMMA WaitEffect ==
    ASSUME TypesOK, NEW t \in Task, ~timeOut[t],
           NEW c \in SendCall \cup RecvCall, NEW st \in {"SENDING", "RECEIVING"}, Wait(t, c, st)
    PROVE  /\ status' \in [Task -> {"READY", "SENDING", "RECEIVING"}]
           /\ armed' \subseteq Task /\ timeOut' = timeOut
           /\ call' \in [Task -> SendCall \cup RecvCall \cup {NoCall}]
           /\ status'[t] = st /\ call'[t] = c
           /\ \A u \in Task : u # t => /\ status'[u] = status[u] /\ call'[u] = call[u]
                                       /\ u \in armed' => u \in armed
<1>1. /\ status' = [status EXCEPT ![t] = st] /\ call' = [call EXCEPT ![t] = c]
      /\ armed' = armed \/ armed' = armed \cup {t}
      /\ timeOut' = timeOut \/ timeOut' = [timeOut EXCEPT ![t] = FALSE]
  BY DEF Wait
<1>2. timeOut' = timeOut
  <2>1. timeOut \in [Task -> BOOLEAN]
    BY DEF TypesOK
  <2>2. [timeOut EXCEPT ![t] = FALSE] = timeOut
    BY <2>1
  <2> QED
    BY <1>1, <2>2
<1>3. /\ status' \in [Task -> {"READY", "SENDING", "RECEIVING"}] /\ status'[t] = st
      /\ \A u \in Task : u # t => status'[u] = status[u]
  BY <1>1 DEF TypesOK
<1>4. /\ call' \in [Task -> SendCall \cup RecvCall \cup {NoCall}] /\ call'[t] = c
      /\ \A u \in Task : u # t => call'[u] = call[u]
  BY <1>1 DEF TypesOK
<1> QED
  BY <1>1, <1>2, <1>3, <1>4 DEF TypesOK

(* A sender waits. *)
LEMMA BlockSendInv ==
    ASSUME QueueInv, NEW t \in Sender, status[t] = "READY", waitInfo[t] = "NORMAL", ~timeOut[t],
           NEW c \in SendCall, Wait(t, c, "SENDING"),
           waitingSenders' = TCBQEnqByPrio(waitingSenders, t, prio),
           UNCHANGED <<ringBuf, waitingReceivers, broadcastReceivers, waitInfo, recvBuf, jobs>>
    PROVE  QueueInv'
<1>1. /\ WaitersOK /\ TypesOK /\ BroadcastOK /\ RingOK(ringBuf) /\ NoReceiverStarves
      /\ t \in Task /\ \A u \in Task : TaskOK(u)
  BY Ids DEF QueueInv
<1>2. /\ status' \in [Task -> {"READY", "SENDING", "RECEIVING"}]
      /\ armed' \subseteq Task /\ timeOut' = timeOut
      /\ call' \in [Task -> SendCall \cup RecvCall \cup {NoCall}]
      /\ status'[t] = "SENDING" /\ call'[t] = c
      /\ \A u \in Task : u # t => /\ status'[u] = status[u] /\ call'[u] = call[u]
                                  /\ u \in armed' => u \in armed
  BY <1>1, WaitEffect
<1>3. TypesOK'
  BY <1>1, <1>2 DEF TypesOK
<1>4. t \notin ToSet(waitingSenders) /\ t \notin ToSet(waitingReceivers)
  BY <1>1 DEF WaitersOK
<1>5. /\ waitingSenders' \in Seq(Sender) /\ IsInjective(waitingSenders')
      /\ ToSet(waitingSenders') = ToSet(waitingSenders) \cup {t}
  BY <1>1, <1>4, TCBQEnqLemma DEF WaitersOK
<1>6. WaitersOK'
  BY <1>1, <1>2, <1>4, <1>5 DEF WaitersOK
<1>7. ASSUME NEW u \in Task PROVE TaskOK(u)'
  <2>1. CASE u = t
    <3>1. c.op \in {"send", "jam"}
      BY DEF SendCall
    <3> QED
      BY <1>2, <2>1, <3>1 DEF TaskOK
  <2>2. CASE u # t
    BY <1>1, <1>2, <2>2, SameTask
  <2> QED
    BY <2>1, <2>2
<1>8. BroadcastOK'
  BY <1>1, SameBroadcast
<1>9. NoReceiverStarves'
  BY <1>1, <1>2, NobodyStarves
<1> QED
  BY <1>1, <1>3, <1>6, <1>7, <1>8, <1>9 DEF QueueInv

(* A receiver waits, for a message if there is none, or for a broadcast. *)
LEMMA BlockRecvInv ==
    ASSUME QueueInv, NEW t \in Receiver \cup Audience, status[t] = "READY",
           waitInfo[t] = "NORMAL", ~timeOut[t],
           NEW c \in RecvCall, Wait(t, c, "RECEIVING"),
           waitingReceivers' = TCBQEnqByPrio(waitingReceivers, t, prio),
           NEW info, waitInfo' = [waitInfo EXCEPT ![t] = info],
           \/ c.op = "recv" /\ info = "NORMAL" /\ t \in Receiver /\ NothingToRecv
           \/ c.op = "brecv" /\ info = "BROADCAST" /\ t \in Audience,
           UNCHANGED <<ringBuf, waitingSenders, broadcastReceivers, recvBuf, jobs>>
    PROVE  QueueInv'
<1>1. /\ WaitersOK /\ TypesOK /\ BroadcastOK /\ RingOK(ringBuf) /\ NoReceiverStarves
      /\ t \in Task /\ \A u \in Task : TaskOK(u)
  BY Ids DEF QueueInv
<1>2. /\ status' \in [Task -> {"READY", "SENDING", "RECEIVING"}]
      /\ armed' \subseteq Task /\ timeOut' = timeOut
      /\ call' \in [Task -> SendCall \cup RecvCall \cup {NoCall}]
      /\ status'[t] = "RECEIVING" /\ call'[t] = c
      /\ \A u \in Task : u # t => /\ status'[u] = status[u] /\ call'[u] = call[u]
                                  /\ u \in armed' => u \in armed
  BY <1>1, WaitEffect
<1>3. /\ waitInfo'[t] = info /\ info # "BROADCAST_DELIVER"
      /\ \A u \in Task : u # t => waitInfo'[u] = waitInfo[u]
      /\ waitInfo' \in [Task -> {"NORMAL", "BROADCAST", "BROADCAST_DELIVER", "DIRECT_DELIVER"}]
  BY <1>1 DEF TypesOK
<1>4. TypesOK'
  BY <1>1, <1>2, <1>3 DEF TypesOK
<1>5. t \notin ToSet(waitingSenders) /\ t \notin ToSet(waitingReceivers)
  BY <1>1 DEF WaitersOK
<1>6. /\ waitingReceivers' \in Seq(Receiver \cup Audience) /\ IsInjective(waitingReceivers')
      /\ ToSet(waitingReceivers') = ToSet(waitingReceivers) \cup {t}
  BY <1>1, <1>5, TCBQEnqLemma DEF WaitersOK
<1>7. WaitersOK'
  BY <1>1, <1>2, <1>5, <1>6 DEF WaitersOK
<1>8. ASSUME NEW u \in Task PROVE TaskOK(u)'
  <2>1. CASE u = t
    BY <1>2, <1>3, <2>1 DEF TaskOK
  <2>2. CASE u # t
    BY <1>1, <1>2, <1>3, <2>2, SameTask
  <2> QED
    BY <2>1, <2>2
<1>9. BroadcastOK'
  BY <1>1, <1>3, SameBroadcast
<1>10. NoReceiverStarves'
  BY <1>1, <1>2, <1>3 DEF NoReceiverStarves, NothingToRecv
<1> QED
  BY <1>1, <1>4, <1>7, <1>8, <1>9, <1>10 DEF QueueInv

LEMMA IdleTask ==
    ASSUME QueueInv, NEW t \in Task, Calls(t)
    PROVE  status[t] = "READY" /\ waitInfo[t] = "NORMAL" /\ ~timeOut[t]
  BY Ids DEF Calls, QueueInv, TaskOK

LEMMA SendBlockInv ==
    ASSUME QueueInv, NEW t \in Sender, NEW c \in SendCall, SendBlock(t, c)
    PROVE  QueueInv'
  BY IdleTask, BlockSendInv, Ids DEF SendBlock

LEMMA SendBlockAgainInv ==
    ASSUME QueueInv, NEW t \in Sender, SendBlockAgain(t)
    PROVE  QueueInv'
<1>1. /\ t \in Task /\ status[t] = "READY" /\ call[t].op \in {"send", "jam"} /\ ~timeOut[t]
      /\ TypesOK /\ TaskOK(t)
  BY Ids DEF SendBlockAgain, Resumes, QueueInv
<1>2. call[t] \in SendCall /\ waitInfo[t] = "NORMAL"
  BY <1>1, CallMesg DEF TaskOK
<1> QED
  BY <1>1, <1>2, BlockSendInv DEF SendBlockAgain

LEMMA RecvCalls ==
    ASSUME NEW timed \in BOOLEAN, NEW op \in {"recv", "brecv"}
    PROVE  [op |-> op, timed |-> timed] \in RecvCall
  BY DEF RecvCall

LEMMA RecvBlockInv ==
    ASSUME QueueInv, NEW t \in Receiver, NEW timed \in BOOLEAN, RecvBlock(t, timed)
    PROVE  QueueInv'
<1> DEFINE c == [op |-> "recv", timed |-> timed]
<1>1. /\ c \in RecvCall /\ c.op = "recv"
  BY RecvCalls
<1>2. /\ Calls(t) /\ NothingToRecv /\ Wait(t, c, "RECEIVING")
      /\ waitInfo' = [waitInfo EXCEPT ![t] = "NORMAL"]
      /\ waitingReceivers' = TCBQEnqByPrio(waitingReceivers, t, prio)
      /\ UNCHANGED <<ringBuf, waitingSenders, broadcastReceivers, recvBuf, jobs>>
  BY DEF RecvBlock
<1> HIDE DEF c
<1>3. t \in Task /\ status[t] = "READY" /\ waitInfo[t] = "NORMAL" /\ ~timeOut[t]
  BY <1>2, IdleTask, Ids
<1> QED
  BY <1>1, <1>2, <1>3, BlockRecvInv

LEMMA RecvCallType ==
    ASSUME TypesOK, NEW t \in Task, call[t].op \in {"recv", "brecv"}
    PROVE  call[t] \in RecvCall /\ call[t] # NoCall
  BY DEF TypesOK, SendCall, RecvCall, NoCall

LEMMA RecvBlockAgainInv ==
    ASSUME QueueInv, NEW t \in Receiver, RecvBlockAgain(t)
    PROVE  QueueInv'
<1>1. /\ t \in Task /\ status[t] = "READY" /\ call[t].op = "recv" /\ ~timeOut[t]
      /\ TypesOK /\ TaskOK(t)
  BY Ids DEF RecvBlockAgain, Resumes, QueueInv
<1>2. /\ waitInfo[t] # "DIRECT_DELIVER" /\ NothingToRecv /\ Wait(t, call[t], "RECEIVING")
      /\ waitingReceivers' = TCBQEnqByPrio(waitingReceivers, t, prio)
      /\ UNCHANGED <<ringBuf, waitingSenders, broadcastReceivers, waitInfo, recvBuf, jobs>>
  BY DEF RecvBlockAgain
<1>3. call[t] \in RecvCall /\ waitInfo[t] = "NORMAL"
  BY <1>1, <1>2, RecvCallType DEF TaskOK
<1>4. waitInfo' = [waitInfo EXCEPT ![t] = "NORMAL"]
  BY <1>1, <1>2, <1>3 DEF TypesOK
<1>5. UNCHANGED <<ringBuf, waitingSenders, broadcastReceivers, recvBuf, jobs>>
  BY <1>2
<1>6. NothingToRecv /\ Wait(t, call[t], "RECEIVING")
      /\ waitingReceivers' = TCBQEnqByPrio(waitingReceivers, t, prio)
  BY <1>2
<1> QED
  BY <1>1, <1>3, <1>4, <1>5, <1>6, BlockRecvInv

LEMMA BroadcastRecvInv ==
    ASSUME QueueInv, NEW t \in Audience, NEW timed \in BOOLEAN, BroadcastRecv(t, timed)
    PROVE  QueueInv'
<1> DEFINE c == [op |-> "brecv", timed |-> timed]
<1>1. /\ c \in RecvCall /\ c.op = "brecv"
  BY RecvCalls
<1>2. /\ Calls(t) /\ Wait(t, c, "RECEIVING")
      /\ waitInfo' = [waitInfo EXCEPT ![t] = "BROADCAST"]
      /\ waitingReceivers' = TCBQEnqByPrio(waitingReceivers, t, prio)
      /\ UNCHANGED <<ringBuf, waitingSenders, broadcastReceivers, recvBuf, jobs>>
  BY DEF BroadcastRecv
<1> HIDE DEF c
<1>3. t \in Task /\ status[t] = "READY" /\ waitInfo[t] = "NORMAL" /\ ~timeOut[t]
  BY <1>2, IdleTask, Ids
<1> QED
  BY <1>1, <1>2, <1>3, BlockRecvInv

LEMMA BroadcastRecvAgainInv ==
    ASSUME QueueInv, NEW t \in Audience, BroadcastRecvAgain(t)
    PROVE  QueueInv'
<1>1. /\ t \in Task /\ status[t] = "READY" /\ call[t].op = "brecv" /\ ~timeOut[t]
      /\ TypesOK /\ TaskOK(t)
  BY Ids DEF BroadcastRecvAgain, Resumes, QueueInv
<1>2. /\ waitInfo[t] # "BROADCAST_DELIVER" /\ Wait(t, call[t], "RECEIVING")
      /\ waitInfo' = [waitInfo EXCEPT ![t] = "BROADCAST"]
      /\ waitingReceivers' = TCBQEnqByPrio(waitingReceivers, t, prio)
      /\ UNCHANGED <<ringBuf, waitingSenders, broadcastReceivers, recvBuf, jobs>>
  BY DEF BroadcastRecvAgain
<1>3. call[t] \in RecvCall /\ waitInfo[t] = "NORMAL"
  BY <1>1, <1>2, RecvCallType DEF TaskOK
<1> QED
  BY <1>1, <1>2, <1>3, BlockRecvInv

(***************************************************************************)
(* Receiving.                                                              *)
(***************************************************************************)

LEMMA TakeOutEffect ==
    ASSUME QueueInv, TakeOut, ringBuf.nFull > 0, waitingReceivers' = waitingReceivers
    PROVE  /\ RingOK(ringBuf') /\ ringBuf'.maxBuf = ringBuf.maxBuf
           /\ ringBuf'.nFull = ringBuf.nFull - 1
           /\ status' \in [Task -> {"READY", "SENDING", "RECEIVING"}]
           /\ armed' \subseteq Task /\ WaitersOK'
           /\ \A u \in Task : Woke(u)
<1>1. WaitersOK /\ TypesOK /\ RingOK(ringBuf)
  BY DEF QueueInv
<1>2. /\ RingOK(ringBuf') /\ ringBuf'.maxBuf = ringBuf.maxBuf
      /\ ringBuf'.nFull = ringBuf.nFull - 1
  BY <1>1, ReadLemma DEF TakeOut
<1> DEFINE ts == IF waitingSenders = <<>> THEN {} ELSE {Head(waitingSenders)}
<1>3. /\ waitingSenders' = IF waitingSenders = <<>> THEN <<>> ELSE Tail(waitingSenders)
      /\ Ready(ts)
  BY DEF TakeOut
<1>4. /\ waitingSenders' \in Seq(Sender) /\ IsInjective(waitingSenders')
      /\ ToSet(waitingSenders') = ToSet(waitingSenders) \ ts
      /\ ts \subseteq ToSet(waitingSenders)
  <2>1. CASE waitingSenders = <<>>
    BY <1>1, <1>3, <2>1 DEF WaitersOK
  <2>2. CASE waitingSenders # <<>>
    <3>1. waitingSenders \in Seq(Sender) /\ IsInjective(waitingSenders)
      BY <1>1 DEF WaitersOK
    <3>2. waitingSenders' = Tail(waitingSenders) /\ ts = {Head(waitingSenders)}
      BY <1>3, <2>2
    <3> QED
      BY <2>2, <3>1, <3>2, TailLemma
  <2> QED
    BY <2>1, <2>2
<1> HIDE DEF ts
<1>5. /\ \A u \in Task : status'[u] = IF u \in ts THEN "READY" ELSE status[u]
      /\ status' = [u \in Task |-> IF u \in ts THEN "READY" ELSE status[u]]
      /\ armed' = armed \ ts
  BY <1>3 DEF Ready
<1>6. \A u \in ts : u \in Task /\ status[u] = "SENDING"
  BY <1>1, <1>4, InQueues DEF WaitersOK
<1>7. /\ ToSet(waitingReceivers') = ToSet(waitingReceivers) \ ts
      /\ waitingReceivers' \in Seq(Receiver \cup Audience) /\ IsInjective(waitingReceivers')
  BY <1>1, <1>6 DEF WaitersOK
<1>8. WaitersOK'
  BY <1>1, <1>4, <1>5, <1>7, LeaveQueues
<1>9. \A u \in Task : Woke(u)
  BY <1>5, <1>6 DEF Woke
<1>10. /\ status' \in [Task -> {"READY", "SENDING", "RECEIVING"}]
       /\ armed' \subseteq Task
  BY <1>1, <1>5 DEF TypesOK
<1> QED
  BY <1>2, <1>8, <1>9, <1>10

(* Nobody waits in kMesgQueueRecv when a message is taken out. *)
LEMMA TakeInv ==
    ASSUME QueueInv, ~NothingToRecv, TakeOut,
           UNCHANGED <<waitingReceivers, broadcastReceivers, timeOut, waitInfo, recvBuf, jobs>>,
           call' \in [Task -> SendCall \cup RecvCall \cup {NoCall}],
           \A u \in Task : Returning(u)
    PROVE  QueueInv'
<1>1. /\ TypesOK /\ BroadcastOK /\ RingOK(ringBuf) /\ NoReceiverStarves
      /\ \A u \in Task : TaskOK(u)
  BY DEF QueueInv
<1>2. ringBuf.nFull > 0 /\ broadcastReceivers = 0
  BY <1>1, DeliveredCount DEF NothingToRecv, RingOK
<1>3. /\ RingOK(ringBuf') /\ WaitersOK'
      /\ status' \in [Task -> {"READY", "SENDING", "RECEIVING"}]
      /\ armed' \subseteq Task /\ \A u \in Task : Woke(u)
  BY <1>2, TakeOutEffect
<1>4. TypesOK'
  BY <1>1, <1>3 DEF TypesOK
<1>5. \A u \in Task : TaskOK(u)'
  BY <1>1, <1>3, ReturnedTask
<1>6. BroadcastOK'
  BY <1>1, <1>2, SameBroadcast
<1>7. NoReceiverStarves'
  BY <1>1, <1>3 DEF NoReceiverStarves, Woke
<1> QED
  BY <1>3, <1>4, <1>5, <1>6, <1>7 DEF QueueInv

LEMMA RecvInv == ASSUME QueueInv, Recv PROVE QueueInv'
<1>1. /\ call' \in [Task -> SendCall \cup RecvCall \cup {NoCall}]
      /\ \A u \in Task : Returning(u)
  BY DEF Recv, QueueInv, TypesOK, Returning
<1> QED
  BY <1>1, TakeInv DEF Recv

LEMMA RecvResumeInv == ASSUME QueueInv, NEW t \in Receiver, RecvResume(t) PROVE QueueInv'
<1>1. /\ t \in Task /\ status[t] = "READY" /\ call[t].op = "recv" /\ ~timeOut[t]
      /\ waitInfo[t] # "DIRECT_DELIVER" /\ Return(t) /\ TaskOK(t)
  BY Ids DEF RecvResume, Resumes, QueueInv
<1>2. waitInfo[t] = "NORMAL"
  BY <1>1 DEF TaskOK
<1>3. /\ call' \in [Task -> SendCall \cup RecvCall \cup {NoCall}]
      /\ \A u \in Task : Returning(u)
  BY <1>1, <1>2, ReturnLemma
<1> QED
  BY <1>3, TakeInv DEF RecvResume

LEMMA RecvDeliveredInv == ASSUME QueueInv, NEW t \in Receiver, RecvDelivered(t) PROVE QueueInv'
<1>1. /\ t \in Task /\ status[t] = "READY" /\ call[t].op = "recv" /\ ~timeOut[t]
      /\ waitInfo[t] = "DIRECT_DELIVER" /\ waitInfo' = [waitInfo EXCEPT ![t] = "NORMAL"]
      /\ recvBuf' = [recvBuf EXCEPT ![t] = NoMesg] /\ call' = [call EXCEPT ![t] = NoCall]
      /\ UNCHANGED <<ringBuf, waitingReceivers, waitingSenders, broadcastReceivers, status,
                     armed, timeOut, jobs>>
  BY Ids DEF RecvDelivered, Resumes, Return, queueVars
<1>2. /\ WaitersOK /\ TypesOK /\ BroadcastOK /\ RingOK(ringBuf) /\ NoReceiverStarves
      /\ \A u \in Task : TaskOK(u)
  BY DEF QueueInv
<1>3. TypesOK' /\ WaitersOK' /\ RingOK(ringBuf')
  BY <1>1, <1>2 DEF TypesOK, WaitersOK
<1>4. /\ waitInfo'[t] = "NORMAL" /\ call'[t] = NoCall
      /\ \A u \in Task : u # t => waitInfo'[u] = waitInfo[u] /\ call'[u] = call[u]
  BY <1>1, <1>2 DEF TypesOK
<1>5. ASSUME NEW u \in Task PROVE TaskOK(u)'
  <2>1. CASE u = t
    BY <1>1, <1>2, <1>4, <2>1, Ids DEF TaskOK
  <2>2. CASE u # t
    BY <1>1, <1>2, <1>4, <2>2, SameTask
  <2> QED
    BY <2>1, <2>2
<1>6. BroadcastOK'
  BY <1>1, <1>2, <1>4, SameBroadcast
<1>7. NoReceiverStarves'
  BY <1>1, <1>2, <1>4, NobodyStarves
<1> QED
  BY <1>3, <1>5, <1>6, <1>7 DEF QueueInv

(* The last who reads a broadcast takes the message out. *)
LEMMA BroadcastTakeInv ==
    ASSUME QueueInv, NEW t \in Audience, BroadcastTake(t)
    PROVE  QueueInv'
<1>1. /\ t \in Task /\ status[t] = "READY" /\ call[t].op = "brecv" /\ ~timeOut[t]
      /\ waitInfo[t] = "BROADCAST_DELIVER" /\ waitInfo' = [waitInfo EXCEPT ![t] = "NORMAL"]
      /\ broadcastReceivers' = broadcastReceivers - 1 /\ call' = [call EXCEPT ![t] = NoCall]
      /\ UNCHANGED <<waitingReceivers, timeOut, recvBuf, jobs>>
  BY Ids DEF BroadcastTake, Resumes, Return
<1>2. /\ WaitersOK /\ TypesOK /\ BroadcastOK /\ RingOK(ringBuf)
      /\ \A u \in Task : TaskOK(u)
  BY DEF QueueInv
<1>3. t \in Delivered /\ IsFiniteSet(Delivered) /\ broadcastReceivers \in Nat
  BY <1>1, <1>2, DeliveredCount DEF Delivered
<1>4. broadcastReceivers > 0 /\ ringBuf.nFull = 1 /\ ringBuf.maxBuf = 1
  BY <1>2, <1>3, DeliveredCount DEF BroadcastOK
<1>5. /\ RingOK(ringBuf') /\ ringBuf'.maxBuf = 1
      /\ ringBuf'.nFull = IF broadcastReceivers = 1 THEN 0 ELSE 1
      /\ status' \in [Task -> {"READY", "SENDING", "RECEIVING"}]
      /\ armed' \subseteq Task /\ WaitersOK'
      /\ \A u \in Task : Woke(u)
  <2>1. CASE broadcastReceivers = 1
    <3>1. TakeOut
      BY <2>1 DEF BroadcastTake
    <3>2. ringBuf.nFull > 0 /\ waitingReceivers' = waitingReceivers /\ ringBuf.nFull - 1 = 0
      BY <1>1, <1>4
    <3> QED
      BY <1>4, <2>1, <3>1, <3>2, TakeOutEffect
  <2>2. CASE broadcastReceivers # 1
    <3>1. UNCHANGED <<ringBuf, waitingSenders, status, armed>>
      BY <2>2 DEF BroadcastTake
    <3> QED
      BY <1>1, <1>2, <1>4, <2>2, <3>1 DEF TypesOK, WaitersOK, Woke
  <2> QED
    BY <2>1, <2>2
<1>6. /\ waitInfo'[t] = "NORMAL" /\ call'[t] = NoCall
      /\ \A u \in Task : u # t => waitInfo'[u] = waitInfo[u] /\ call'[u] = call[u]
  BY <1>1, <1>2 DEF TypesOK
<1>7. TypesOK'
  BY <1>1, <1>2, <1>5 DEF TypesOK
<1>8. ASSUME NEW u \in Task PROVE TaskOK(u)'
  <2>1. CASE u = t
    <3>1. status'[t] = "READY" /\ t \notin armed' /\ ~timeOut'[t]
      BY <1>1, <1>2, <1>5 DEF Woke, TaskOK
    <3> QED
      BY <1>6, <2>1, <3>1, Ids DEF TaskOK
  <2>2. CASE u # t
    <3>1. timeOut'[u] = timeOut[u] /\ Woke(u)
      BY <1>1, <1>5
    <3> QED
      BY <1>2, <1>6, <2>2, <3>1, WokenTask
  <2> QED
    BY <2>1, <2>2
<1>9. BroadcastOK'
  <2>1. Delivered' = Delivered \ {t}
    BY <1>6 DEF Delivered
  <2>2. Cardinality(Delivered \ {t}) = Cardinality(Delivered) - 1
    BY <1>3, FS_RemoveElement
  <2>3. broadcastReceivers' = Cardinality(Delivered')
    BY <1>1, <1>2, <2>1, <2>2 DEF BroadcastOK
  <2>4. broadcastReceivers' > 0 => broadcastReceivers # 1
    BY <1>1, <1>3
  <2> QED
    BY <1>5, <2>3, <2>4 DEF BroadcastOK
<1>10. NoReceiverStarves'
  <2>1. NothingToRecv'
    BY <1>1, <1>3, <1>4, <1>5 DEF NothingToRecv
  <2> QED
    BY <2>1 DEF NoReceiverStarves
<1> QED
  BY <1>5, <1>7, <1>8, <1>9, <1>10 DEF QueueInv

(***************************************************************************)
(* Broadcast.                                                              *)
(***************************************************************************)

(* Those who are woken leave the queue. *)
LEMMA WakeUpToEffect ==
    ASSUME QueueInv, NEW n, NEW prepared, prepared \subseteq DOMAIN waitingReceivers,
           WakeUpTo(n, prepared), waitingSenders' = waitingSenders
    PROVE  \E ts \in SUBSET TasksAt(prepared) :
              /\ WaitersOK'
              /\ status' \in [Task -> {"READY", "SENDING", "RECEIVING"}]
              /\ \A u \in Task : status'[u] = IF u \in ts THEN "READY" ELSE status[u]
<1> DEFINE first == {i \in prepared : Cardinality({j \in prepared : j < i}) < n}
           ts == TasksAt(first)
<1>1. /\ waitingReceivers' = TCBQWithout(waitingReceivers, ts)
      /\ status' = [t \in Task |-> IF t \in ts THEN "READY" ELSE status[t]]
  BY DEF WakeUpTo
<1>2. ts \subseteq TasksAt(prepared) /\ ts \subseteq ToSet(waitingReceivers)
  <2>1. first \subseteq prepared /\ first \subseteq DOMAIN waitingReceivers
    OBVIOUS
  <2> HIDE DEF first
  <2> QED
    BY <2>1 DEF TasksAt, ToSet
<1> HIDE DEF ts
<1>3. WaitersOK /\ TypesOK
  BY DEF QueueInv
<1>4. /\ waitingReceivers' \in Seq(Receiver \cup Audience) /\ IsInjective(waitingReceivers')
      /\ ToSet(waitingReceivers') = ToSet(waitingReceivers) \ ts
  <2>1. /\ waitingReceivers \in Seq(Receiver \cup Audience) /\ IsInjective(waitingReceivers)
    BY <1>3 DEF WaitersOK
  <2> QED
    BY <1>1, <2>1, TCBQWithoutLemma
<1>5. \A u \in ts : u \in Task /\ status[u] = "RECEIVING"
  BY <1>2, <1>3, InQueues DEF WaitersOK
<1>6. /\ \A u \in Task : status'[u] = IF u \in ts THEN "READY" ELSE status[u]
      /\ status' \in [Task -> {"READY", "SENDING", "RECEIVING"}]
  BY <1>1, <1>3 DEF TypesOK
<1>7. /\ waitingSenders' \in Seq(Sender) /\ IsInjective(waitingSenders')
      /\ ToSet(waitingSenders') = ToSet(waitingSenders) \ ts
  BY <1>3, <1>5, InQueues DEF WaitersOK
<1>8. WaitersOK'
  BY <1>3, <1>4, <1>6, <1>7, LeaveQueues
<1> QED
  BY <1>2, <1>6, <1>8

LEMMA BroadcastInv ==
    ASSUME QueueInv, NEW m \in Mesg, Broadcast(m)
    PROVE  QueueInv'
<1> DEFINE P == Places("BROADCAST")
           A == TasksAt(P)
           n == Cardinality(P)
<1>1. /\ ringBuf.maxBuf = 1 /\ ~Full /\ n > 0 /\ ringBuf' = RingWrite(ringBuf, m)
      /\ broadcastReceivers' = n
      /\ waitInfo' = [u \in Task |-> IF u \in A THEN "BROADCAST_DELIVER" ELSE waitInfo[u]]
      /\ armed' = armed \ A
      /\ UNCHANGED <<waitingSenders, timeOut, recvBuf, call>>
  BY DEF Broadcast, Mailbox, DisarmPrepared
<1>2. \/ jobs' = Append(jobs, n) /\ UNCHANGED <<waitingReceivers, status>>
      \/ WakeUpTo(1, P) /\ jobs' = jobs
  BY DEF Broadcast
<1>3. /\ WaitersOK /\ TypesOK /\ BroadcastOK /\ RingOK(ringBuf)
      /\ \A u \in Task : TaskOK(u)
  BY DEF QueueInv
<1>4. /\ n \in Nat /\ Cardinality(A) = n
      /\ A = {u \in ToSet(waitingReceivers) : waitInfo[u] = "BROADCAST"}
      /\ P \subseteq DOMAIN waitingReceivers
  BY <1>3, PlacesLemma DEF Places
<1> HIDE DEF P, A, n
<1>5. broadcastReceivers = 0 /\ Delivered = {}
  BY <1>1, <1>3, NotFull
<1>6. RingOK(ringBuf') /\ ringBuf'.maxBuf = 1 /\ ringBuf'.nFull = 1
  <2>1. ringBuf.nFull < ringBuf.maxBuf /\ ringBuf.nFull = 0 /\ m \in Cell
    BY <1>1, <1>3 DEF Full, RingOK, Cell
  <2>2. /\ RingOK(RingWrite(ringBuf, m)) /\ RingWrite(ringBuf, m).maxBuf = ringBuf.maxBuf
        /\ RingWrite(ringBuf, m).nFull = ringBuf.nFull + 1
    BY <1>3, <2>1, WriteLemma
  <2> QED
    BY <1>1, <2>1, <2>2
<1>7. PICK ts \in SUBSET A :
        /\ WaitersOK' /\ jobs' \in Seq(Nat)
        /\ status' \in [Task -> {"READY", "SENDING", "RECEIVING"}]
        /\ \A u \in Task : status'[u] = IF u \in ts THEN "READY" ELSE status[u]
  <2>1. CASE jobs' = Append(jobs, n) /\ UNCHANGED <<waitingReceivers, status>>
    <3>1. WaitersOK' /\ status' = status /\ {} \in SUBSET A
      BY <1>1, <1>3, <2>1 DEF WaitersOK
    <3>2. jobs' \in Seq(Nat)
      BY <1>3, <1>4, <2>1 DEF TypesOK
    <3>3. \A u \in Task : status'[u] = IF u \in {} THEN "READY" ELSE status[u]
      BY <3>1
    <3>4. status' \in [Task -> {"READY", "SENDING", "RECEIVING"}]
      BY <1>3, <3>1 DEF TypesOK
    <3> QED
      BY <3>1, <3>2, <3>3, <3>4
  <2>2. CASE WakeUpTo(1, P) /\ jobs' = jobs
    <3>1. waitingSenders' = waitingSenders
      BY <1>1
    <3>2. PICK ts \in SUBSET TasksAt(P) :
             /\ WaitersOK'
             /\ status' \in [Task -> {"READY", "SENDING", "RECEIVING"}]
             /\ \A u \in Task : status'[u] = IF u \in ts THEN "READY" ELSE status[u]
      BY <1>4, <2>2, <3>1, WakeUpToEffect
    <3>3. ts \in SUBSET A /\ jobs' \in Seq(Nat)
      BY <1>3, <2>2 DEF A, TypesOK
    <3> QED
      BY <3>2, <3>3
  <2> QED
    BY <1>2, <2>1, <2>2
<1>8. \A u \in A : /\ u \in Task /\ status[u] = "RECEIVING" /\ waitInfo[u] = "BROADCAST"
                   /\ call[u].op = "brecv" /\ ~timeOut[u] /\ u \in Audience
  BY <1>3, <1>4, InQueues DEF WaitersOK, TaskOK
<1>9. /\ \A u \in Task : waitInfo'[u] = IF u \in A THEN "BROADCAST_DELIVER" ELSE waitInfo[u]
      /\ waitInfo' \in [Task -> {"NORMAL", "BROADCAST", "BROADCAST_DELIVER", "DIRECT_DELIVER"}]
  BY <1>1, <1>3 DEF TypesOK
<1>10. TypesOK'
  BY <1>1, <1>3, <1>7, <1>9 DEF TypesOK
<1>11. ASSUME NEW u \in Task PROVE TaskOK(u)'
  <2>1. CASE u \in A
    <3>1. /\ status'[u] \in {"READY", "RECEIVING"} /\ waitInfo'[u] = "BROADCAST_DELIVER"
          /\ call'[u] = call[u] /\ ~timeOut'[u] /\ u \notin armed'
      BY <1>1, <1>7, <1>8, <1>9, <2>1
    <3> QED
      BY <1>8, <2>1, <3>1 DEF TaskOK
  <2>2. CASE u \notin A
    BY <1>1, <1>3, <1>7, <1>9, <2>2, SameTask
  <2> QED
    BY <2>1, <2>2
<1>12. BroadcastOK'
  <2>1. Delivered' = A
    BY <1>5, <1>8, <1>9 DEF Delivered
  <2> QED
    BY <1>1, <1>4, <1>6, <2>1 DEF BroadcastOK
<1>13. NoReceiverStarves'
  BY <1>1 DEF NoReceiverStarves, NothingToRecv
<1> QED
  BY <1>6, <1>7, <1>10, <1>11, <1>12, <1>13 DEF QueueInv

LEMMA BroadcastWakeInv ==
    ASSUME QueueInv, BroadcastWake
    PROVE  QueueInv'
<1> DEFINE P == Places("BROADCAST_DELIVER")
<1>1. /\ jobs # <<>> /\ WakeUpTo(Head(jobs), P) /\ jobs' = Tail(jobs)
      /\ UNCHANGED <<ringBuf, waitingSenders, broadcastReceivers, armed, timeOut, waitInfo,
                     recvBuf, call>>
  BY DEF BroadcastWake
<1>2. /\ WaitersOK /\ TypesOK /\ BroadcastOK /\ RingOK(ringBuf) /\ NoReceiverStarves
      /\ \A u \in Task : TaskOK(u)
  BY DEF QueueInv
<1>3. /\ P \subseteq DOMAIN waitingReceivers
      /\ TasksAt(P) = {u \in ToSet(waitingReceivers) : waitInfo[u] = "BROADCAST_DELIVER"}
  BY <1>2, PlacesLemma DEF Places
<1> HIDE DEF P
<1>4. PICK ts \in SUBSET TasksAt(P) :
        /\ WaitersOK'
        /\ status' \in [Task -> {"READY", "SENDING", "RECEIVING"}]
        /\ \A u \in Task : status'[u] = IF u \in ts THEN "READY" ELSE status[u]
  BY <1>1, <1>3, WakeUpToEffect
<1>5. \A u \in ts : /\ u \in Task /\ waitInfo[u] = "BROADCAST_DELIVER"
                    /\ status[u] = "RECEIVING" /\ call[u].op = "brecv"
  BY <1>2, <1>3, <1>4, InQueues DEF WaitersOK, TaskOK
<1>6. TypesOK' /\ RingOK(ringBuf')
  BY <1>1, <1>2, <1>4 DEF TypesOK
<1>7. ASSUME NEW u \in Task PROVE TaskOK(u)'
  BY <1>1, <1>2, <1>4, <1>5 DEF TaskOK
<1>8. BroadcastOK'
  BY <1>1, <1>2, SameBroadcast
<1>9. NoReceiverStarves'
  BY <1>1, <1>2, <1>4, NobodyStarves
<1> QED
  BY <1>4, <1>6, <1>7, <1>8, <1>9 DEF QueueInv

(***************************************************************************)
(* Reset and timeouts.                                                     *)
(***************************************************************************)

(* Unless a reset comes while a broadcast is being read, it meets those    *)
(* who are to receive it where they wait.                                  *)
LEMMA ResetInv ==
    ASSUME QueueInv, Reset, ~LateReset
    PROVE  QueueInv'
<1> DEFINE R == ToSet(waitingReceivers)
           S == ToSet(waitingSenders)
<1>1. /\ ~Reading /\ ringBuf' = RingReset(ringBuf) /\ broadcastReceivers' = 0
      /\ waitingReceivers' = <<>> /\ waitingSenders' = <<>>
      /\ waitInfo' = [u \in Task |-> IF u \in R THEN "NORMAL" ELSE waitInfo[u]]
      /\ status' = [u \in Task |-> IF u \in R \cup S THEN "READY" ELSE status[u]]
      /\ armed' = armed \ (R \cup S)
      /\ UNCHANGED <<timeOut, recvBuf, call, jobs>>
  BY DEF Reset, Ready
<1>2. /\ WaitersOK /\ TypesOK /\ RingOK(ringBuf) /\ \A u \in Task : TaskOK(u)
  BY DEF QueueInv
<1>3. \A u \in Task : /\ u \in R <=> status[u] = "RECEIVING"
                      /\ u \in S <=> status[u] = "SENDING"
  BY <1>2 DEF WaitersOK
<1> HIDE DEF R, S
<1>4. /\ status' \in [Task -> {"READY", "SENDING", "RECEIVING"}]
      /\ \A u \in Task : status'[u] = "READY"
  BY <1>1, <1>2, <1>3 DEF TypesOK
<1>5. /\ waitInfo' \in [Task -> {"NORMAL", "BROADCAST", "BROADCAST_DELIVER", "DIRECT_DELIVER"}]
      /\ \A u \in Task : waitInfo'[u] = IF u \in R THEN "NORMAL" ELSE waitInfo[u]
  BY <1>1, <1>2 DEF TypesOK
<1>6. TypesOK'
  BY <1>1, <1>2, <1>4, <1>5 DEF TypesOK
<1>7. RingOK(ringBuf') /\ ringBuf'.nFull = 0
  BY <1>1, <1>2, ResetLemma
<1>8. WaitersOK'
  <2>1. /\ waitingReceivers' \in Seq(Receiver \cup Audience) /\ waitingSenders' \in Seq(Sender)
        /\ IsInjective(waitingReceivers') /\ IsInjective(waitingSenders')
        /\ ToSet(waitingReceivers') = {} /\ ToSet(waitingSenders') = {}
    BY <1>1, ToSetEmpty DEF IsInjective
  <2> QED
    BY <1>4, <2>1 DEF WaitersOK
<1>9. ASSUME NEW u \in Task PROVE TaskOK(u)'
  <2>1. u \notin armed'
    BY <1>1, <1>2, <1>3 DEF TypesOK, TaskOK
  <2>2. call'[u] = call[u] /\ timeOut'[u] = timeOut[u] /\ status'[u] = "READY"
    BY <1>1, <1>4
  <2>3. CASE u \in R
    BY <1>2, <1>3, <1>5, <2>1, <2>2, <2>3 DEF TaskOK
  <2>4. CASE u \notin R
    BY <1>2, <1>3, <1>5, <2>1, <2>2, <2>4 DEF TaskOK, TypesOK
  <2> QED
    BY <2>3, <2>4
<1>10. BroadcastOK'
  <2>1. ASSUME NEW u \in Task PROVE waitInfo'[u] # "BROADCAST_DELIVER"
    <3>1. CASE status[u] = "RECEIVING"
      BY <1>3, <1>5, <3>1
    <3>2. CASE status[u] # "RECEIVING"
      <4>1. waitInfo'[u] = waitInfo[u] /\ status[u] \in {"READY", "SENDING"}
        BY <1>2, <1>3, <1>5, <3>2 DEF TypesOK
      <4> QED
        BY <1>1, <1>2, <4>1 DEF TaskOK, Reading, Resumes
    <3> QED
      BY <3>1, <3>2
  <2>2. Delivered' = {}
    BY <2>1 DEF Delivered
  <2> QED
    BY <1>1, <2>2, FS_EmptySet DEF BroadcastOK
<1>11. NoReceiverStarves'
  BY <1>7 DEF NoReceiverStarves, NothingToRecv
<1> QED
  BY <1>6, <1>7, <1>8, <1>9, <1>10, <1>11 DEF QueueInv

LEMMA ExpireInv ==
    ASSUME QueueInv, NEW t \in Task, Expire(t)
    PROVE  QueueInv'
<1>1. /\ t \in armed
      /\ status' = [u \in Task |-> IF u \in {t} THEN "READY" ELSE status[u]]
      /\ armed' = armed \ {t}
      /\ timeOut' = [timeOut EXCEPT ![t] = TRUE]
      /\ waitInfo' = [waitInfo EXCEPT ![t] = "NORMAL"]
      /\ waitingReceivers' = TCBQRem(waitingReceivers, t)
      /\ waitingSenders' = TCBQRem(waitingSenders, t)
      /\ UNCHANGED <<ringBuf, broadcastReceivers, recvBuf, call, jobs>>
  BY DEF Expire, Ready
<1>2. /\ WaitersOK /\ TypesOK /\ BroadcastOK /\ RingOK(ringBuf) /\ NoReceiverStarves
      /\ \A u \in Task : TaskOK(u)
  BY DEF QueueInv
<1>3. /\ status' \in [Task -> {"READY", "SENDING", "RECEIVING"}]
      /\ \A u \in Task : status'[u] = IF u \in {t} THEN "READY" ELSE status[u]
      /\ timeOut' \in [Task -> BOOLEAN] /\ timeOut'[t]
      /\ \A u \in Task : u # t => timeOut'[u] = timeOut[u]
      /\ waitInfo' \in [Task -> {"NORMAL", "BROADCAST", "BROADCAST_DELIVER", "DIRECT_DELIVER"}]
      /\ waitInfo'[t] = "NORMAL" /\ \A u \in Task : u # t => waitInfo'[u] = waitInfo[u]
  BY <1>1, <1>2 DEF TypesOK
<1>4. TypesOK' /\ RingOK(ringBuf')
  BY <1>1, <1>2, <1>3 DEF TypesOK
<1>5. /\ waitingReceivers' \in Seq(Receiver \cup Audience) /\ IsInjective(waitingReceivers')
      /\ ToSet(waitingReceivers') = ToSet(waitingReceivers) \ {t}
      /\ waitingSenders' \in Seq(Sender) /\ IsInjective(waitingSenders')
      /\ ToSet(waitingSenders') = ToSet(waitingSenders) \ {t}
  <2>1. /\ waitingReceivers \in Seq(Receiver \cup Audience) /\ IsInjective(waitingReceivers)
        /\ waitingSenders \in Seq(Sender) /\ IsInjective(waitingSenders)
    BY <1>2 DEF WaitersOK
  <2>2. /\ waitingReceivers' = RemoveFirst(waitingReceivers, t)
        /\ waitingSenders' = RemoveFirst(waitingSenders, t)
    BY <1>1 DEF TCBQRem
  <2>3. /\ waitingReceivers' \in Seq(Receiver \cup Audience) /\ IsInjective(waitingReceivers')
        /\ ToSet(waitingReceivers') = ToSet(waitingReceivers) \ {t}
    BY <2>1, <2>2, RemoveFirstLemma
  <2>4. /\ waitingSenders' \in Seq(Sender) /\ IsInjective(waitingSenders')
        /\ ToSet(waitingSenders') = ToSet(waitingSenders) \ {t}
    BY <2>1, <2>2, RemoveFirstLemma
  <2> QED
    BY <2>3, <2>4
<1>6. WaitersOK'
  BY <1>2, <1>3, <1>5, LeaveQueues
<1>7. /\ status[t] # "READY" /\ waitInfo[t] # "BROADCAST_DELIVER"
      /\ call[t].op \in {"send", "jam", "recv", "brecv"}
  BY <1>1, <1>2 DEF TaskOK, TypesOK
<1>8. ASSUME NEW u \in Task PROVE TaskOK(u)'
  <2>1. CASE u = t
    <3>1. call'[t] = call[t] /\ call[t] # NoCall /\ t \notin armed'
      BY <1>1, <1>7, Ids
    <3> QED
      BY <1>2, <1>3, <2>1, <3>1 DEF TaskOK
  <2>2. CASE u # t
    BY <1>1, <1>2, <1>3, <2>2, SameTask
  <2> QED
    BY <2>1, <2>2
<1>9. BroadcastOK'
  BY <1>1, <1>2, <1>3, <1>7, SameBroadcast
<1>10. NoReceiverStarves'
  BY <1>1, <1>2, <1>3, NobodyStarves
<1> QED
  BY <1>4, <1>6, <1>8, <1>9, <1>10 DEF QueueInv

LEMMA TimeoutInv ==
    ASSUME QueueInv, NEW t \in Task, Timeout(t)
    PROVE  QueueInv'
<1>1. /\ status[t] = "READY" /\ timeOut[t] /\ timeOut' = [timeOut EXCEPT ![t] = FALSE]
      /\ waitInfo' = [waitInfo EXCEPT ![t] = "NORMAL"] \/ waitInfo' = waitInfo
      /\ call' = [call EXCEPT ![t] = NoCall]
      /\ UNCHANGED <<ringBuf, waitingReceivers, waitingSenders, broadcastReceivers, status,
                     armed, recvBuf, jobs>>
  BY DEF Timeout, Resumes, Return, queueVars
<1>2. /\ WaitersOK /\ TypesOK /\ BroadcastOK /\ RingOK(ringBuf) /\ NoReceiverStarves
      /\ \A u \in Task : TaskOK(u)
  BY DEF QueueInv
<1>3. waitInfo[t] = "NORMAL"
  BY <1>1, <1>2 DEF TaskOK
<1>4. waitInfo' = waitInfo
  <2>1. waitInfo \in [Task -> {"NORMAL", "BROADCAST", "BROADCAST_DELIVER", "DIRECT_DELIVER"}]
    BY <1>2 DEF TypesOK
  <2>2. [waitInfo EXCEPT ![t] = "NORMAL"] = waitInfo
    BY <1>3, <2>1
  <2> QED
    BY <1>1, <2>2
<1>5. /\ timeOut' \in [Task -> BOOLEAN] /\ ~timeOut'[t]
      /\ \A u \in Task : u # t => timeOut'[u] = timeOut[u]
      /\ call' \in [Task -> SendCall \cup RecvCall \cup {NoCall}] /\ call'[t] = NoCall
      /\ \A u \in Task : u # t => call'[u] = call[u]
  BY <1>1, <1>2 DEF TypesOK
<1>6. TypesOK' /\ WaitersOK' /\ RingOK(ringBuf')
  BY <1>1, <1>2, <1>4, <1>5 DEF TypesOK, WaitersOK
<1>7. ASSUME NEW u \in Task PROVE TaskOK(u)'
  <2>1. CASE u = t
    BY <1>1, <1>2, <1>3, <1>4, <1>5, <2>1, Ids DEF TaskOK
  <2>2. CASE u # t
    BY <1>1, <1>2, <1>4, <1>5, <2>2, SameTask
  <2> QED
    BY <2>1, <2>2
<1>8. BroadcastOK'
  BY <1>1, <1>2, <1>4, SameBroadcast
<1>9. NoReceiverStarves'
  BY <1>1, <1>2, <1>4, NobodyStarves
<1> QED
  BY <1>6, <1>7, <1>8, <1>9 DEF QueueInv

(***************************************************************************)
(* The theorems.                                                           *)
(***************************************************************************)
LEMMA QueueInit == MesgQueueInit => QueueInv
<1> SUFFICES ASSUME MesgQueueInit PROVE QueueInv
  OBVIOUS
<1>1. /\ waitingReceivers = <<>> /\ waitingSenders = <<>> /\ broadcastReceivers = 0
      /\ status = [t \in Task |-> "READY"] /\ armed = {} /\ timeOut = [t \in Task |-> FALSE]
      /\ waitInfo = [t \in Task |-> "NORMAL"] /\ recvBuf = [t \in Task |-> NoMesg]
      /\ call = [t \in Task |-> NoCall] /\ jobs = <<>>
  BY DEF MesgQueueInit
<1>2. PICK n \in Depth : ringBuf = RingInit(n, NoMesg)
  BY DEF MesgQueueInit
<1>3. RingOK(ringBuf)
  BY <1>2, Ids, RingInitLemma
<1>4. TypesOK
  BY <1>1 DEF TypesOK
<1>5. WaitersOK
  <2>1. /\ waitingReceivers \in Seq(Receiver \cup Audience) /\ waitingSenders \in Seq(Sender)
        /\ IsInjective(waitingReceivers) /\ IsInjective(waitingSenders)
        /\ ToSet(waitingReceivers) = {} /\ ToSet(waitingSenders) = {}
    BY <1>1, ToSetEmpty DEF IsInjective
  <2> QED
    BY <1>1, <2>1 DEF WaitersOK
<1>6. \A t \in Task : TaskOK(t)
  BY <1>1, Ids DEF TaskOK
<1>7. BroadcastOK
  <2>1. Delivered = {}
    BY <1>1 DEF Delivered
  <2> QED
    BY <1>1, <2>1, FS_EmptySet DEF BroadcastOK
<1>8. NoReceiverStarves
  BY <1>1 DEF NoReceiverStarves
<1> QED
  BY <1>3, <1>4, <1>5, <1>6, <1>7, <1>8 DEF QueueInv

LEMMA QueueSame == ASSUME QueueInv, UNCHANGED vars PROVE QueueInv'
<1>1. UNCHANGED <<ringBuf, waitingReceivers, waitingSenders, broadcastReceivers, status, armed,
                  timeOut, waitInfo, recvBuf, call, jobs>>
  BY DEF vars, queueVars, taskVars
<1>2. TypesOK' /\ WaitersOK' /\ RingOK(ringBuf')
  BY <1>1 DEF QueueInv, TypesOK, WaitersOK
<1>3. \A u \in Task : TaskOK(u)'
  BY <1>1 DEF QueueInv, TaskOK
<1>4. BroadcastOK' /\ NoReceiverStarves'
  BY <1>1 DEF QueueInv, BroadcastOK, Delivered, NoReceiverStarves, NothingToRecv
<1> QED
  BY <1>2, <1>3, <1>4 DEF QueueInv

LEMMA QueueStep ==
    ASSUME QueueInv, MesgQueueNext, ~LateReset
    PROVE  QueueInv'
<1>1. CASE \E m \in Mesg, op \in {"send", "jam"} : Send(op, m)
  BY <1>1, SendInv
<1>2. CASE \E m \in Mesg : PostOvw(m) \/ Broadcast(m)
  BY <1>2, PostOvwInv, BroadcastInv
<1>3. CASE \E t \in Sender, c \in SendCall : SendBlock(t, c)
  BY <1>3, SendBlockInv
<1>4. CASE \E t \in Sender : SendResume(t) \/ SendBlockAgain(t)
  BY <1>4, SendResumeInv, SendBlockAgainInv
<1>5. CASE Recv
  BY <1>5, RecvInv
<1>6. CASE \E t \in Receiver, timed \in BOOLEAN : RecvBlock(t, timed)
  BY <1>6, RecvBlockInv
<1>7. CASE \E t \in Receiver : RecvDelivered(t) \/ RecvResume(t) \/ RecvBlockAgain(t)
  BY <1>7, RecvDeliveredInv, RecvResumeInv, RecvBlockAgainInv
<1>8. CASE \E t \in Audience, timed \in BOOLEAN : BroadcastRecv(t, timed)
  BY <1>8, BroadcastRecvInv
<1>9. CASE \E t \in Audience : BroadcastRecvAgain(t) \/ BroadcastTake(t)
  BY <1>9, BroadcastRecvAgainInv, BroadcastTakeInv
<1>10. CASE BroadcastWake
  BY <1>10, BroadcastWakeInv
<1>11. CASE Reset
  BY <1>11, ResetInv
<1>12. CASE \E t \in Task : Expire(t) \/ Timeout(t)
  BY <1>12, ExpireInv, TimeoutInv
<1> QED
  BY <1>1, <1>2, <1>3, <1>4, <1>5, <1>6, <1>7, <1>8, <1>9, <1>10, <1>11, <1>12
     DEF MesgQueueNext

(* While no broadcast is read late, the waits, the queues and the ring of  *)
(* a message queue stay consistent, whatever is sent, received, broadcast, *)
(* reset or times out.                                                     *)
THEOREM QueueConsistent ==
    ASSUME ~LateReset
    PROVE  MesgQueueSpec => []QueueInv
<1>1. QueueInv /\ [MesgQueueNext]_vars => QueueInv'
  BY QueueStep, QueueSame
<1> QED
  BY <1>1, QueueInit, PTL DEF MesgQueueSpec

(* The count of those who have still to read a broadcast is exact, and its *)
(* message is there until the last has read it (kmesgq.c:1271).            *)
THEOREM BroadcastBookedHolds ==
    ASSUME ~LateReset
    PROVE  MesgQueueSpec => []BroadcastBooked
<1>1. QueueInv => BroadcastBooked
  <2> SUFFICES ASSUME QueueInv PROVE BroadcastBooked
    OBVIOUS
  <2>1. /\ WaitersOK /\ TypesOK /\ BroadcastOK /\ RingOK(ringBuf)
        /\ \A u \in Task : TaskOK(u)
    BY DEF QueueInv
  <2>2. broadcastReceivers \in 0 .. Cardinality(Audience)
    <3>1. Delivered \subseteq Audience
      BY <2>1 DEF Delivered, TaskOK, TypesOK
    <3>2. IsFiniteSet(Audience)
      BY Ids, FS_Subset
    <3>3. Cardinality(Delivered) <= Cardinality(Audience)
      BY <3>1, <3>2, FS_Subset
    <3>4. Cardinality(Delivered) \in Nat /\ Cardinality(Audience) \in Nat
      BY <2>1, <3>2, DeliveredCount, FS_CardinalityType
    <3> QED
      BY <2>1, <3>3, <3>4 DEF BroadcastOK
  <2>3. ringBuf.nFull <= ringBuf.maxBuf
    BY <2>1 DEF RingOK
  <2>4. MesgQueueTypeOK
    BY <2>1, <2>2, <2>3 DEF MesgQueueTypeOK, TypesOK, WaitersOK
  <2> QED
    BY <2>1, <2>4 DEF BroadcastBooked, BroadcastOK, Delivered
<1> QED
  BY <1>1, QueueConsistent, PTL

(* Nobody waits in kMesgQueueRecv for a message that is to be had. *)
THEOREM NoReceiverStarvesHolds ==
    ASSUME ~LateReset
    PROVE  MesgQueueSpec => []NoReceiverStarves
<1>1. QueueInv => NoReceiverStarves
  BY DEF QueueInv
<1> QED
  BY <1>1, QueueConsistent, PTL

(***************************************************************************)
(* The queue is a channel.                                                 *)
(***************************************************************************)
Queue == IF broadcastReceivers > 0 THEN <<>> ELSE Contents(ringBuf)

Inbox(t) == CASE waitInfo[t] = "DIRECT_DELIVER" -> recvBuf[t]
              [] waitInfo[t] = "BROADCAST_DELIVER" -> RingPeek(ringBuf)
              [] OTHER -> NoMesg

Inboxes == [t \in Task |-> Inbox(t)]

SameChannel == /\ ringBuf'.maxBuf = ringBuf.maxBuf
               /\ Queue' = Queue /\ Inboxes' = Inboxes

LEMMA ChannelPut ==
    ASSUME NEW m \in Mesg, Len(Queue) < ringBuf.maxBuf,
           Queue' \in {Append(Queue, m), <<m>> \o Queue}, Inboxes' = Inboxes,
           ringBuf'.maxBuf = ringBuf.maxBuf
    PROVE  Channel!ChannelNext
  BY DEF Channel!ChannelNext, Channel!Put, Queue, Inboxes, Inbox

LEMMA ChannelOverwrite ==
    ASSUME NEW m \in Mesg, ringBuf.maxBuf = 1, Queue' = <<m>>, Inboxes' = Inboxes,
           ringBuf'.maxBuf = ringBuf.maxBuf
    PROVE  Channel!ChannelNext
  BY DEF Channel!ChannelNext, Channel!Overwrite, Queue, Inboxes, Inbox

LEMMA ChannelTake ==
    ASSUME Queue # <<>>, Queue' = Tail(Queue), Inboxes' = Inboxes,
           ringBuf'.maxBuf = ringBuf.maxBuf
    PROVE  Channel!ChannelNext
  BY DEF Channel!ChannelNext, Channel!Take, Queue, Inboxes, Inbox

LEMMA ChannelHand ==
    ASSUME NEW m \in Mesg, Queue = <<>>, Queue' = <<>>, NEW ts \in SUBSET Task, ts # {},
           \A u \in ts : Inbox(u) = NoMesg,
           \A u \in Task : Inbox(u)' = IF u \in ts THEN m ELSE Inbox(u),
           ringBuf'.maxBuf = ringBuf.maxBuf
    PROVE  Channel!ChannelNext
<1>1. Channel!Hand(m)
  <2>1. ts \in (SUBSET {t \in Task : Inboxes[t] = NoMesg}) \ {{}}
    BY DEF Inboxes
  <2>2. Inboxes' = [t \in Task |-> IF t \in ts THEN m ELSE Inboxes[t]]
    BY DEF Inboxes
  <2>3. \E some \in (SUBSET {t \in Task : Inboxes[t] = NoMesg}) \ {{}} :
           Inboxes' = [t \in Task |-> IF t \in some THEN m ELSE Inboxes[t]]
    BY <2>1, <2>2
  <2>4. Queue = <<>> /\ Queue' = Queue
    OBVIOUS
  <2> QED
    BY <2>3, <2>4 DEF Channel!Hand, Queue, Inboxes, Inbox
<1> QED
  BY <1>1 DEF Channel!ChannelNext

LEMMA ChannelReturn ==
    ASSUME NEW t \in Task, Inbox(t)' = NoMesg, \A u \in Task : u # t => Inbox(u)' = Inbox(u),
           Queue' = Queue, ringBuf'.maxBuf = ringBuf.maxBuf
    PROVE  Channel!ChannelNext
<1>1. Channel!Return
  <2>1. Inboxes' = [Inboxes EXCEPT ![t] = NoMesg]
    BY DEF Inboxes
  <2> QED
    BY <2>1 DEF Channel!Return, Queue, Inboxes, Inbox
<1> QED
  BY <1>1 DEF Channel!ChannelNext

LEMMA ChannelReset ==
    ASSUME NEW ts \in SUBSET Task, Queue' = <<>>,
           \A u \in Task : Inbox(u)' = IF u \in ts THEN NoMesg ELSE Inbox(u),
           ringBuf'.maxBuf = ringBuf.maxBuf
    PROVE  Channel!ChannelNext
<1>1. Channel!Reset
  <2>1. Inboxes' = [t \in Task |-> IF t \in ts THEN NoMesg ELSE Inboxes[t]]
    BY DEF Inboxes
  <2> QED
    BY <2>1 DEF Channel!Reset, Queue, Inboxes, Inbox
<1> QED
  BY <1>1 DEF Channel!ChannelNext

LEMMA InboxStays ==
    ASSUME NEW u \in Task, recvBuf'[u] = recvBuf[u],
           \/ waitInfo'[u] = waitInfo[u]
           \/ /\ waitInfo[u] \notin {"DIRECT_DELIVER", "BROADCAST_DELIVER"}
              /\ waitInfo'[u] \notin {"DIRECT_DELIVER", "BROADCAST_DELIVER"},
           waitInfo[u] # "BROADCAST_DELIVER" \/ ringBuf' = ringBuf
    PROVE  Inbox(u)' = Inbox(u)
  BY DEF Inbox

LEMMA EmptyRing ==
    ASSUME NEW rb, RingOK(rb), rb.nFull = 0
    PROVE  Contents(rb) = <<>>
<1>1. Contents(rb) \in Seq(Cell) /\ Len(Contents(rb)) = 0
  BY ContentsLemma
<1> QED
  BY <1>1, EmptySeq

LEMMA HandOverMaps ==
    ASSUME QueueInv, NEW m \in Mesg, Direct, HandOver(m)
    PROVE  Channel!ChannelNext
<1>1. PICK r \in NormalReceiver :
        /\ recvBuf' = [recvBuf EXCEPT ![r] = m]
        /\ waitInfo' = [waitInfo EXCEPT ![r] = "DIRECT_DELIVER"]
        /\ UNCHANGED <<ringBuf, broadcastReceivers>>
  BY DEF HandOver
<1>2. WaitersOK /\ TypesOK /\ BroadcastOK /\ RingOK(ringBuf) /\ \A t \in Task : TaskOK(t)
  BY DEF QueueInv
<1>3. /\ broadcastReceivers = 0 /\ Delivered = {} /\ ringBuf.nFull = 0
  BY <1>2, NotFull DEF Direct
<1>4. /\ r \in Task /\ r \in ToSet(waitingReceivers) /\ waitInfo[r] # "BROADCAST"
  BY <1>1, <1>2, NormalLemma, InQueues
<1>5. waitInfo[r] = "NORMAL"
  BY <1>2, <1>3, <1>4 DEF WaitersOK, TaskOK, Delivered
<1>6. Queue = <<>> /\ Queue' = <<>>
  BY <1>1, <1>2, <1>3, EmptyRing DEF Queue
<1>7. waitInfo'[r] = "DIRECT_DELIVER" /\ recvBuf'[r] = m
  BY <1>1, <1>2, <1>4 DEF TypesOK
<1>8. \A u \in {r} : Inbox(u) = NoMesg
  BY <1>5 DEF Inbox
<1>9. \A u \in Task : Inbox(u)' = IF u \in {r} THEN m ELSE Inbox(u)
  <2> SUFFICES ASSUME NEW u \in Task PROVE Inbox(u)' = IF u \in {r} THEN m ELSE Inbox(u)
    OBVIOUS
  <2>1. CASE u = r
    BY <1>7, <2>1 DEF Inbox
  <2>2. CASE u # r
    <3>1. recvBuf'[u] = recvBuf[u] /\ waitInfo'[u] = waitInfo[u] /\ ringBuf' = ringBuf
      BY <1>1, <1>2, <1>4, <2>2 DEF TypesOK
    <3>2. Inbox(u)' = Inbox(u)
      BY <3>1, InboxStays
    <3> QED
      BY <2>2, <3>2
  <2> QED
    BY <2>1, <2>2
<1>10. ringBuf'.maxBuf = ringBuf.maxBuf /\ {r} \in SUBSET Task /\ {r} # {}
  BY <1>1, <1>4
<1> QED
  BY <1>6, <1>8, <1>9, <1>10, ChannelHand

LEMMA StoreMaps ==
    ASSUME QueueInv, ~Direct, ringBuf.nFull = 0 \/ ~Full, NEW rb, RingOK(rb),
           rb.maxBuf = ringBuf.maxBuf, Store(rb), UNCHANGED <<timeOut, jobs>>,
           broadcastReceivers = 0,
           call' \in [Task -> SendCall \cup RecvCall \cup {NoCall}],
           \A u \in Task : Returning(u)
    PROVE  /\ Queue = Contents(ringBuf) /\ Queue' = Contents(rb) /\ Inboxes' = Inboxes
           /\ ringBuf'.maxBuf = ringBuf.maxBuf
<1>1. waitInfo' = waitInfo
  BY StoreInv
<1>2. ringBuf' = rb /\ UNCHANGED <<broadcastReceivers, recvBuf>>
  BY DEF Store
<1>3. Delivered = {}
  BY NotFull DEF QueueInv
<1>4. \A u \in Task : Inbox(u)' = Inbox(u)
  BY <1>1, <1>2, <1>3, InboxStays DEF Delivered
<1> QED
  BY <1>2, <1>4 DEF Queue, Inboxes

LEMMA AcceptMaps ==
    ASSUME QueueInv, NEW m \in Mesg, NEW op \in {"send", "jam"}, Accept(op, m),
           call' \in [Task -> SendCall \cup RecvCall \cup {NoCall}],
           \A u \in Task : Returning(u)
    PROVE  Channel!ChannelNext
<1>1. ~Full /\ UNCHANGED <<timeOut, jobs>> /\ RingOK(ringBuf) /\ broadcastReceivers = 0
  BY NotFull DEF Accept, QueueInv
<1>2. CASE Direct
  BY <1>1, <1>2, HandOverMaps DEF Accept
<1>3. CASE ~Direct
  <2> DEFINE rb == IF op = "jam" THEN RingJam(ringBuf, m) ELSE RingWrite(ringBuf, m)
  <2>1. Store(rb)
    BY <1>3 DEF Accept
  <2>2. ringBuf.nFull < ringBuf.maxBuf /\ m \in Cell
    BY <1>1 DEF Full, RingOK, Cell
  <2>3. /\ RingOK(rb) /\ rb.maxBuf = ringBuf.maxBuf
        /\ Contents(rb) \in {Append(Contents(ringBuf), m), <<m>> \o Contents(ringBuf)}
    BY <1>1, <2>2, JamLemma, WriteLemma
  <2> HIDE DEF rb
  <2>4. /\ Queue = Contents(ringBuf) /\ Queue' = Contents(rb) /\ Inboxes' = Inboxes
        /\ ringBuf'.maxBuf = ringBuf.maxBuf
    BY <1>1, <1>3, <2>1, <2>3, StoreMaps
  <2>5. Len(Queue) < ringBuf.maxBuf
    BY <1>1, <2>2, <2>4, ContentsLemma
  <2> QED
    BY <2>3, <2>4, <2>5, ChannelPut
<1> QED
  BY <1>2, <1>3

LEMMA PostOvwMaps ==
    ASSUME QueueInv, NEW m \in Mesg, PostOvw(m)
    PROVE  Channel!ChannelNext
<1>1. /\ ringBuf.maxBuf = 1 /\ broadcastReceivers = 0 /\ UNCHANGED <<timeOut, call, jobs>>
      /\ m \in Cell
  BY DEF PostOvw, Mailbox, Cell
<1>2. /\ call' \in [Task -> SendCall \cup RecvCall \cup {NoCall}]
      /\ \A u \in Task : Returning(u)
  BY <1>1 DEF QueueInv, TypesOK, Returning
<1>3. /\ RingOK(RingOverwrite(ringBuf, m)) /\ RingOverwrite(ringBuf, m).maxBuf = ringBuf.maxBuf
      /\ Contents(RingOverwrite(ringBuf, m)) = <<m>>
  BY <1>1, OverwriteLemma DEF QueueInv
<1>4. CASE Direct
  BY <1>1, <1>2, <1>4, HandOverMaps DEF PostOvw
<1>5. CASE ~Direct /\ ringBuf.nFull = 0
  <2>1. Store(RingOverwrite(ringBuf, m))
    BY <1>5 DEF PostOvw
  <2>2. /\ Queue' = <<m>> /\ Inboxes' = Inboxes /\ ringBuf'.maxBuf = ringBuf.maxBuf
    BY <1>1, <1>2, <1>3, <1>5, <2>1, StoreMaps
  <2> QED
    BY <1>1, <2>2, ChannelOverwrite
<1>6. CASE ~Direct /\ ringBuf.nFull # 0
  <2>1. /\ ringBuf' = RingOverwrite(ringBuf, m)
        /\ UNCHANGED <<broadcastReceivers, recvBuf, waitInfo>>
    BY <1>6 DEF PostOvw
  <2>2. Delivered = {}
    BY <1>1, NotFull DEF QueueInv
  <2>3. \A u \in Task : Inbox(u)' = Inbox(u)
    BY <2>1, <2>2, InboxStays DEF Delivered
  <2>4. Queue' = <<m>> /\ Inboxes' = Inboxes /\ ringBuf'.maxBuf = ringBuf.maxBuf
    BY <1>1, <1>3, <2>1, <2>3 DEF Queue, Inboxes
  <2> QED
    BY <1>1, <2>4, ChannelOverwrite
<1> QED
  BY <1>4, <1>5, <1>6

LEMMA TakeOutMaps ==
    ASSUME QueueInv, ~NothingToRecv, TakeOut,
           UNCHANGED <<broadcastReceivers, waitInfo, recvBuf>>
    PROVE  Channel!ChannelNext
<1>1. BroadcastOK /\ RingOK(ringBuf)
  BY DEF QueueInv
<1>2. ringBuf.nFull > 0 /\ broadcastReceivers = 0 /\ Delivered = {}
  BY <1>1, DeliveredCount DEF NothingToRecv, RingOK
<1>3. ringBuf' = RingRead(ringBuf)
  BY DEF TakeOut
<1>4. /\ ringBuf'.maxBuf = ringBuf.maxBuf /\ Contents(ringBuf) # <<>>
      /\ Contents(ringBuf') = Tail(Contents(ringBuf))
  BY <1>1, <1>2, <1>3, ReadLemma
<1>5. \A u \in Task : Inbox(u)' = Inbox(u)
  BY <1>2, InboxStays DEF Delivered
<1>6. Queue # <<>> /\ Queue' = Tail(Queue) /\ Inboxes' = Inboxes
  BY <1>2, <1>4, <1>5 DEF Queue, Inboxes
<1> QED
  BY <1>4, <1>6, ChannelTake

LEMMA RecvDeliveredMaps ==
    ASSUME QueueInv, NEW t \in Task, RecvDelivered(t)
    PROVE  Channel!ChannelNext
<1>1. /\ waitInfo' = [waitInfo EXCEPT ![t] = "NORMAL"]
      /\ recvBuf' = [recvBuf EXCEPT ![t] = NoMesg]
      /\ UNCHANGED <<ringBuf, broadcastReceivers>> /\ TypesOK
  BY DEF RecvDelivered, queueVars, QueueInv
<1>2. /\ waitInfo'[t] = "NORMAL"
      /\ \A u \in Task : u # t => waitInfo'[u] = waitInfo[u] /\ recvBuf'[u] = recvBuf[u]
  BY <1>1 DEF TypesOK
<1>3. Inbox(t)' = NoMesg
  BY <1>2 DEF Inbox
<1>4. \A u \in Task : u # t => Inbox(u)' = Inbox(u)
  BY <1>1, <1>2, InboxStays
<1>5. Queue' = Queue /\ ringBuf'.maxBuf = ringBuf.maxBuf
  BY <1>1 DEF Queue
<1> QED
  BY <1>3, <1>4, <1>5, ChannelReturn

LEMMA BroadcastTakeMaps ==
    ASSUME QueueInv, NEW t \in Task, BroadcastTake(t)
    PROVE  Channel!ChannelNext
<1>1. /\ waitInfo[t] = "BROADCAST_DELIVER" /\ waitInfo' = [waitInfo EXCEPT ![t] = "NORMAL"]
      /\ broadcastReceivers' = broadcastReceivers - 1 /\ recvBuf' = recvBuf
      /\ ringBuf' = IF broadcastReceivers = 1 THEN RingRead(ringBuf) ELSE ringBuf
  BY DEF BroadcastTake, TakeOut
<1>2. TypesOK /\ BroadcastOK /\ RingOK(ringBuf)
  BY DEF QueueInv
<1>3. t \in Delivered /\ IsFiniteSet(Delivered) /\ broadcastReceivers \in Nat
  BY <1>1, <1>2, DeliveredCount DEF Delivered
<1>4. broadcastReceivers > 0 /\ ringBuf.nFull = 1
  BY <1>2, <1>3, DeliveredCount DEF BroadcastOK
<1>5. /\ waitInfo'[t] = "NORMAL"
      /\ \A u \in Task : u # t => waitInfo'[u] = waitInfo[u]
  BY <1>1, <1>2 DEF TypesOK
<1>6. Inbox(t)' = NoMesg
  BY <1>5 DEF Inbox
<1>7. CASE broadcastReceivers = 1
  <2>1. Delivered \ {t} = {}
    <3>1. Cardinality(Delivered \ {t}) = Cardinality(Delivered) - 1
      BY <1>3, FS_RemoveElement
    <3>2. IsFiniteSet(Delivered \ {t}) /\ Cardinality(Delivered) = 1
      BY <1>2, <1>3, <1>7, FS_Subset DEF BroadcastOK
    <3> QED
      BY <3>1, <3>2, FS_EmptySet
  <2>2. \A u \in Task : u # t => waitInfo[u] # "BROADCAST_DELIVER"
    BY <2>1 DEF Delivered
  <2>3. \A u \in Task : u # t => Inbox(u)' = Inbox(u)
    BY <1>1, <1>5, <2>2, InboxStays
  <2>4. ringBuf'.maxBuf = ringBuf.maxBuf /\ Contents(ringBuf') = <<>>
    <3>1. /\ RingOK(RingRead(ringBuf)) /\ RingRead(ringBuf).maxBuf = ringBuf.maxBuf
          /\ RingRead(ringBuf).nFull = ringBuf.nFull - 1
      BY <1>2, <1>4, ReadLemma
    <3>2. RingRead(ringBuf).nFull = 0 /\ ringBuf' = RingRead(ringBuf)
      BY <1>1, <1>4, <1>7, <3>1
    <3> QED
      BY <3>1, <3>2, EmptyRing
  <2>5. Queue' = Queue
    BY <1>1, <1>7, <2>4 DEF Queue
  <2> QED
    BY <1>6, <2>3, <2>4, <2>5, ChannelReturn
<1>8. CASE broadcastReceivers # 1
  <2>1. ringBuf' = ringBuf /\ broadcastReceivers' > 0
    BY <1>1, <1>3, <1>4, <1>8
  <2>2. \A u \in Task : u # t => Inbox(u)' = Inbox(u)
    BY <1>1, <1>5, <2>1, InboxStays
  <2>3. Queue' = Queue /\ ringBuf'.maxBuf = ringBuf.maxBuf
    BY <1>4, <2>1 DEF Queue
  <2> QED
    BY <1>6, <2>2, <2>3, ChannelReturn
<1> QED
  BY <1>7, <1>8

LEMMA BroadcastMaps ==
    ASSUME QueueInv, NEW m \in Mesg, Broadcast(m)
    PROVE  Channel!ChannelNext
<1> DEFINE P == Places("BROADCAST")
           A == TasksAt(P)
           n == Cardinality(P)
<1>1. /\ ringBuf.maxBuf = 1 /\ ~Full /\ n > 0 /\ ringBuf' = RingWrite(ringBuf, m)
      /\ broadcastReceivers' = n /\ recvBuf' = recvBuf
      /\ waitInfo' = [u \in Task |-> IF u \in A THEN "BROADCAST_DELIVER" ELSE waitInfo[u]]
  BY DEF Broadcast, Mailbox
<1>2. /\ WaitersOK /\ TypesOK /\ BroadcastOK /\ RingOK(ringBuf)
  BY DEF QueueInv
<1>3. /\ n \in Nat /\ Cardinality(A) = n
      /\ A = {u \in ToSet(waitingReceivers) : waitInfo[u] = "BROADCAST"}
  BY <1>2, PlacesLemma
<1> HIDE DEF P, A, n
<1>4. broadcastReceivers = 0 /\ Delivered = {}
  BY <1>1, <1>2, NotFull
<1>5. /\ RingPeek(ringBuf') = m /\ ringBuf'.maxBuf = ringBuf.maxBuf /\ ringBuf.nFull = 0
  <2>1. ringBuf.nFull < ringBuf.maxBuf /\ ringBuf.nFull = 0 /\ m \in Cell
    BY <1>1, <1>2 DEF Full, RingOK, Cell
  <2> QED
    BY <1>1, <1>2, <2>1, WriteLemma
<1>6. A \in SUBSET Task /\ A # {}
  BY <1>1, <1>2, <1>3, InQueues, FS_EmptySet
<1>7. Queue = <<>> /\ Queue' = <<>>
  BY <1>1, <1>2, <1>4, <1>5, EmptyRing DEF Queue
<1>8. \A u \in A : Inbox(u) = NoMesg
  BY <1>3 DEF Inbox
<1>9. \A u \in Task : Inbox(u)' = IF u \in A THEN m ELSE Inbox(u)
  <2> SUFFICES ASSUME NEW u \in Task PROVE Inbox(u)' = IF u \in A THEN m ELSE Inbox(u)
    OBVIOUS
  <2>1. waitInfo'[u] = IF u \in A THEN "BROADCAST_DELIVER" ELSE waitInfo[u]
    BY <1>1
  <2>2. CASE u \in A
    BY <1>5, <2>1, <2>2 DEF Inbox
  <2>3. CASE u \notin A
    <3>1. waitInfo'[u] = waitInfo[u] /\ waitInfo[u] # "BROADCAST_DELIVER"
      BY <1>4, <2>1, <2>3 DEF Delivered
    <3>2. Inbox(u)' = Inbox(u)
      BY <1>1, <3>1, InboxStays
    <3> QED
      BY <2>3, <3>2
  <2> QED
    BY <2>2, <2>3
<1> QED
  BY <1>5, <1>6, <1>7, <1>8, <1>9, ChannelHand

LEMMA ResetMaps ==
    ASSUME QueueInv, Reset, ~LateReset
    PROVE  Channel!ChannelNext
<1> DEFINE R == ToSet(waitingReceivers)
<1>1. /\ ~Reading /\ ringBuf' = RingReset(ringBuf) /\ broadcastReceivers' = 0
      /\ waitInfo' = [u \in Task |-> IF u \in R THEN "NORMAL" ELSE waitInfo[u]]
      /\ recvBuf' = recvBuf
  BY DEF Reset
<1>2. WaitersOK /\ TypesOK /\ RingOK(ringBuf) /\ \A u \in Task : TaskOK(u)
  BY DEF QueueInv
<1>3. R \in SUBSET Task /\ \A u \in Task : u \in R <=> status[u] = "RECEIVING"
  BY <1>2, InQueues DEF WaitersOK
<1> HIDE DEF R
<1>4. ringBuf'.maxBuf = ringBuf.maxBuf /\ Queue' = <<>>
  <2>1. ringBuf'.maxBuf = ringBuf.maxBuf /\ Contents(ringBuf') = <<>>
    BY <1>1, <1>2, ResetLemma
  <2> QED
    BY <1>1, <2>1 DEF Queue
<1>5. \A u \in Task : Inbox(u)' = IF u \in R THEN NoMesg ELSE Inbox(u)
  <2> SUFFICES ASSUME NEW u \in Task PROVE Inbox(u)' = IF u \in R THEN NoMesg ELSE Inbox(u)
    OBVIOUS
  <2>1. waitInfo'[u] = IF u \in R THEN "NORMAL" ELSE waitInfo[u]
    BY <1>1
  <2>2. CASE u \in R
    BY <2>1, <2>2 DEF Inbox
  <2>3. CASE u \notin R
    <3>1. waitInfo'[u] = waitInfo[u] /\ status[u] \in {"READY", "SENDING"}
      BY <1>2, <1>3, <2>1, <2>3 DEF TypesOK
    <3>2. waitInfo[u] # "BROADCAST_DELIVER"
      BY <1>1, <1>2, <3>1 DEF TaskOK, Reading, Resumes
    <3>3. Inbox(u)' = Inbox(u)
      BY <1>1, <3>1, <3>2, InboxStays
    <3> QED
      BY <2>3, <3>3
  <2> QED
    BY <2>2, <2>3
<1> QED
  BY <1>3, <1>4, <1>5, ChannelReset

(***************************************************************************)
(* Every other step leaves the channel as it is.                           *)
(***************************************************************************)
LEMMA ChannelStays ==
    ASSUME UNCHANGED <<ringBuf, broadcastReceivers, recvBuf>>,
           \A u \in Task : \/ waitInfo'[u] = waitInfo[u]
                           \/ /\ waitInfo[u] \notin {"DIRECT_DELIVER", "BROADCAST_DELIVER"}
                              /\ waitInfo'[u] \notin {"DIRECT_DELIVER", "BROADCAST_DELIVER"}
    PROVE  SameChannel
<1>1. \A u \in Task : Inbox(u)' = Inbox(u)
  BY InboxStays
<1> QED
  BY <1>1 DEF SameChannel, Queue, Inboxes

(* t waits, or its wait expired. *)
LEMMA WaitMaps ==
    ASSUME QueueInv, NEW t \in Task, UNCHANGED <<ringBuf, broadcastReceivers, recvBuf>>,
           waitInfo[t] \in {"NORMAL", "BROADCAST"}, NEW info \in {"NORMAL", "BROADCAST"},
           waitInfo' = [waitInfo EXCEPT ![t] = info] \/ waitInfo' = waitInfo
    PROVE  SameChannel
<1>1. /\ waitInfo'[t] = info \/ waitInfo'[t] = waitInfo[t]
      /\ \A u \in Task : u # t => waitInfo'[u] = waitInfo[u]
  BY DEF QueueInv, TypesOK
<1> QED
  BY <1>1, ChannelStays

LEMMA BlockMaps ==
    ASSUME QueueInv, NEW t \in Task,
           \/ \E c \in SendCall : SendBlock(t, c)
           \/ SendBlockAgain(t)
           \/ \E timed \in BOOLEAN : RecvBlock(t, timed) \/ BroadcastRecv(t, timed)
           \/ RecvBlockAgain(t) \/ BroadcastRecvAgain(t)
           \/ Timeout(t)
    PROVE  SameChannel
<1>1. TaskOK(t) /\ TypesOK
  BY DEF QueueInv
<1>2. CASE (\E c \in SendCall : SendBlock(t, c)) \/ SendBlockAgain(t) \/ RecvBlockAgain(t)
  BY <1>2, ChannelStays DEF SendBlock, SendBlockAgain, RecvBlockAgain
<1>3. CASE \E timed \in BOOLEAN : RecvBlock(t, timed) \/ BroadcastRecv(t, timed)
  <2>1. Calls(t) /\ UNCHANGED <<ringBuf, broadcastReceivers, recvBuf>>
    BY <1>3 DEF RecvBlock, BroadcastRecv
  <2>2. waitInfo[t] = "NORMAL"
    BY <2>1, IdleTask
  <2>3. \E info \in {"NORMAL", "BROADCAST"} : waitInfo' = [waitInfo EXCEPT ![t] = info]
    BY <1>3 DEF RecvBlock, BroadcastRecv
  <2> QED
    BY <2>1, <2>2, <2>3, WaitMaps
<1>4. CASE BroadcastRecvAgain(t)
  <2>1. /\ status[t] = "READY" /\ call[t].op = "brecv" /\ waitInfo[t] # "BROADCAST_DELIVER"
        /\ waitInfo' = [waitInfo EXCEPT ![t] = "BROADCAST"]
        /\ UNCHANGED <<ringBuf, broadcastReceivers, recvBuf>>
    BY <1>4 DEF BroadcastRecvAgain, Resumes
  <2>2. waitInfo[t] = "NORMAL"
    BY <1>1, <2>1 DEF TaskOK
  <2> QED
    BY <2>1, <2>2, WaitMaps
<1>5. CASE Timeout(t)
  <2>1. /\ timeOut[t] /\ UNCHANGED <<ringBuf, broadcastReceivers, recvBuf>>
        /\ waitInfo' = [waitInfo EXCEPT ![t] = "NORMAL"] \/ waitInfo' = waitInfo
    BY <1>5 DEF Timeout, queueVars
  <2>2. waitInfo[t] = "NORMAL"
    BY <1>1, <2>1 DEF TaskOK
  <2> QED
    BY <2>1, <2>2, WaitMaps
<1> QED
  BY <1>2, <1>3, <1>4, <1>5

LEMMA ExpireMaps ==
    ASSUME QueueInv, NEW t \in Task, Expire(t)
    PROVE  SameChannel
<1>1. /\ t \in armed /\ waitInfo' = [waitInfo EXCEPT ![t] = "NORMAL"] /\ TaskOK(t) /\ TypesOK
      /\ UNCHANGED <<ringBuf, broadcastReceivers, recvBuf>>
  BY DEF Expire, QueueInv
<1>2. waitInfo[t] \in {"NORMAL", "BROADCAST"}
  BY <1>1 DEF TaskOK, TypesOK
<1> QED
  BY <1>1, <1>2, WaitMaps

LEMMA StepMaps ==
    ASSUME QueueInv, MesgQueueNext, ~LateReset
    PROVE  Channel!ChannelNext \/ SameChannel
<1>1. ASSUME NEW m \in Mesg, NEW op \in {"send", "jam"}, Send(op, m)
      PROVE  Channel!ChannelNext
  <2>1. /\ Accept(op, m) /\ call' \in [Task -> SendCall \cup RecvCall \cup {NoCall}]
        /\ \A u \in Task : Returning(u)
    BY <1>1 DEF Send, QueueInv, TypesOK, Returning
  <2> QED
    BY <2>1, AcceptMaps
<1>2. ASSUME NEW t \in Sender, SendResume(t)
      PROVE  Channel!ChannelNext
  <2>1. /\ t \in Task /\ status[t] = "READY" /\ call[t].op \in {"send", "jam"} /\ ~timeOut[t]
        /\ Accept(call[t].op, call[t].mesg) /\ Return(t) /\ TypesOK /\ TaskOK(t)
    BY <1>2, Ids DEF SendResume, Resumes, QueueInv
  <2>2. call[t].mesg \in Mesg
    BY <2>1, CallMesg
  <2>3. waitInfo[t] = "NORMAL"
    BY <2>1 DEF TaskOK
  <2>4. /\ call' \in [Task -> SendCall \cup RecvCall \cup {NoCall}]
        /\ \A u \in Task : Returning(u)
    BY <2>1, <2>3, ReturnLemma
  <2> QED
    BY <2>1, <2>2, <2>4, AcceptMaps
<1>3. CASE Recv \/ \E t \in Receiver : RecvResume(t)
  <2>1. ~NothingToRecv /\ TakeOut /\ UNCHANGED <<broadcastReceivers, waitInfo, recvBuf>>
    BY <1>3 DEF Recv, RecvResume
  <2> QED
    BY <2>1, TakeOutMaps
<1>4. CASE BroadcastWake
  <2>1. UNCHANGED <<ringBuf, broadcastReceivers, recvBuf, waitInfo>>
    BY <1>4 DEF BroadcastWake
  <2> QED
    BY <2>1, ChannelStays
<1>5. CASE \E m \in Mesg : PostOvw(m) \/ Broadcast(m)
  BY <1>5, PostOvwMaps, BroadcastMaps
<1>6. CASE \/ \E t \in Sender, c \in SendCall : SendBlock(t, c)
           \/ \E t \in Receiver, timed \in BOOLEAN : RecvBlock(t, timed)
           \/ \E t \in Audience, timed \in BOOLEAN : BroadcastRecv(t, timed)
  BY <1>6, BlockMaps, Ids
<1>7. CASE \/ \E t \in Sender : SendBlockAgain(t)
           \/ \E t \in Receiver : RecvBlockAgain(t)
           \/ \E t \in Audience : BroadcastRecvAgain(t)
           \/ \E t \in Task : Timeout(t)
  BY <1>7, BlockMaps, Ids
<1>8. CASE \/ \E t \in Receiver : RecvDelivered(t)
           \/ \E t \in Audience : BroadcastTake(t)
  BY <1>8, RecvDeliveredMaps, BroadcastTakeMaps, Ids
<1>9. CASE Reset \/ \E t \in Task : Expire(t)
  BY <1>9, ResetMaps, ExpireMaps
<1> QED
  BY <1>1, <1>2, <1>3, <1>4, <1>5, <1>6, <1>7, <1>8, <1>9 DEF MesgQueueNext

LEMMA ChannelInits == MesgQueueInit => Channel!ChannelInit
<1> SUFFICES ASSUME MesgQueueInit PROVE Channel!ChannelInit
  OBVIOUS
<1>1. /\ broadcastReceivers = 0 /\ waitInfo = [t \in Task |-> "NORMAL"]
  BY DEF MesgQueueInit
<1>2. PICK n \in Depth : ringBuf = RingInit(n, NoMesg)
  BY DEF MesgQueueInit
<1>3. ringBuf.maxBuf \in Nat \ {0} /\ Contents(ringBuf) = <<>>
  BY <1>2, Ids, RingInitLemma
<1>4. Queue = <<>>
  BY <1>1, <1>3 DEF Queue
<1>5. \A t \in Task : Inbox(t) = NoMesg
  BY <1>1 DEF Inbox
<1>6. Inboxes = [t \in Task |-> NoMesg]
  BY <1>5 DEF Inboxes
<1> QED
  BY <1>3, <1>4, <1>6 DEF Channel!ChannelInit, Queue, Inboxes, Inbox

(* No message is lost, doubled, overtaken or given to two tasks by a queue *)
(* of any depth; a broadcast reaches exactly those it was prepared for.    *)
THEOREM QueueImplementsChannel ==
    ASSUME ~LateReset
    PROVE  MesgQueueSpec => ImplementsChannel
<1>1. QueueInv /\ [MesgQueueNext]_vars =>
         [Channel!ChannelNext]_<<ringBuf.maxBuf, Queue, Inboxes>>
  <2> SUFFICES ASSUME QueueInv, [MesgQueueNext]_vars
               PROVE  Channel!ChannelNext \/ SameChannel
    BY DEF SameChannel
  <2>1. CASE MesgQueueNext
    BY <2>1, StepMaps
  <2>2. CASE UNCHANGED vars
    <3>1. UNCHANGED <<ringBuf, broadcastReceivers, recvBuf, waitInfo>>
      BY <2>2 DEF vars, queueVars, taskVars
    <3> QED
      BY <3>1, ChannelStays
  <2> QED
    BY <2>1, <2>2
<1>2. QueueInv /\ [MesgQueueNext]_vars =>
         [Channel!ChannelNext]_<<ringBuf.maxBuf,
             IF broadcastReceivers > 0 THEN <<>> ELSE Contents(ringBuf),
             [t \in Task |-> CASE waitInfo[t] = "DIRECT_DELIVER" -> recvBuf[t]
                               [] waitInfo[t] = "BROADCAST_DELIVER" -> RingPeek(ringBuf)
                               [] OTHER -> NoMesg]>>
  BY <1>1 DEF Queue, Inboxes, Inbox
<1> QED
  BY <1>2, ChannelInits, QueueConsistent, PTL
     DEF MesgQueueSpec, ImplementsChannel, Channel!ChannelSpec
=============================================================================
