------------------------------ MODULE RK0Seqs -------------------------------
(***************************************************************************)
(* Lemmas about the sequence operators the task queues, the free lists and *)
(* the delta lists of RK0 are built from: what they return, and which      *)
(* elements; and about counters that wrap around.                          *)
(***************************************************************************)
EXTENDS Integers, RK0Queues, RK0Mem, RK0Delta, SequencesExt, SequenceTheorems, FiniteSetTheorems,
        WellFoundedInduction, TLAPS

(* The order of the naturals, as a set of pairs, is well-founded. *)
LessThan == {ss \in Nat \X Nat : ss[1] < ss[2]}

LEMMA LessThanWellFounded == IsWellFoundedOn(LessThan, Nat)
<1>1. OpToRel(<, Nat) = LessThan
  BY SMT DEF OpToRel, LessThan
<1> QED
  BY NatLessThanWellFounded, <1>1

LEMMA LessThanPair == \A x, y \in Nat : <<y, x>> \in LessThan <=> y < x
  BY DEF LessThan

(* A set of naturals that is not empty has a least element. *)
LEMMA MinOfNats ==
    ASSUME NEW S \in SUBSET Nat, S # {}
    PROVE  /\ Min(S) \in S
           /\ \A x \in S : Min(S) <= x
<1>1. PICK x \in S : \A y \in S : ~(<<y, x>> \in LessThan)
  BY LessThanWellFounded, WFMin
<1>2. \A y \in S : x <= y
  <2> TAKE y \in S
  <2>1. x \in Nat /\ y \in Nat
    OBVIOUS
  <2>2. ~(y < x)
    BY Zenon, <1>1, <2>1, LessThanPair
  <2> QED
    BY <2>1, <2>2
<1> QED
  BY <1>2 DEF Min

(* The elements of a sequence, by position. *)
LEMMA InToSet ==
    ASSUME NEW S, NEW q \in Seq(S), NEW x
    PROVE  /\ x \in ToSet(q) <=> \E i \in 1 .. Len(q) : q[i] = x
           /\ x \in ToSet(q) <=> Contains(q, x)
           /\ x \in ToSet(q) => x \in S
  BY LenProperties DEF ToSet, Contains

LEMMA ToSetEmpty == ToSet(<<>>) = {}
  BY DEF ToSet

LEMMA AppendLemma ==
    ASSUME NEW S, NEW q \in Seq(S), NEW x \in S
    PROVE  /\ Append(q, x) \in Seq(S)
           /\ Append(q, x) # <<>>
           /\ ToSet(Append(q, x)) = ToSet(q) \cup {x}
           /\ IsInjective(q) /\ x \notin ToSet(q) => IsInjective(Append(q, x))
<1> DEFINE r == Append(q, x)
<1>1. /\ r \in Seq(S) /\ Len(q) \in Nat /\ Len(r) = Len(q) + 1 /\ r[Len(q) + 1] = x
      /\ \A i \in 1 .. Len(q) : r[i] = q[i]
      /\ DOMAIN q = 1 .. Len(q) /\ DOMAIN r = 1 .. Len(q) + 1
  BY AppendProperties, LenProperties
<1>0. r # <<>>
  BY <1>1
<1> HIDE DEF r
<1>2. ToSet(r) = ToSet(q) \cup {x}
  <2>1. ASSUME NEW y \in ToSet(r) PROVE y \in ToSet(q) \cup {x}
    <3>1. PICK i \in 1 .. Len(q) + 1 : y = r[i]
      BY <1>1 DEF ToSet
    <3>2. CASE i = Len(q) + 1
      BY <1>1, <3>1, <3>2
    <3>3. CASE i \in 1 .. Len(q)
      BY <1>1, <3>1, <3>3 DEF ToSet
    <3> QED
      BY <1>1, <3>2, <3>3
  <2>2. ASSUME NEW y \in ToSet(q) PROVE y \in ToSet(r)
    <3>1. PICK i \in 1 .. Len(q) : y = q[i]
      BY <1>1 DEF ToSet
    <3>2. i \in 1 .. Len(q) + 1 /\ y = r[i]
      BY <1>1, <3>1
    <3> QED
      BY <1>1, <3>2 DEF ToSet
  <2>3. x \in ToSet(r)
    <3>1. Len(q) + 1 \in 1 .. Len(q) + 1
      BY <1>1
    <3> QED
      BY <1>1, <3>1 DEF ToSet
  <2> QED
    BY <2>1, <2>2, <2>3
<1>3. ASSUME IsInjective(q), x \notin ToSet(q) PROVE IsInjective(r)
  <2> SUFFICES ASSUME NEW i \in 1 .. Len(q) + 1, NEW j \in 1 .. Len(q) + 1, r[i] = r[j]
               PROVE  i = j
    BY <1>1 DEF IsInjective
  <2>1. \A k \in 1 .. Len(q) : q[k] # x
    BY <1>1, <1>3 DEF ToSet
  <2>2. CASE i \in 1 .. Len(q) /\ j \in 1 .. Len(q)
    BY <1>1, <1>3, <2>2 DEF IsInjective
  <2>3. CASE i = Len(q) + 1 \/ j = Len(q) + 1
    BY <1>1, <2>1, <2>3
  <2> QED
    BY <1>1, <2>2, <2>3
<1> QED
  BY <1>0, <1>1, <1>2, <1>3 DEF r

LEMMA ConsLemma ==
    ASSUME NEW S, NEW q \in Seq(S), NEW x \in S
    PROVE  /\ Cons(x, q) \in Seq(S)
           /\ ToSet(Cons(x, q)) = ToSet(q) \cup {x}
           /\ Cons(x, q) # <<>>
           /\ Head(Cons(x, q)) = x
           /\ IsInjective(q) /\ x \notin ToSet(q) => IsInjective(Cons(x, q))
<1> DEFINE r == <<x>> \o q
<1>1. <<x>> \in Seq(S) /\ Len(<<x>>) = 1 /\ <<x>>[1] = x
  OBVIOUS
<1>2. /\ r \in Seq(S) /\ Len(r) = 1 + Len(q) /\ Len(q) \in Nat
      /\ DOMAIN q = 1 .. Len(q) /\ DOMAIN r = 1 .. Len(q) + 1
      /\ \A i \in 1 .. Len(r) : r[i] = IF i = 1 THEN x ELSE q[i - 1]
  BY <1>1, ConcatProperties, LenProperties
<1>3. r # <<>> /\ Head(r) = x
  BY <1>2
<1> HIDE DEF r
<1>4. ToSet(r) = ToSet(q) \cup {x}
  <2>1. ASSUME NEW y \in ToSet(r) PROVE y \in ToSet(q) \cup {x}
    <3>1. PICK i \in 1 .. Len(q) + 1 : y = r[i]
      BY <1>2 DEF ToSet
    <3>2. CASE i = 1
      BY <1>2, <3>1, <3>2
    <3>3. CASE i # 1
      <4>1. i - 1 \in 1 .. Len(q) /\ y = q[i - 1]
        BY <1>2, <3>1, <3>3
      <4> QED
        BY <1>2, <4>1 DEF ToSet
    <3> QED
      BY <3>2, <3>3
  <2>2. ASSUME NEW y \in ToSet(q) PROVE y \in ToSet(r)
    <3>1. PICK i \in 1 .. Len(q) : y = q[i]
      BY <1>2 DEF ToSet
    <3>2. i + 1 \in 1 .. Len(q) + 1 /\ y = r[i + 1]
      BY <1>2, <3>1
    <3> QED
      BY <1>2, <3>2 DEF ToSet
  <2>3. x \in ToSet(r)
    <3>1. 1 \in 1 .. Len(q) + 1 /\ r[1] = x
      BY <1>2
    <3> QED
      BY <1>2, <3>1 DEF ToSet
  <2> QED
    BY <2>1, <2>2, <2>3
<1>5. ASSUME IsInjective(q), x \notin ToSet(q) PROVE IsInjective(r)
  <2>0. /\ \A a, b \in 1 .. Len(q) : q[a] = q[b] => a = b
        /\ \A a \in 1 .. Len(q) : q[a] # x
    BY <1>2, <1>5 DEF IsInjective, ToSet
  <2>1. SUFFICES ASSUME NEW a \in 1 .. Len(q) + 1, NEW b \in 1 .. Len(q) + 1, r[a] = r[b]
                 PROVE  a = b
    BY <1>2 DEF IsInjective
  <2>2. /\ a # 1 => a - 1 \in 1 .. Len(q) /\ r[a] = q[a - 1]
        /\ b # 1 => b - 1 \in 1 .. Len(q) /\ r[b] = q[b - 1]
        /\ a = 1 => r[a] = x
        /\ b = 1 => r[b] = x
    BY <1>2
  <2>3. CASE a = 1 \/ b = 1
    BY <2>0, <2>1, <2>2, <2>3
  <2>4. CASE a # 1 /\ b # 1
    <3>1. a - 1 = b - 1
      BY Zenon, <2>0, <2>1, <2>2, <2>4
    <3> QED
      BY <1>2, <3>1
  <2> QED
    BY <2>3, <2>4
<1> QED
  BY <1>2, <1>3, <1>4, <1>5 DEF Cons, r

(* Taking an element out: the first one, the one of a position, a given one. *)
LEMMA TailLemma ==
    ASSUME NEW S, NEW q \in Seq(S), q # <<>>
    PROVE  /\ Head(q) \in S /\ Head(q) \in ToSet(q)
           /\ Tail(q) \in Seq(S)
           /\ ToSet(Tail(q)) \subseteq ToSet(q)
           /\ ToSet(q) = ToSet(Tail(q)) \cup {Head(q)}
           /\ IsInjective(q) => IsInjective(Tail(q)) /\ Head(q) \notin ToSet(Tail(q))
<1> DEFINE r == Tail(q)
<1>1. /\ r \in Seq(S) /\ Len(q) \in Nat \ {0} /\ Len(r) = Len(q) - 1
      /\ \A i \in 1 .. Len(q) - 1 : r[i] = q[i + 1]
      /\ DOMAIN q = 1 .. Len(q) /\ DOMAIN r = 1 .. Len(q) - 1
      /\ Head(q) = q[1] /\ Head(q) \in S
  BY HeadTailProperties, LenProperties, EmptySeq
<1> HIDE DEF r
<1>2. Head(q) \in ToSet(q)
  BY <1>1 DEF ToSet
<1>3. ASSUME NEW y \in ToSet(r) PROVE y \in ToSet(q)
  <2>1. PICK i \in 1 .. Len(q) - 1 : y = r[i]
    BY <1>1 DEF ToSet
  <2>2. i + 1 \in 1 .. Len(q) /\ y = q[i + 1]
    BY <1>1, <2>1
  <2> QED
    BY <1>1, <2>2 DEF ToSet
<1>4. ASSUME NEW y \in ToSet(q), y # Head(q) PROVE y \in ToSet(r)
  <2>1. PICK i \in 1 .. Len(q) : y = q[i]
    BY <1>1 DEF ToSet
  <2>2. i - 1 \in 1 .. Len(q) - 1 /\ y = r[i - 1]
    BY <1>1, <1>4, <2>1
  <2> QED
    BY <1>1, <2>2 DEF ToSet
<1>5. ASSUME IsInjective(q) PROVE IsInjective(r) /\ Head(q) \notin ToSet(r)
  <2>0. \A a, b \in 1 .. Len(q) : q[a] = q[b] => a = b
    BY <1>1, <1>5 DEF IsInjective
  <2>1. \A a, b \in 1 .. Len(q) - 1 : r[a] = r[b] => a = b
    <3> TAKE a, b \in 1 .. Len(q) - 1
    <3>1. a + 1 \in 1 .. Len(q) /\ b + 1 \in 1 .. Len(q)
      BY <1>1
    <3> QED
      BY <1>1, <2>0, <3>1
  <2>2. \A a \in 1 .. Len(q) - 1 : r[a] # Head(q)
    <3> TAKE a \in 1 .. Len(q) - 1
    <3>1. a + 1 \in 1 .. Len(q) /\ 1 \in 1 .. Len(q) /\ a + 1 # 1
      BY <1>1
    <3> QED
      BY <1>1, <2>0, <3>1
  <2> QED
    BY <1>1, <2>1, <2>2 DEF IsInjective, ToSet
<1> QED
  BY <1>1, <1>2, <1>3, <1>4, <1>5 DEF r

LEMMA RemoveAtLemma ==
    ASSUME NEW S, NEW q \in Seq(S), NEW i \in 1 .. Len(q)
    PROVE  /\ RemoveAt(q, i) \in Seq(S)
           /\ Len(RemoveAt(q, i)) = Len(q) - 1
           /\ \A j \in 1 .. Len(q) - 1 :
                RemoveAt(q, i)[j] = IF j < i THEN q[j] ELSE q[j + 1]
<1> DEFINE a == SubSeq(q, 1, i - 1)
           b == SubSeq(q, i + 1, Len(q))
<1>1. Len(q) \in Nat /\ \A j \in 1 .. Len(q) : q[j] \in S
  BY LenProperties
<1>2. /\ a \in Seq(S) /\ Len(a) = i - 1
      /\ \A j \in 1 .. i - 1 : a[j] = q[j]
  <2>1. \A j \in 1 .. i - 1 : q[j] \in S
    BY <1>1
  <2>2. /\ a \in Seq(S) /\ Len(a) = IF 1 <= i - 1 THEN (i - 1) - 1 + 1 ELSE 0
        /\ \A j \in 1 .. (i - 1) - 1 + 1 : a[j] = q[1 + j - 1]
    BY <2>1, SubSeqProperties
  <2> QED
    BY <2>2
<1>3. /\ b \in Seq(S) /\ Len(b) = Len(q) - i
      /\ \A j \in 1 .. Len(q) - i : b[j] = q[i + j]
  <2>1. \A j \in i + 1 .. Len(q) : q[j] \in S
    BY <1>1
  <2>2. /\ b \in Seq(S) /\ Len(b) = IF i + 1 <= Len(q) THEN Len(q) - (i + 1) + 1 ELSE 0
        /\ \A j \in 1 .. Len(q) - (i + 1) + 1 : b[j] = q[(i + 1) + j - 1]
    BY <1>1, <2>1, SubSeqProperties
  <2> QED
    BY <1>1, <2>2
<1> HIDE DEF a, b
<1>4. /\ a \o b \in Seq(S) /\ Len(a \o b) = Len(q) - 1
      /\ \A j \in 1 .. Len(q) - 1 : (a \o b)[j] = IF j <= i - 1 THEN a[j] ELSE b[j - (i - 1)]
  <2>1. /\ a \o b \in Seq(S) /\ Len(a \o b) = Len(a) + Len(b)
        /\ \A j \in 1 .. Len(a) + Len(b) :
             (a \o b)[j] = IF j <= Len(a) THEN a[j] ELSE b[j - Len(a)]
    BY Zenon, <1>2, <1>3, ConcatProperties
  <2>2. Len(a) + Len(b) = Len(q) - 1
    BY <1>1, <1>2, <1>3
  <2> QED
    BY <1>2, <2>1, <2>2
<1>5. \A j \in 1 .. Len(q) - 1 : (a \o b)[j] = IF j < i THEN q[j] ELSE q[j + 1]
  <2> TAKE j \in 1 .. Len(q) - 1
  <2>1. CASE j < i
    BY <1>2, <1>4, <2>1
  <2>2. CASE ~(j < i)
    <3>1. j - (i - 1) \in 1 .. Len(q) - i /\ i + (j - (i - 1)) = j + 1
      BY <1>1, <2>2
    <3> QED
      BY <1>3, <1>4, <2>2, <3>1
  <2> QED
    BY <2>1, <2>2
<1> QED
  BY <1>4, <1>5 DEF RemoveAt, a, b

LEMMA RemoveAtElements ==
    ASSUME NEW S, NEW q \in Seq(S), NEW i \in 1 .. Len(q), IsInjective(q)
    PROVE  /\ ToSet(RemoveAt(q, i)) = ToSet(q) \ {q[i]}
           /\ IsInjective(RemoveAt(q, i))
<1> DEFINE r == RemoveAt(q, i)
           k(j) == IF j < i THEN j ELSE j + 1
<1>1. /\ Len(q) \in Nat /\ DOMAIN q = 1 .. Len(q) /\ DOMAIN r = 1 .. Len(q) - 1
      /\ \A j \in 1 .. Len(q) - 1 : r[j] = q[k(j)]
  BY RemoveAtLemma, LenProperties
<1>2. \A a, b \in 1 .. Len(q) : q[a] = q[b] => a = b
  BY <1>1 DEF IsInjective
<1>3. /\ \A j \in 1 .. Len(q) - 1 : k(j) \in 1 .. Len(q) \ {i}
      /\ \A a, b \in 1 .. Len(q) - 1 : k(a) = k(b) => a = b
      /\ \A j \in 1 .. Len(q) \ {i} : \E a \in 1 .. Len(q) - 1 : k(a) = j
  <2>1. ASSUME NEW j \in 1 .. Len(q) \ {i} PROVE \E a \in 1 .. Len(q) - 1 : k(a) = j
    <3>1. CASE j < i
      <4>1. j \in 1 .. Len(q) - 1 /\ k(j) = j
        BY <1>1, <3>1
      <4> QED
        BY <4>1
    <3>2. CASE ~(j < i)
      <4>1. j - 1 \in 1 .. Len(q) - 1 /\ k(j - 1) = j
        BY <1>1, <3>2
      <4> QED
        BY <4>1
    <3> QED
      BY <3>1, <3>2
  <2> QED
    BY <1>1, <2>1
<1> HIDE DEF r, k
<1>4. ASSUME NEW x \in ToSet(r) PROVE x \in ToSet(q) \ {q[i]}
  <2>1. PICK j \in 1 .. Len(q) - 1 : r[j] = x
    BY <1>1 DEF ToSet
  <2> QED
    BY <1>1, <1>2, <1>3, <2>1 DEF ToSet
<1>5. ASSUME NEW x \in ToSet(q) \ {q[i]} PROVE x \in ToSet(r)
  <2>1. PICK j \in 1 .. Len(q) \ {i} : q[j] = x
    BY <1>1 DEF ToSet
  <2>2. PICK a \in 1 .. Len(q) - 1 : k(a) = j
    BY <1>3
  <2> QED
    BY <1>1, <2>1, <2>2 DEF ToSet
<1>6. ASSUME NEW a \in 1 .. Len(q) - 1, NEW b \in 1 .. Len(q) - 1, r[a] = r[b]
      PROVE  a = b
  <2>1. q[k(a)] = q[k(b)] /\ k(a) \in 1 .. Len(q) /\ k(b) \in 1 .. Len(q)
    BY <1>1, <1>3, <1>6
  <2>2. k(a) = k(b)
    BY Zenon, <1>2, <2>1
  <2> QED
    BY Zenon, <1>3, <2>2
<1>7. IsInjective(r)
  BY <1>1, <1>6 DEF IsInjective
<1> QED
  BY <1>4, <1>5, <1>7 DEF r

LEMMA RemoveFirstLemma ==
    ASSUME NEW S, NEW q \in Seq(S), NEW x
    PROVE  /\ RemoveFirst(q, x) \in Seq(S)
           /\ ToSet(RemoveFirst(q, x)) \subseteq ToSet(q)
           /\ ToSet(q) \ {x} \subseteq ToSet(RemoveFirst(q, x))
           /\ IsInjective(q) => /\ IsInjective(RemoveFirst(q, x))
                                /\ x \notin ToSet(RemoveFirst(q, x))
<1>1. Len(q) \in Nat /\ DOMAIN q = 1 .. Len(q)
  BY LenProperties
<1>2. CASE ~ \E i \in 1 .. Len(q) : q[i] = x
  <2>1. RemoveFirst(q, x) = q
    BY <1>2 DEF RemoveFirst
  <2> QED
    BY <1>1, <1>2, <2>1 DEF ToSet
<1>3. CASE \E i \in 1 .. Len(q) : q[i] = x
  <2> DEFINE I == {i \in 1 .. Len(q) : q[i] = x}
             k == Min(I)
             r == RemoveAt(q, k)
  <2>1. k \in 1 .. Len(q) /\ q[k] = x
    <3>1. I \in SUBSET Nat /\ I # {}
      BY <1>1, <1>3
    <3>2. k \in I
      BY <3>1, MinOfNats
    <3> QED
      BY <3>2
  <2>2. RemoveFirst(q, x) = r
    BY <1>3, <2>1 DEF RemoveFirst, SelectInSeq
  <2>3. /\ r \in Seq(S) /\ Len(r) = Len(q) - 1 /\ DOMAIN r = 1 .. Len(q) - 1
        /\ \A j \in 1 .. Len(q) - 1 : r[j] = IF j < k THEN q[j] ELSE q[j + 1]
    BY <2>1, RemoveAtLemma, LenProperties
  <2> HIDE DEF k, r
  <2>4. ASSUME NEW y \in ToSet(r) PROVE y \in ToSet(q)
    <3>1. PICK j \in 1 .. Len(q) - 1 : y = r[j]
      BY <2>3 DEF ToSet
    <3>2. j \in 1 .. Len(q) /\ j + 1 \in 1 .. Len(q) /\ (y = q[j] \/ y = q[j + 1])
      BY <1>1, <2>1, <2>3, <3>1
    <3> QED
      BY <1>1, <3>2 DEF ToSet
  <2>5. ASSUME NEW y \in ToSet(q), y # x PROVE y \in ToSet(r)
    <3>1. PICK j \in 1 .. Len(q) : y = q[j]
      BY <1>1 DEF ToSet
    <3>2. CASE j < k
      <4>1. j \in 1 .. Len(q) - 1 /\ r[j] = y
        BY <1>1, <2>1, <2>3, <3>1, <3>2
      <4> QED
        BY <2>3, <4>1 DEF ToSet
    <3>3. CASE j > k
      <4>1. j - 1 \in 1 .. Len(q) - 1 /\ r[j - 1] = y
        BY <1>1, <2>1, <2>3, <3>1, <3>3
      <4> QED
        BY <2>3, <4>1 DEF ToSet
    <3> QED
      BY <1>1, <2>1, <2>5, <3>1, <3>2, <3>3
  <2>6. ASSUME IsInjective(q) PROVE IsInjective(r) /\ x \notin ToSet(r)
    <3>0. \A a, b \in 1 .. Len(q) : q[a] = q[b] => a = b
      BY <1>1, <2>6 DEF IsInjective
    <3>1. \A a, b \in 1 .. Len(q) - 1 : r[a] = r[b] => a = b
      <4> TAKE a, b \in 1 .. Len(q) - 1
      <4>1. /\ a \in 1 .. Len(q) /\ a + 1 \in 1 .. Len(q)
            /\ b \in 1 .. Len(q) /\ b + 1 \in 1 .. Len(q)
        BY <1>1
      <4>2. CASE a < k
        BY <1>1, <2>1, <2>3, <3>0, <4>1, <4>2
      <4>3. CASE ~(a < k)
        BY <1>1, <2>1, <2>3, <3>0, <4>1, <4>3
      <4> QED
        BY <4>2, <4>3
    <3>2. \A a \in 1 .. Len(q) - 1 : r[a] # x
      <4> TAKE a \in 1 .. Len(q) - 1
      <4>1. a \in 1 .. Len(q) /\ a + 1 \in 1 .. Len(q)
        BY <1>1
      <4> QED
        BY <1>1, <2>1, <2>3, <3>0, <4>1
    <3> QED
      BY <2>3, <3>1, <3>2 DEF IsInjective, ToSet
  <2> QED
    BY <2>2, <2>3, <2>4, <2>5, <2>6
<1> QED
  BY <1>2, <1>3

(* Who is ahead stays ahead when another one comes or goes. *)
LEMMA HeadStays ==
    ASSUME NEW S, NEW q \in Seq(S), q # <<>>, NEW x \in S
    PROVE  /\ Head(Append(q, x)) = Head(q)
           /\ Head(q) # x => RemoveFirst(q, x) # <<>> /\ Head(RemoveFirst(q, x)) = Head(q)
<1>1. Len(q) \in Nat /\ Len(q) > 0 /\ DOMAIN q = 1 .. Len(q) /\ Head(q) = q[1]
  BY LenProperties, HeadTailProperties, EmptySeq
<1>2. Head(Append(q, x)) = Head(q)
  <2>1. /\ Append(q, x) \in Seq(S) /\ Append(q, x)[1] = q[1] /\ Append(q, x) # <<>>
    BY <1>1, AppendProperties
  <2> QED
    BY <1>1, <2>1, HeadTailProperties
<1>3. ASSUME Head(q) # x
      PROVE  RemoveFirst(q, x) # <<>> /\ Head(RemoveFirst(q, x)) = Head(q)
  <2>1. CASE ~ \E i \in 1 .. Len(q) : q[i] = x
    BY <2>1 DEF RemoveFirst
  <2>2. CASE \E i \in 1 .. Len(q) : q[i] = x
    <3> DEFINE I == {i \in 1 .. Len(q) : q[i] = x}
               k == Min(I)
               r == RemoveAt(q, k)
    <3>1. I \in SUBSET Nat /\ I # {}
      BY <1>1, <2>2
    <3>2. k \in I
      BY <3>1, MinOfNats
    <3>3. k \in 1 .. Len(q) /\ k > 1
      BY <1>1, <1>3, <3>2
    <3>4. RemoveFirst(q, x) = r
      BY <2>2 DEF RemoveFirst, SelectInSeq
    <3>5. r \in Seq(S) /\ Len(r) = Len(q) - 1 /\ \A j \in 1 .. Len(q) - 1 :
             r[j] = IF j < k THEN q[j] ELSE q[j + 1]
      BY <3>3, RemoveAtLemma
    <3> HIDE DEF k, r
    <3>6. Len(r) > 0 /\ r[1] = q[1]
      BY <1>1, <3>3, <3>5
    <3>7. r # <<>> /\ Head(r) = r[1]
      BY <3>5, <3>6, HeadTailProperties, EmptySeq
    <3> QED
      BY <1>1, <3>4, <3>6, <3>7
  <2> QED
    BY <2>1, <2>2
<1> QED
  BY <1>2, <1>3

(* Putting an element in, at any position: r is q with x as element i. *)
Inserted(S, r, q, i, x) ==
    /\ r \in Seq(S)
    /\ Len(r) = Len(q) + 1
    /\ \A j \in 1 .. Len(q) + 1 : r[j] = IF j < i THEN q[j] ELSE IF j = i THEN x ELSE q[j - 1]

LEMMA InsertAtLemma ==
    ASSUME NEW S, NEW q \in Seq(S), NEW i \in 1 .. Len(q) + 1, NEW x \in S
    PROVE  Inserted(S, InsertAt(q, i, x), q, i, x)
<1> DEFINE a == SubSeq(q, 1, i - 1)
           b == SubSeq(q, i, Len(q))
           c == a \o <<x>>
<1>1. Len(q) \in Nat /\ \A j \in 1 .. Len(q) : q[j] \in S
  BY LenProperties
<1>2. /\ a \in Seq(S) /\ Len(a) = i - 1
      /\ \A j \in 1 .. i - 1 : a[j] = q[j]
  <2>1. \A j \in 1 .. i - 1 : q[j] \in S
    BY <1>1
  <2>2. /\ a \in Seq(S) /\ Len(a) = IF 1 <= i - 1 THEN (i - 1) - 1 + 1 ELSE 0
        /\ \A j \in 1 .. (i - 1) - 1 + 1 : a[j] = q[1 + j - 1]
    BY <1>1, <2>1, SubSeqProperties
  <2> QED
    BY <1>1, <2>2
<1>3. /\ b \in Seq(S) /\ Len(b) = Len(q) - i + 1
      /\ \A j \in 1 .. Len(q) - i + 1 : b[j] = q[i + j - 1]
  <2>1. \A j \in i .. Len(q) : q[j] \in S
    BY <1>1
  <2>2. /\ b \in Seq(S) /\ Len(b) = IF i <= Len(q) THEN Len(q) - i + 1 ELSE 0
        /\ \A j \in 1 .. Len(q) - i + 1 : b[j] = q[i + j - 1]
    BY <1>1, <2>1, SubSeqProperties
  <2> QED
    BY <1>1, <2>2
<1> HIDE DEF a, b
<1>4. <<x>> \in Seq(S) /\ Len(<<x>>) = 1 /\ <<x>>[1] = x
  OBVIOUS
<1>5. /\ c \in Seq(S) /\ Len(c) = i
      /\ \A j \in 1 .. i : c[j] = IF j < i THEN q[j] ELSE x
  <2>1. /\ c \in Seq(S) /\ Len(c) = Len(a) + Len(<<x>>)
        /\ \A j \in 1 .. Len(a) + Len(<<x>>) :
             c[j] = IF j <= Len(a) THEN a[j] ELSE <<x>>[j - Len(a)]
    BY Zenon, <1>2, <1>4, ConcatProperties
  <2>2. Len(a) + Len(<<x>>) = i
    BY <1>1, <1>2, <1>4
  <2>3. ASSUME NEW j \in 1 .. i PROVE c[j] = IF j < i THEN q[j] ELSE x
    <3>1. CASE j < i
      BY <1>1, <1>2, <2>1, <2>2, <3>1
    <3>2. CASE ~(j < i)
      <4>0. j = i
        BY <1>1, <3>2
      <4>1. j - Len(a) = 1 /\ ~(j <= Len(a))
        BY <1>1, <1>2, <4>0
      <4>2. c[j] = <<x>>[j - Len(a)]
        BY <2>1, <2>2, <4>1
      <4> QED
        BY <1>4, <3>2, <4>0, <4>1, <4>2
    <3> QED
      BY <3>1, <3>2
  <2> QED
    BY <1>2, <2>1, <2>2, <2>3
<1> HIDE DEF c
<1>6. /\ c \o b \in Seq(S) /\ Len(c \o b) = Len(q) + 1
      /\ \A j \in 1 .. Len(q) + 1 : (c \o b)[j] = IF j <= i THEN c[j] ELSE b[j - i]
  <2>1. /\ c \o b \in Seq(S) /\ Len(c \o b) = Len(c) + Len(b)
        /\ \A j \in 1 .. Len(c) + Len(b) :
             (c \o b)[j] = IF j <= Len(c) THEN c[j] ELSE b[j - Len(c)]
    BY Zenon, <1>3, <1>5, ConcatProperties
  <2>2. Len(c) + Len(b) = Len(q) + 1
    BY <1>1, <1>3, <1>5
  <2> QED
    BY <1>5, <2>1, <2>2
<1>7. ASSUME NEW j \in 1 .. Len(q) + 1
      PROVE  (c \o b)[j] = IF j < i THEN q[j] ELSE IF j = i THEN x ELSE q[j - 1]
  <2>1. CASE j <= i
    <3>1. j \in 1 .. i
      BY <1>1, <2>1
    <3> QED
      BY <1>1, <1>5, <1>6, <2>1, <3>1
  <2>2. CASE ~(j <= i)
    <3>1. /\ j - i \in 1 .. Len(q) - i + 1 /\ i + (j - i) - 1 = j - 1
          /\ ~(j < i) /\ j # i
      BY <1>1, <2>2
    <3> QED
      BY <1>3, <1>6, <2>2, <3>1
  <2> QED
    BY <2>1, <2>2
<1>8. InsertAt(q, i, x) = c \o b
  BY DEF InsertAt, a, b, c
<1> QED
  BY <1>6, <1>7, <1>8 DEF Inserted

(* One element and its predecessor, before and after. *)
LEMMA InsertedAs ==
    ASSUME NEW S, NEW q \in Seq(S), NEW i \in 1 .. Len(q) + 1, NEW x, NEW r,
           Inserted(S, r, q, i, x), NEW j \in 1 .. Len(q) + 1
    PROVE  /\ j < i => j \in 1 .. Len(q) /\ r[j] = q[j] /\ (j # 1 => r[j - 1] = q[j - 1])
           /\ j = i => r[j] = x /\ (j # 1 => r[j - 1] = q[j - 1])
           /\ j > i => j - 1 \in 1 .. Len(q) /\ j # 1 /\ r[j] = q[j - 1]
           /\ j = i + 1 => r[j - 1] = x
           /\ j > i + 1 => (j - 1) - 1 \in 1 .. Len(q) /\ r[j - 1] = q[(j - 1) - 1]
<1> DEFINE W(k) == r[k] = IF k < i THEN q[k] ELSE IF k = i THEN x ELSE q[k - 1]
<1>1. Len(q) \in Nat
  BY LenProperties
<1>2. \A k \in 1 .. Len(q) + 1 : W(k)
  BY Zenon DEF Inserted
<1> HIDE DEF W
<1>3. W(j)
  BY <1>2
<1>4. j # 1 => j - 1 \in 1 .. Len(q) + 1
  BY <1>1
<1>5. j # 1 => W(j - 1)
  BY <1>2, <1>4
<1>6. /\ j < i => j \in 1 .. Len(q) /\ r[j] = q[j]
      /\ j = i => r[j] = x
      /\ j > i => j - 1 \in 1 .. Len(q) /\ j # 1 /\ r[j] = q[j - 1]
  BY <1>1, <1>3 DEF W
<1>7. /\ j # 1 /\ j - 1 < i => r[j - 1] = q[j - 1]
      /\ j # 1 /\ j - 1 = i => r[j - 1] = x
      /\ j # 1 /\ j - 1 > i => r[j - 1] = q[(j - 1) - 1]
  BY <1>1, <1>5 DEF W
<1>8. /\ j <= i => j - 1 < i
      /\ j = i + 1 => j # 1 /\ j - 1 = i
      /\ j > i + 1 => j # 1 /\ j - 1 > i /\ (j - 1) - 1 \in 1 .. Len(q)
      /\ j < i => j <= i
  BY <1>1
<1> QED
  BY <1>6, <1>7, <1>8

(* Each of its parts by itself. *)
LEMMA InsertedBefore ==
    ASSUME NEW S, NEW q \in Seq(S), NEW i \in 1 .. Len(q) + 1, NEW x, NEW r,
           Inserted(S, r, q, i, x), NEW j \in 1 .. Len(q) + 1, j < i
    PROVE  j \in 1 .. Len(q) /\ r[j] = q[j] /\ (j # 1 => r[j - 1] = q[j - 1])
  BY InsertedAs

LEMMA InsertedHere ==
    ASSUME NEW S, NEW q \in Seq(S), NEW i \in 1 .. Len(q) + 1, NEW x, NEW r,
           Inserted(S, r, q, i, x), NEW j \in 1 .. Len(q) + 1, j = i
    PROVE  r[j] = x /\ (j # 1 => r[j - 1] = q[j - 1])
  BY InsertedAs

LEMMA InsertedNext ==
    ASSUME NEW S, NEW q \in Seq(S), NEW i \in 1 .. Len(q) + 1, NEW x, NEW r,
           Inserted(S, r, q, i, x), NEW j \in 1 .. Len(q) + 1, j = i + 1
    PROVE  r[j - 1] = x
  BY InsertedAs

LEMMA InsertedBehind ==
    ASSUME NEW S, NEW q \in Seq(S), NEW i \in 1 .. Len(q) + 1, NEW x, NEW r,
           Inserted(S, r, q, i, x), NEW j \in 1 .. Len(q) + 1, j > i
    PROVE  j - 1 \in 1 .. Len(q) /\ j # 1 /\ r[j] = q[j - 1]
  BY InsertedAs

LEMMA InsertedFarBehind ==
    ASSUME NEW S, NEW q \in Seq(S), NEW i \in 1 .. Len(q) + 1, NEW x, NEW r,
           Inserted(S, r, q, i, x), NEW j \in 1 .. Len(q) + 1, j > i + 1
    PROVE  (j - 1) - 1 \in 1 .. Len(q) /\ r[j - 1] = q[(j - 1) - 1]
  BY InsertedAs

(* The elements afterwards. *)
LEMMA InsertAtElements ==
    ASSUME NEW S, NEW q \in Seq(S), NEW i \in 1 .. Len(q) + 1, NEW x \in S
    PROVE  /\ ToSet(InsertAt(q, i, x)) = ToSet(q) \cup {x}
           /\ IsInjective(q) /\ x \notin ToSet(q) => IsInjective(InsertAt(q, i, x))
<1> DEFINE r == InsertAt(q, i, x)
<1>1. /\ Len(q) \in Nat /\ DOMAIN q = 1 .. Len(q) /\ DOMAIN r = 1 .. Len(q) + 1
      /\ \A j \in 1 .. Len(q) + 1 :
           r[j] = IF j < i THEN q[j] ELSE IF j = i THEN x ELSE q[j - 1]
  <2>1. Inserted(S, r, q, i, x)
    BY InsertAtLemma
  <2> HIDE DEF r
  <2> QED
    BY <2>1, LenProperties DEF Inserted
<1> HIDE DEF r
<1>2. ASSUME NEW y \in ToSet(r), y # x PROVE y \in ToSet(q)
  <2>1. PICK j \in 1 .. Len(q) + 1 : y = r[j]
    BY <1>1 DEF ToSet
  <2>2. CASE j < i
    <3>1. j \in 1 .. Len(q) /\ y = q[j]
      BY <1>1, <2>1, <2>2
    <3> QED
      BY <1>1, <3>1 DEF ToSet
  <2>3. CASE j > i
    <3>1. j - 1 \in 1 .. Len(q) /\ y = q[j - 1]
      BY <1>1, <2>1, <2>3
    <3> QED
      BY <1>1, <3>1 DEF ToSet
  <2> QED
    BY <1>1, <1>2, <2>1, <2>2, <2>3
<1>3. ASSUME NEW y \in ToSet(q) PROVE y \in ToSet(r)
  <2>1. PICK j \in 1 .. Len(q) : y = q[j]
    BY <1>1 DEF ToSet
  <2>2. CASE j < i
    <3>1. j \in 1 .. Len(q) + 1 /\ y = r[j]
      BY <1>1, <2>1, <2>2
    <3> QED
      BY <1>1, <3>1 DEF ToSet
  <2>3. CASE ~(j < i)
    <3>1. j + 1 \in 1 .. Len(q) + 1 /\ y = r[j + 1]
      BY <1>1, <2>1, <2>3
    <3> QED
      BY <1>1, <3>1 DEF ToSet
  <2> QED
    BY <2>2, <2>3
<1>4. x \in ToSet(r)
  <2>1. r[i] = x
    BY <1>1
  <2> QED
    BY <1>1, <2>1 DEF ToSet
<1>5. ASSUME IsInjective(q), x \notin ToSet(q) PROVE IsInjective(r)
  <2>0. /\ \A a, b \in 1 .. Len(q) : q[a] = q[b] => a = b
        /\ \A a \in 1 .. Len(q) : q[a] # x
    BY <1>1, <1>5 DEF IsInjective, ToSet
  <2>1. SUFFICES ASSUME NEW a \in 1 .. Len(q) + 1, NEW b \in 1 .. Len(q) + 1, r[a] = r[b]
                 PROVE  a = b
    BY <1>1 DEF IsInjective
  <2>2. CASE a < i
    <3>1. a \in 1 .. Len(q) /\ r[a] = q[a]
      BY <1>1, <2>2
    <3>2. CASE b < i
      <4>1. b \in 1 .. Len(q) /\ r[b] = q[b]
        BY <1>1, <3>2
      <4>2. a = b
        BY Zenon, <2>0, <2>1, <3>1, <4>1
      <4> QED
        BY <1>1, <2>2, <3>2, <4>2
    <3>3. CASE b = i
      <4>1. r[b] = x
        BY <1>1, <3>3
      <4> QED
        BY <1>1, <2>0, <2>1, <2>2, <3>1, <3>3, <4>1
    <3>4. CASE b > i
      <4>1. b - 1 \in 1 .. Len(q) /\ r[b] = q[b - 1]
        BY <1>1, <3>4
      <4>2. a = b - 1
        BY Zenon, <2>0, <2>1, <3>1, <4>1
      <4> QED
        BY <1>1, <2>2, <3>4, <4>2
    <3> QED
      BY <1>1, <3>2, <3>3, <3>4
  <2>3. CASE a = i
    <3>1. r[a] = x
      BY <1>1, <2>3
    <3>2. CASE b < i
      <4>1. b \in 1 .. Len(q) /\ r[b] = q[b]
        BY <1>1, <3>2
      <4> QED
        BY <1>1, <2>0, <2>1, <2>3, <3>1, <3>2, <4>1
    <3>3. CASE b = i
      <4>1. r[b] = x
        BY <1>1, <3>3
      <4> QED
        BY <1>1, <2>0, <2>1, <2>3, <3>1, <3>3, <4>1
    <3>4. CASE b > i
      <4>1. b - 1 \in 1 .. Len(q) /\ r[b] = q[b - 1]
        BY <1>1, <3>4
      <4> QED
        BY <1>1, <2>0, <2>1, <2>3, <3>1, <3>4, <4>1
    <3> QED
      BY <1>1, <3>2, <3>3, <3>4
  <2>4. CASE a > i
    <3>1. a - 1 \in 1 .. Len(q) /\ r[a] = q[a - 1]
      BY <1>1, <2>4
    <3>2. CASE b < i
      <4>1. b \in 1 .. Len(q) /\ r[b] = q[b]
        BY <1>1, <3>2
      <4>2. a - 1 = b
        BY Zenon, <2>0, <2>1, <3>1, <4>1
      <4> QED
        BY <1>1, <2>4, <3>2, <4>2
    <3>3. CASE b = i
      <4>1. r[b] = x
        BY <1>1, <3>3
      <4> QED
        BY <1>1, <2>0, <2>1, <2>4, <3>1, <3>3, <4>1
    <3>4. CASE b > i
      <4>1. b - 1 \in 1 .. Len(q) /\ r[b] = q[b - 1]
        BY <1>1, <3>4
      <4>2. a - 1 = b - 1
        BY Zenon, <2>0, <2>1, <3>1, <4>1
      <4> QED
        BY <1>1, <2>4, <3>4, <4>2
    <3> QED
      BY <1>1, <3>2, <3>3, <3>4
  <2> QED
    BY <1>1, <2>2, <2>3, <2>4
<1> QED
  BY <1>2, <1>3, <1>4, <1>5 DEF r

(* A finite set in some order. *)
LEMMA SetToSeqLemma ==
    ASSUME NEW S, IsFiniteSet(S)
    PROVE  /\ SetToSeq(S) \in Seq(S)
           /\ IsInjective(SetToSeq(S))
           /\ ToSet(SetToSeq(S)) = S
<1> DEFINE n == Cardinality(S)
<1>1. n \in Nat /\ ExistsBijection(1 .. n, S)
  BY FS_CardinalityType
<1>2. \E f \in [1 .. n -> S] : IsInjective(f)
  BY <1>1 DEF ExistsBijection, Bijection, Injection
<1>3. SetToSeq(S) \in [1 .. n -> S] /\ IsInjective(SetToSeq(S))
  BY <1>2 DEF SetToSeq
<1>4. IsFiniteSet(1 .. n) /\ Cardinality(1 .. n) = n
  BY <1>1, FS_Interval
<1>5. SetToSeq(S) \in Surjection(1 .. n, S)
  BY <1>3, <1>4, FS_Injection DEF Injection
<1> HIDE DEF n
<1>6. SetToSeq(S) \in Seq(S)
  BY <1>1, <1>3
<1>7. ToSet(SetToSeq(S)) = S
  BY <1>3, <1>5 DEF Surjection, ToSet
<1> QED
  BY <1>3, <1>6, <1>7

(***************************************************************************)
(* Task queues, whatever their elements and priorities.                    *)
(***************************************************************************)

(* kTCBQEnqByPrio links t and nothing else, once. *)
LEMMA TCBQEnqLemma ==
    ASSUME NEW S, NEW q \in Seq(S), NEW t \in S, NEW prio
    PROVE  /\ TCBQEnqByPrio(q, t, prio) \in Seq(S)
           /\ ToSet(TCBQEnqByPrio(q, t, prio)) = ToSet(q) \cup {t}
           /\ IsInjective(q) /\ t \notin ToSet(q) => IsInjective(TCBQEnqByPrio(q, t, prio))
<1> DEFINE I == {i \in 1 .. Len(q) : prio[q[i]] > prio[t]} \cup {Len(q) + 1}
<1>1. Len(q) \in Nat
  BY LenProperties
<1>2. I \in SUBSET Nat /\ I # {} /\ I \subseteq 1 .. Len(q) + 1
  BY <1>1
<1>3. Min(I) \in 1 .. Len(q) + 1
  BY <1>2, MinOfNats
<1>4. TCBQEnqByPrio(q, t, prio) = InsertAt(q, Min(I), t)
  BY DEF TCBQEnqByPrio
<1> HIDE DEF I
<1> QED
  BY <1>3, <1>4, InsertAtLemma, InsertAtElements DEF Inserted

(* kTCBQRem takes t out and nothing else. *)
LEMMA TCBQRemLemma ==
    ASSUME NEW S, NEW q \in Seq(S), NEW t \in S
    PROVE  /\ TCBQRem(q, t) \in Seq(S)
           /\ ToSet(TCBQRem(q, t)) \subseteq ToSet(q)
           /\ ToSet(q) \ {t} \subseteq ToSet(TCBQRem(q, t))
           /\ IsInjective(q) => IsInjective(TCBQRem(q, t)) /\ t \notin ToSet(TCBQRem(q, t))
  BY RemoveFirstLemma DEF TCBQRem

(***************************************************************************)
(* Queues in the order of priorities.                                      *)
(***************************************************************************)
Sorted(q, prio) == \A i, j \in 1 .. Len(q) : i < j => prio[q[i]] <= prio[q[j]]

LEMMA EnqSorted ==
    ASSUME NEW S, NEW q \in Seq(S), NEW t \in S, NEW prio, \A u \in S : prio[u] \in Nat,
           Sorted(q, prio)
    PROVE  Sorted(TCBQEnqByPrio(q, t, prio), prio)
<1> DEFINE I == {i \in 1 .. Len(q) : prio[q[i]] > prio[t]} \cup {Len(q) + 1}
           at == Min(I)
           r == InsertAt(q, at, t)
<1>1. Len(q) \in Nat /\ \A i \in 1 .. Len(q) : q[i] \in S
  BY LenProperties
<1>2. \A u \in S : prio[u] \in Nat
  OBVIOUS
<1>3. I \in SUBSET Nat /\ I # {} /\ I \subseteq 1 .. Len(q) + 1
  BY <1>1
<1>4. at \in I /\ \A i \in I : at <= i
  BY <1>3, MinOfNats
<1>5. \A i \in 1 .. Len(q) : i < at => prio[q[i]] <= prio[t]
  BY <1>1, <1>2, <1>3, <1>4
<1>6. at \in 1 .. Len(q) => prio[q[at]] > prio[t]
  BY <1>1, <1>4
<1>7. \A i \in 1 .. Len(q) : i >= at => prio[q[i]] >= prio[t]
  <2> SUFFICES ASSUME NEW i \in 1 .. Len(q), i >= at
               PROVE  prio[q[i]] >= prio[t]
    OBVIOUS
  <2>1. at \in 1 .. Len(q) /\ q[at] \in S /\ q[i] \in S
    BY <1>1, <1>3, <1>4
  <2>2. prio[q[i]] >= prio[q[at]]
    BY <1>1, <1>2, <2>1 DEF Sorted
  <2> QED
    BY <1>2, <1>6, <2>1, <2>2
<1> HIDE DEF I
<1>8. at \in 1 .. Len(q) + 1
  BY <1>3, <1>4
<1> HIDE DEF at
<1>9. /\ Len(r) = Len(q) + 1
      /\ \A j \in 1 .. Len(q) + 1 :
           r[j] = IF j < at THEN q[j] ELSE IF j = at THEN t ELSE q[j - 1]
  <2>1. Inserted(S, r, q, at, t)
    BY <1>8, InsertAtLemma
  <2> HIDE DEF r
  <2> QED
    BY <2>1 DEF Inserted
<1> HIDE DEF r
<1>10. Sorted(r, prio)
  <2> SUFFICES ASSUME NEW i \in 1 .. Len(q) + 1, NEW j \in 1 .. Len(q) + 1, i < j
               PROVE  prio[r[i]] <= prio[r[j]]
    BY <1>9 DEF Sorted
  <2>1. CASE j < at
    <3>1. r[i] = q[i] /\ r[j] = q[j] /\ i \in 1 .. Len(q) /\ j \in 1 .. Len(q)
      BY <1>1, <1>8, <1>9, <2>1
    <3> QED
      BY <3>1 DEF Sorted
  <2>2. CASE j = at
    <3>1. r[i] = q[i] /\ r[j] = t /\ i \in 1 .. Len(q)
      BY <1>1, <1>8, <1>9, <2>2
    <3> QED
      BY <1>5, <2>2, <3>1
  <2>3. CASE j > at
    <3>1. r[j] = q[j - 1] /\ j - 1 \in 1 .. Len(q) /\ j - 1 >= at
      BY <1>1, <1>8, <1>9, <2>3
    <3>2. CASE i < at
      <4>1. r[i] = q[i] /\ i \in 1 .. Len(q) /\ i < j - 1
        BY <1>1, <1>8, <1>9, <2>3, <3>2
      <4> QED
        BY <3>1, <4>1 DEF Sorted
    <3>3. CASE i = at
      <4>1. r[i] = t
        BY <1>9, <3>3
      <4> QED
        BY <1>1, <1>2, <1>7, <3>1, <4>1
    <3>4. CASE i > at
      <4>1. r[i] = q[i - 1] /\ i - 1 \in 1 .. Len(q) /\ i - 1 < j - 1
        BY <1>1, <1>8, <1>9, <3>4
      <4> QED
        BY <3>1, <4>1 DEF Sorted
    <3> QED
      BY <1>8, <3>2, <3>3, <3>4
  <2> QED
    BY <1>8, <2>1, <2>2, <2>3
<1> QED
  BY <1>10 DEF r, at, I, TCBQEnqByPrio

LEMMA RemSorted ==
    ASSUME NEW S, NEW q \in Seq(S), NEW t \in S, NEW prio, \A u \in S : prio[u] \in Nat,
           Sorted(q, prio)
    PROVE  Sorted(TCBQRem(q, t), prio)
<1>1. Len(q) \in Nat
  BY LenProperties
<1>2. CASE ~ \E i \in 1 .. Len(q) : q[i] = t
  BY <1>2 DEF RemoveFirst, TCBQRem
<1>3. CASE \E i \in 1 .. Len(q) : q[i] = t
  <2> DEFINE I == {i \in 1 .. Len(q) : q[i] = t}
             k == Min(I)
             r == RemoveAt(q, k)
  <2>1. I \in SUBSET Nat /\ I # {}
    BY <1>1, <1>3
  <2>2. k \in 1 .. Len(q)
    BY <2>1, MinOfNats
  <2>3. TCBQRem(q, t) = r
    BY <1>3, <2>2 DEF RemoveFirst, SelectInSeq, TCBQRem
  <2> HIDE DEF k, I
  <2>4. /\ Len(r) = Len(q) - 1
        /\ \A j \in 1 .. Len(q) - 1 : r[j] = IF j < k THEN q[j] ELSE q[j + 1]
    BY <2>2, RemoveAtLemma
  <2> HIDE DEF r
  <2>5. Sorted(r, prio)
    <3> SUFFICES ASSUME NEW i \in 1 .. Len(q) - 1, NEW j \in 1 .. Len(q) - 1, i < j
                 PROVE  prio[r[i]] <= prio[r[j]]
      BY <2>4 DEF Sorted
    <3> DEFINE a == IF i < k THEN i ELSE i + 1
               b == IF j < k THEN j ELSE j + 1
    <3>1. a \in 1 .. Len(q) /\ b \in 1 .. Len(q) /\ a < b
      BY <1>1, <2>2
    <3>2. r[i] = q[a] /\ r[j] = q[b]
      BY <2>4
    <3> HIDE DEF a, b
    <3> QED
      BY <3>1, <3>2 DEF Sorted
  <2> QED
    BY <2>3, <2>5
<1> QED
  BY <1>2, <1>3

LEMMA TailSorted ==
    ASSUME NEW S, NEW q \in Seq(S), q # <<>>, NEW prio, Sorted(q, prio)
    PROVE  Sorted(Tail(q), prio)
<1>1. /\ Len(q) \in Nat \ {0} /\ Len(Tail(q)) = Len(q) - 1
      /\ \A i \in 1 .. Len(q) - 1 : Tail(q)[i] = q[i + 1]
  BY HeadTailProperties, LenProperties
<1> QED
  BY <1>1 DEF Sorted

(* The order depends on the priorities of the queue's tasks only. *)
LEMMA SameOrder ==
    ASSUME NEW S, NEW q \in Seq(S), NEW old, NEW new, Sorted(q, old),
           \A u \in ToSet(q) : new[u] = old[u]
    PROVE  Sorted(q, new)
<1>1. \A i \in 1 .. Len(q) : q[i] \in ToSet(q)
  BY InToSet
<1> QED
  BY <1>1 DEF Sorted

(* A sequence without repetitions is as long as it has elements. *)
LEMMA InjectiveLength ==
    ASSUME NEW S, NEW q \in Seq(S)
    PROVE  /\ IsFiniteSet(ToSet(q))
           /\ IsInjective(q) <=> Cardinality(ToSet(q)) = Len(q)
<1> DEFINE n == Len(q)
<1>1. n \in Nat /\ q \in [1 .. n -> S] /\ DOMAIN q = 1 .. n
  BY LenProperties
<1>2. q \in Surjection(1 .. n, ToSet(q))
  BY <1>1 DEF Surjection, ToSet
<1>3. IsFiniteSet(1 .. n) /\ Cardinality(1 .. n) = n
  BY <1>1, FS_Interval
<1> HIDE DEF n
<1>4. /\ IsFiniteSet(ToSet(q))
      /\ Cardinality(ToSet(q)) = Cardinality(1 .. n) <=> q \in Injection(1 .. n, ToSet(q))
  BY <1>2, <1>3, FS_Surjection
<1>5. q \in Injection(1 .. n, ToSet(q)) <=> IsInjective(q)
  BY <1>1, <1>2 DEF Injection, Surjection, IsInjective
<1> QED
  BY <1>3, <1>4, <1>5 DEF n

(* What a queue keeps when a set of tasks is taken out. *)
LEMMA TCBQWithoutLemma ==
    ASSUME NEW S, NEW q \in Seq(S), IsInjective(q), NEW ts
    PROVE  /\ TCBQWithout(q, ts) \in Seq(S)
           /\ ToSet(TCBQWithout(q, ts)) = ToSet(q) \ ts
           /\ IsInjective(TCBQWithout(q, ts))
<1> DEFINE keep == {i \in DOMAIN q : q[i] \notin ts}
           upTo(i) == {j \in keep : j <= i}
           place == [i \in keep |-> Cardinality(upTo(i))]
           n == Cardinality(keep)
           at(k) == CHOOSE i \in keep : place[i] = k
           r == TCBQWithout(q, ts)
<1>1. Len(q) \in Nat /\ DOMAIN q = 1 .. Len(q) /\ \A i \in 1 .. Len(q) : q[i] \in S
  BY LenProperties, ElementOfSeq
<1>2. keep \subseteq 1 .. Len(q) /\ IsFiniteSet(keep) /\ n \in Nat
  <2>1. keep \subseteq 1 .. Len(q)
    BY <1>1
  <2>2. IsFiniteSet(1 .. Len(q))
    BY <1>1, FS_Interval
  <2> HIDE DEF keep
  <2>3. IsFiniteSet(keep)
    BY <2>1, <2>2, FS_Subset
  <2> QED
    BY <2>1, <2>3, FS_CardinalityType
<1>3. ASSUME NEW i \in keep
      PROVE  IsFiniteSet(upTo(i)) /\ Cardinality(upTo(i)) \in 1 .. n
  <2>1. upTo(i) \subseteq keep /\ i \in upTo(i)
    BY <1>2
  <2> HIDE DEF upTo, keep
  <2>2. IsFiniteSet(upTo(i)) /\ Cardinality(upTo(i)) <= n
    BY <1>2, <2>1, FS_Subset
  <2>3. Cardinality(upTo(i)) \in Nat /\ Cardinality(upTo(i)) # 0
    BY <2>1, <2>2, FS_CardinalityType, FS_EmptySet
  <2> QED
    BY <1>2, <2>2, <2>3
<1>4. ASSUME NEW i \in keep, NEW j \in keep, i < j
      PROVE  Cardinality(upTo(i)) < Cardinality(upTo(j))
  <2>1. upTo(i) \subseteq upTo(j) \ {j} /\ j \in upTo(j)
    BY <1>2, <1>4
  <2> HIDE DEF upTo, keep
  <2>2. /\ IsFiniteSet(upTo(j) \ {j})
        /\ Cardinality(upTo(j) \ {j}) = Cardinality(upTo(j)) - 1
    BY <1>3, <2>1, FS_RemoveElement
  <2>3. Cardinality(upTo(i)) <= Cardinality(upTo(j) \ {j})
    BY <2>1, <2>2, FS_Subset
  <2>4. Cardinality(upTo(i)) \in Nat /\ Cardinality(upTo(j)) \in Nat
    BY <1>2, <1>3
  <2> QED
    BY <2>2, <2>3, <2>4
<1> HIDE DEF upTo
<1>5. place \in [keep -> 1 .. n] /\ \A i \in keep : place[i] = Cardinality(upTo(i))
  BY <1>3
<1>6. \A i, j \in keep : place[i] = place[j] => i = j
  <2> SUFFICES ASSUME NEW i \in keep, NEW j \in keep, place[i] = place[j], i # j PROVE FALSE
    OBVIOUS
  <2>1. i \in Nat /\ j \in Nat
    BY <1>2
  <2>2. i < j \/ j < i
    BY <2>1
  <2> HIDE DEF keep, n
  <2>3. place[i] < place[j] \/ place[j] < place[i]
    BY <1>4, <1>5, <2>2
  <2>4. place[i] \in Nat
    BY <1>2, <1>5
  <2> QED
    BY <2>3, <2>4
<1> HIDE DEF place
<1>7. place \in Injection(keep, 1 .. n)
  <2>1. DOMAIN place = keep
    BY <1>5
  <2> QED
    BY <1>5, <1>6, <2>1 DEF Injection, IsInjective
<1>8. IsFiniteSet(1 .. n) /\ Cardinality(1 .. n) = n
  BY <1>2, FS_Interval
<1> HIDE DEF keep
<1>9. place \in Surjection(keep, 1 .. n)
  BY <1>7, <1>8, FS_Injection
<1> HIDE DEF n
<1>10. \A k \in 1 .. n : at(k) \in keep /\ place[at(k)] = k
  BY <1>9 DEF Surjection
<1>11. \A i \in keep : place[i] \in 1 .. n /\ at(place[i]) = i
  BY <1>5, <1>6, <1>10
<1>12. r = [k \in 1 .. n |-> q[at(k)]]
  BY DEF TCBQWithout, n, keep, place, upTo
<1> HIDE DEF at, r
<1>13. \A k \in 1 .. n : q[at(k)] \in S
  BY <1>1, <1>2, <1>10
<1>14. r \in Seq(S) /\ DOMAIN r = 1 .. n
  BY <1>2, <1>12, <1>13, SeqDef
<1>15. ToSet(r) = ToSet(q) \ ts
  <2>1. \A x \in ToSet(r) : \E k \in 1 .. n : x = q[at(k)]
    BY <1>12, <1>14 DEF ToSet
  <2>2. \A i \in keep : q[i] \in ToSet(q) /\ q[i] \notin ts
    BY DEF keep, ToSet
  <2>3. \A x \in ToSet(q) \ ts : \E i \in keep : x = q[i]
    BY DEF keep, ToSet
  <2>4. \A i \in keep : q[i] \in ToSet(r)
    BY <1>11, <1>12, <1>14 DEF ToSet
  <2> QED
    BY <1>10, <2>1, <2>2, <2>3, <2>4
<1>16. IsInjective(r)
  <2>1. \A k, l \in 1 .. n : r[k] = r[l] => at(k) = at(l)
    BY <1>1, <1>2, <1>10, <1>12 DEF IsInjective
  <2> QED
    BY <1>10, <1>14, <2>1 DEF IsInjective
<1> QED
  BY <1>14, <1>15, <1>16 DEF r

(***************************************************************************)
(* Memory partitions (RK0Mem), whatever their blocks.                      *)
(***************************************************************************)

(* The free blocks of a partition, each once, and how many they are. *)
PartitionOK(P, S) ==
    /\ P \in [freeList : Seq(S), nFreeBlocks : Int, nMaxBlocks : Int]
    /\ P.nFreeBlocks = Len(P.freeList)
    /\ IsInjective(P.freeList)

LEMMA PartitionInitLemma ==
    ASSUME NEW S, NEW blocks \in Seq(S), IsInjective(blocks)
    PROVE  /\ PartitionOK(PartitionInit(blocks), S)
           /\ PartitionInit(blocks).freeList = blocks
           /\ PartitionInit(blocks).nMaxBlocks = Len(blocks)
<1>1. Len(blocks) \in Int
  BY LenProperties
<1> QED
  BY <1>1 DEF PartitionOK, PartitionInit

(* kMemPartitionAlloc takes one block out of the free list. *)
LEMMA AllocLemma ==
    ASSUME NEW S, NEW P, PartitionOK(P, S), CanAlloc(P)
    PROVE  /\ AllocPtr(P) \in S /\ AllocPtr(P) \in ToSet(P.freeList)
           /\ PartitionOK(AllocRest(P), S)
           /\ ToSet(AllocRest(P).freeList) = ToSet(P.freeList) \ {AllocPtr(P)}
           /\ AllocRest(P).nMaxBlocks = P.nMaxBlocks
<1> DEFINE l == P.freeList
<1>1. /\ P \in [freeList : Seq(S), nFreeBlocks : Int, nMaxBlocks : Int]
      /\ l \in Seq(S) /\ P.nFreeBlocks = Len(l) /\ IsInjective(l) /\ Len(l) > 0
  BY DEF PartitionOK, CanAlloc
<1>2. l # <<>> /\ Head(l) = l[1]
  BY <1>1
<1>3. AllocRest(P) = [P EXCEPT !.freeList = Tail(l), !.nFreeBlocks = Len(l) - 1]
  BY <1>1 DEF AllocRest
<1>4. AllocPtr(P) = Head(l)
  BY <1>2 DEF AllocPtr
<1>5. Len(Tail(l)) = Len(l) - 1
  BY <1>1, <1>2
<1> HIDE DEF l
<1>6. /\ Head(l) \in S /\ Head(l) \in ToSet(l) /\ Tail(l) \in Seq(S)
      /\ ToSet(l) = ToSet(Tail(l)) \cup {Head(l)}
      /\ IsInjective(Tail(l)) /\ Head(l) \notin ToSet(Tail(l))
  BY <1>1, <1>2, TailLemma
<1>7. Len(l) - 1 \in Int
  BY <1>1, LenProperties
<1>8. /\ AllocRest(P) \in [freeList : Seq(S), nFreeBlocks : Int, nMaxBlocks : Int]
      /\ AllocRest(P).freeList = Tail(l)
      /\ AllocRest(P).nFreeBlocks = Len(l) - 1 /\ AllocRest(P).nMaxBlocks = P.nMaxBlocks
  BY <1>1, <1>3, <1>6, <1>7
<1> QED
  BY <1>4, <1>5, <1>6, <1>8 DEF PartitionOK, l

(* kMemPartitionFree puts it back. *)
LEMMA FreeLemma ==
    ASSUME NEW S, NEW P, PartitionOK(P, S), NEW m \in S, m \notin ToSet(P.freeList)
    PROVE  /\ PartitionOK(FreeBlock(P, m), S)
           /\ ToSet(FreeBlock(P, m).freeList) = ToSet(P.freeList) \cup {m}
           /\ FreeBlock(P, m).nMaxBlocks = P.nMaxBlocks
<1> DEFINE l == P.freeList
           r == <<m>> \o l
           n == Len(l) + 1
<1>1. /\ P \in [freeList : Seq(S), nFreeBlocks : Int, nMaxBlocks : Int]
      /\ l \in Seq(S) /\ P.nFreeBlocks = Len(l) /\ IsInjective(l) /\ Len(l) \in Nat
  BY LenProperties DEF PartitionOK
<1>2. r \in Seq(S) /\ ToSet(r) = ToSet(l) \cup {m} /\ IsInjective(r)
  BY <1>1, ConsLemma DEF Cons
<1>3. Len(r) = n /\ n \in Int
  BY <1>1
<1>4. FreeBlock(P, m) = [P EXCEPT !.freeList = r, !.nFreeBlocks = n]
  BY <1>1 DEF FreeBlock
<1> HIDE DEF r, n, l
<1>5. /\ FreeBlock(P, m) \in [freeList : Seq(S), nFreeBlocks : Int, nMaxBlocks : Int]
      /\ FreeBlock(P, m).freeList = r
      /\ FreeBlock(P, m).nFreeBlocks = n /\ FreeBlock(P, m).nMaxBlocks = P.nMaxBlocks
  BY <1>1, <1>2, <1>3, <1>4
<1> QED
  BY <1>2, <1>3, <1>5 DEF PartitionOK, l

(* The counts of a partition tell how many blocks are out of it. *)
LEMMA UsedCount ==
    ASSUME NEW S, IsFiniteSet(S), NEW P, PartitionOK(P, S)
    PROVE  /\ IsFiniteSet(S \ ToSet(P.freeList))
           /\ Cardinality(S \ ToSet(P.freeList)) = Cardinality(S) - P.nFreeBlocks
<1>1. P.freeList \in Seq(S) /\ IsInjective(P.freeList) /\ P.nFreeBlocks = Len(P.freeList)
  BY DEF PartitionOK
<1>2. Cardinality(ToSet(P.freeList)) = P.nFreeBlocks
  BY <1>1, InjectiveLength
<1>3. S \cap ToSet(P.freeList) = ToSet(P.freeList)
  BY <1>1, InToSet
<1> QED
  BY <1>2, <1>3, FS_Difference

(* An element that occurs once is removed where it stands. *)
LEMMA RemoveFirstAt ==
    ASSUME NEW T, NEW l \in Seq(T), IsInjective(l), NEW i \in 1 .. Len(l)
    PROVE  RemoveFirst(l, l[i]) = RemoveAt(l, i)
<1>1. Len(l) \in Nat /\ \A a, b \in 1 .. Len(l) : l[a] = l[b] => a = b
  BY LenProperties DEF IsInjective
<1>2. {k \in 1 .. Len(l) : l[k] = l[i]} = {i}
  BY <1>1
<1>3. Min({i}) = i
  <2>1. {i} \in SUBSET Nat /\ {i} # {}
    BY <1>1
  <2> QED
    BY <2>1, MinOfNats
<1> QED
  BY <1>2, <1>3 DEF RemoveFirst, SelectInSeq

(***************************************************************************)
(* Delta lists.  What a recursive definition adds up is computed from the  *)
(* equation it satisfies: another function that satisfies it, too, is the  *)
(* same, or there is a least position at which it differs.                 *)
(***************************************************************************)

(* Sums along a list. *)
Adds(l, d, g) == g[0] = 0 /\ \A k \in 1 .. Len(l) : g[k] = g[k - 1] + d[l[k]]

LEMMA SumsExist ==
    ASSUME NEW T, NEW l \in Seq(T), NEW d \in [T -> Nat]
    PROVE  \E f \in [0 .. Len(l) -> Nat] : Adds(l, d, f)
<1> DEFINE n == Len(l)
           Sums(i) == \E f \in [0 .. i -> Nat] :
                         f[0] = 0 /\ \A k \in 1 .. i : f[k] = f[k - 1] + d[l[k]]
           B == {i \in 0 .. n : ~Sums(i)}
<1>1. n \in Nat /\ \A k \in 1 .. n : l[k] \in T /\ d[l[k]] \in Nat
  BY LenProperties
<1>2. Sums(0)
  <2> DEFINE g == [k \in 0 .. 0 |-> 0]
  <2>1. g \in [0 .. 0 -> Nat] /\ g[0] = 0
    OBVIOUS
  <2>2. \A k \in 1 .. 0 : g[k] = g[k - 1] + d[l[k]]
    OBVIOUS
  <2> QED
    BY <2>1, <2>2
<1> HIDE DEF Sums
<1>3. B = {}
  <2> SUFFICES ASSUME B # {} PROVE FALSE
    OBVIOUS
  <2> DEFINE m == Min(B)
  <2>1. B \in SUBSET Nat
    BY <1>1
  <2> HIDE DEF B
  <2>2. m \in B /\ \A x \in B : m <= x
    BY <2>1, MinOfNats
  <2> HIDE DEF m
  <2>3. m \in 1 .. n /\ ~Sums(m)
    BY <1>1, <1>2, <2>2 DEF B
  <2>4. m - 1 \in 0 .. n /\ m - 1 \notin B
    BY <1>1, <2>2, <2>3
  <2>5. PICK f \in [0 .. m - 1 -> Nat] :
             f[0] = 0 /\ \A k \in 1 .. m - 1 : f[k] = f[k - 1] + d[l[k]]
    <3>1. Sums(m - 1)
      BY <2>4 DEF B
    <3> QED
      BY <3>1 DEF Sums
  <2> DEFINE g == [k \in 0 .. m |-> IF k = m THEN f[m - 1] + d[l[m]] ELSE f[k]]
  <2>6. g \in [0 .. m -> Nat]
    BY <1>1, <2>3, <2>5
  <2>7. g[0] = 0 /\ \A k \in 1 .. m : g[k] = g[k - 1] + d[l[k]]
    <3>1. 0 \in 0 .. m /\ 0 # m /\ \A k \in 1 .. m : k \in 0 .. m /\ k - 1 \in 0 .. m /\ k - 1 # m
      BY <1>1, <2>3
    <3>2. g[0] = f[0] /\ \A k \in 1 .. m : g[k - 1] = f[k - 1]
      BY <3>1
    <3>3. g[m] = f[m - 1] + d[l[m]] /\ \A k \in 1 .. m : k # m => g[k] = f[k] /\ k \in 1 .. m - 1
      BY <1>1, <2>3, <3>1
    <3> HIDE DEF g
    <3> QED
      BY <2>5, <3>2, <3>3
  <2> HIDE DEF g
  <2> QED
    BY <2>3, <2>6, <2>7 DEF Sums
<1>4. Sums(n)
  BY <1>1, <1>3 DEF B
<1> QED
  BY <1>4 DEF Sums, Adds

(* Two functions that add up along a list agree. *)
LEMMA SumsAgree ==
    ASSUME NEW T, NEW l \in Seq(T), NEW d, NEW f, NEW g, Adds(l, d, f), Adds(l, d, g)
    PROVE  \A i \in 0 .. Len(l) : f[i] = g[i]
<1> DEFINE B == {i \in 0 .. Len(l) : f[i] # g[i]}
<1>1. Len(l) \in Nat
  BY LenProperties
<1> SUFFICES ASSUME B # {} PROVE FALSE
  OBVIOUS
<1> DEFINE m == Min(B)
<1>2. B \in SUBSET Nat
  BY <1>1
<1> HIDE DEF B
<1>3. m \in B /\ \A x \in B : m <= x
  BY <1>2, MinOfNats
<1> HIDE DEF m
<1>4. m \in 0 .. Len(l) /\ f[m] # g[m]
  BY <1>3 DEF B
<1>5. m # 0
  BY <1>4 DEF Adds
<1>6. m \in 1 .. Len(l) /\ m - 1 \in 0 .. Len(l) /\ m - 1 \notin B
  BY <1>1, <1>3, <1>4, <1>5
<1>7. f[m - 1] = g[m - 1]
  BY <1>6 DEF B
<1>8. f[m] = f[m - 1] + d[l[m]] /\ g[m] = g[m - 1] + d[l[m]]
  BY <1>6 DEF Adds
<1> QED
  BY <1>4, <1>7, <1>8

(* DueIn is what adds up along the list. *)
LEMMA DueSums ==
    ASSUME NEW T, NEW l \in Seq(T), NEW d \in [T -> Nat], NEW g, Adds(l, d, g)
    PROVE  \A i \in 0 .. Len(l) : DueIn(l, d, i) = g[i]
<1> DEFINE Is(f) == f = [k \in 0 .. Len(l) |-> IF k = 0 THEN 0 ELSE f[k - 1] + d[l[k]]]
           due == CHOOSE f : Is(f)
<1>1. Len(l) \in Nat
  BY LenProperties
<1>2. \A i : DueIn(l, d, i) = due[i]
  BY DEF DueIn
<1>3. \E f : Is(f)
  <2>1. PICK f \in [0 .. Len(l) -> Nat] : Adds(l, d, f)
    BY SumsExist
  <2>2. f = [k \in 0 .. Len(l) |-> IF k = 0 THEN 0 ELSE f[k - 1] + d[l[k]]]
    BY <1>1, <2>1 DEF Adds
  <2> QED
    BY <2>2
<1> HIDE DEF Is
<1>4. Is(due)
  BY <1>3
<1> HIDE DEF due
<1>5. due = [k \in 0 .. Len(l) |-> IF k = 0 THEN 0 ELSE due[k - 1] + d[l[k]]]
  BY <1>4 DEF Is
<1>6. Adds(l, d, due)
  BY <1>1, <1>5 DEF Adds
<1> QED
  BY <1>2, <1>6, SumsAgree

LEMMA DueStep ==
    ASSUME NEW T, NEW l \in Seq(T), NEW d \in [T -> Nat]
    PROVE  /\ DueIn(l, d, 0) = 0
           /\ \A i \in 0 .. Len(l) : DueIn(l, d, i) \in Nat
           /\ \A i \in 1 .. Len(l) : DueIn(l, d, i) = DueIn(l, d, i - 1) + d[l[i]]
<1>1. Len(l) \in Nat
  BY LenProperties
<1>2. PICK f \in [0 .. Len(l) -> Nat] : Adds(l, d, f)
  BY SumsExist
<1>3. \A i \in 0 .. Len(l) : DueIn(l, d, i) = f[i]
  BY <1>2, DueSums
<1>4. \A i \in 0 .. Len(l) : DueIn(l, d, i) \in Nat
  BY <1>2, <1>3
<1>5. DueIn(l, d, 0) = 0
  BY <1>1, <1>2, <1>3 DEF Adds
<1>6. ASSUME NEW i \in 1 .. Len(l) PROVE DueIn(l, d, i) = DueIn(l, d, i - 1) + d[l[i]]
  <2>1. i \in 0 .. Len(l) /\ i - 1 \in 0 .. Len(l)
    BY <1>1
  <2>2. DueIn(l, d, i) = f[i] /\ DueIn(l, d, i - 1) = f[i - 1]
    BY <1>3, <2>1
  <2> QED
    BY <1>2, <2>2 DEF Adds
<1> QED
  BY <1>4, <1>5, <1>6

(* The farther along a node is, the later it is due. *)
LEMMA DueGrows ==
    ASSUME NEW T, NEW l \in Seq(T), NEW d \in [T -> Nat],
           NEW i \in 0 .. Len(l), NEW j \in 0 .. Len(l), i <= j
    PROVE  DueIn(l, d, i) <= DueIn(l, d, j)
<1> DEFINE D(k) == DueIn(l, d, k)
           B == {k \in 0 .. Len(l) : i <= k /\ ~(D(i) <= D(k))}
<1>1. /\ Len(l) \in Nat
      /\ \A k \in 0 .. Len(l) : D(k) \in Nat
      /\ \A k \in 1 .. Len(l) : D(k) = D(k - 1) + d[l[k]] /\ d[l[k]] \in Nat
  BY DueStep, LenProperties
<1> HIDE DEF D
<1> SUFFICES ASSUME B # {} PROVE FALSE
  BY DEF D
<1> DEFINE m == Min(B)
<1>2. B \in SUBSET Nat
  BY <1>1
<1> HIDE DEF B
<1>3. m \in B /\ \A x \in B : m <= x
  BY <1>2, MinOfNats
<1> HIDE DEF m
<1>4. m \in 0 .. Len(l) /\ i <= m /\ ~(D(i) <= D(m))
  BY <1>3 DEF B
<1>5. m # i
  BY <1>1, <1>4
<1>6. m \in 1 .. Len(l) /\ m - 1 \in 0 .. Len(l) /\ i <= m - 1 /\ m - 1 \notin B
  BY <1>1, <1>3, <1>4, <1>5
<1>7. D(i) <= D(m - 1)
  BY <1>6 DEF B
<1>8. D(m) = D(m - 1) + d[l[m]] /\ d[l[m]] \in Nat
  BY <1>1, <1>6
<1>9. D(m) \in Nat /\ D(m - 1) \in Nat /\ D(i) \in Nat
  BY <1>1, <1>4, <1>6
<1> HIDE DEF B
<1> QED
  BY <1>4, <1>7, <1>8, <1>9

(***************************************************************************)
(* Counters that wrap around, and periods.                                 *)
(***************************************************************************)

(* A remainder, where the value is a turn or two from its range. *)
LEMMA WrapsOnce ==
    ASSUME NEW M \in Nat, M > 0, NEW x \in Int, -M <= x, x < 3 * M
    PROVE  x % M = IF x < 0 THEN x + M ELSE IF x < M THEN x
                   ELSE IF x < 2 * M THEN x - M ELSE x - 2 * M
<1>1. CASE x < 0
  BY <1>1
<1>2. CASE 0 <= x /\ x < M
  BY <1>2
<1>3. CASE M <= x /\ x < 2 * M
  BY <1>3
<1>4. CASE 2 * M <= x
  BY <1>4
<1> QED
  BY <1>1, <1>2, <1>3, <1>4

(* The next multiple of p beyond e. *)
LEMMA NextMultiple ==
    ASSUME NEW e \in Nat, NEW p \in Nat, p > 0
    PROVE  \E s \in 1 .. p : (e \div p + 1) * p = e + s
<1> DEFINE q == e \div p
<1>1. q \in Nat /\ q * p <= e /\ e < q * p + p
  OBVIOUS
<1>2. (q + 1) * p = q * p + p
  BY <1>1
<1> HIDE DEF q
<1> DEFINE z == q * p
<1>3. z \in Nat
  BY <1>1
<1> HIDE DEF z
<1>4. z + p - e \in 1 .. p /\ z + p = e + (z + p - e)
  BY <1>1, <1>3 DEF z
<1>5. (e \div p + 1) * p = z + p
  BY <1>2 DEF q, z
<1> QED
  BY <1>4, <1>5
=============================================================================
