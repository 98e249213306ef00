-------------------------- MODULE RK0Sleep_proofs ---------------------------
(***************************************************************************)
(* The delta list keeps every deadline, releases are on time though the    *)
(* counter wraps, and no event flag is overslept: theorems about RK0Sleep, *)
(* for any tasks, delays and half range of the counter.                    *)
(***************************************************************************)
EXTENDS RK0Sleep, RK0Seqs

(***************************************************************************)
(* Delta lists: a node keeps what it was due in.                           *)
(***************************************************************************)

(* How far node n is from the end of its wait. *)
Rem(l, d, n) == DueIn(l, d, CHOOSE i \in 1 .. Len(l) : l[i] = n)

LEMMA RemAt ==
    ASSUME NEW T, NEW l \in Seq(T), IsInjective(l), NEW d, NEW i \in 1 .. Len(l)
    PROVE  Rem(l, d, l[i]) = DueIn(l, d, i)
<1>1. \A a, b \in 1 .. Len(l) : l[a] = l[b] => a = b
  BY LenProperties DEF IsInjective
<1>2. (CHOOSE k \in 1 .. Len(l) : l[k] = l[i]) = i
  BY <1>1
<1> QED
  BY <1>2 DEF Rem

(* An insertion gives the node its delay and takes none of the others'. *)
LEMMA InsertDeltaLemma ==
    ASSUME NEW T, NEW l \in Seq(T), IsInjective(l), NEW d \in [T -> Nat],
           NEW t \in T, t \notin ToSet(l), NEW delay \in Nat
    PROVE  LET r == InsertDelta(l, d, t, delay) IN
           /\ r.list \in Seq(T) /\ IsInjective(r.list) /\ ToSet(r.list) = ToSet(l) \cup {t}
           /\ r.dtick \in [T -> Nat]
           /\ Rem(r.list, r.dtick, t) = delay
           /\ \A n \in ToSet(l) : Rem(r.list, r.dtick, n) = Rem(l, d, n)
           /\ \A n \in T \ ToSet(r.list) : r.dtick[n] = d[n]
<1> DEFINE n == Len(l)
           D(i) == DueIn(l, d, i)
           S == {i \in 1 .. n : D(i) >= delay} \cup {n + 1}
           at == Min(S)
           rest == delay - D(at - 1)
           q == InsertAt(l, at, t)
           e == [x \in DOMAIN d |->
                    CASE x = t -> rest
                      [] at <= n /\ x = l[at] -> d[x] - rest
                      [] OTHER -> d[x]]
           G == [i \in 0 .. n + 1 |-> IF i < at THEN D(i) ELSE IF i = at THEN delay ELSE D(i - 1)]
<1>1. InsertDelta(l, d, t, delay).list = q /\ InsertDelta(l, d, t, delay).dtick = e
  BY DEF InsertDelta
<1>2. /\ n \in Nat /\ D(0) = 0
      /\ \A i \in 0 .. n : D(i) \in Nat
      /\ \A i \in 1 .. n : D(i) = D(i - 1) + d[l[i]] /\ d[l[i]] \in Nat /\ l[i] \in T
  BY DueStep, LenProperties
<1> HIDE DEF D
<1>3. /\ at \in 1 .. n + 1
      /\ at <= n => D(at) >= delay
      /\ \A i \in 1 .. n : i < at => D(i) < delay
  <2>1. S \in SUBSET Nat /\ S # {}
    BY <1>2
  <2>2. at \in S /\ \A x \in S : at <= x
    BY <2>1, MinOfNats
  <2> HIDE DEF at
  <2>3. at \in 1 .. n + 1 /\ (at <= n => D(at) >= delay)
    BY <1>2, <2>2
  <2>4. ASSUME NEW i \in 1 .. n, i < at PROVE D(i) < delay
    <3>1. i \notin S
      BY <1>2, <2>2, <2>3, <2>4
    <3>2. D(i) \in Nat
      BY <1>2
    <3> QED
      BY <3>1, <3>2
  <2> QED
    BY <2>3, <2>4
<1> HIDE DEF at
<1>4. D(at - 1) \in Nat /\ rest \in Nat
  <2>1. CASE at = 1
    BY <1>2, <2>1
  <2>2. CASE at # 1
    <3>1. at - 1 \in 1 .. n /\ at - 1 < at
      BY <1>2, <1>3, <2>2
    <3>2. D(at - 1) \in Nat /\ D(at - 1) < delay
      BY <1>2, <1>3, <3>1
    <3> QED
      BY <3>2
  <2> QED
    BY <2>1, <2>2
<1>5. /\ q \in Seq(T) /\ Len(q) = n + 1
      /\ \A j \in 1 .. n + 1 : q[j] = IF j < at THEN l[j] ELSE IF j = at THEN t ELSE l[j - 1]
  <2>1. Inserted(T, q, l, at, t)
    BY <1>3, InsertAtLemma
  <2> HIDE DEF q
  <2> QED
    BY <2>1 DEF Inserted
<1>6. ToSet(q) = ToSet(l) \cup {t} /\ IsInjective(q)
  BY <1>3, InsertAtElements
<1>7. /\ \A a, b \in 1 .. n : l[a] = l[b] => a = b
      /\ \A a \in 1 .. n : l[a] # t
  BY LenProperties DEF IsInjective, ToSet
<1>8. at <= n => at \in 1 .. n /\ d[l[at]] - rest = D(at) - delay /\ d[l[at]] - rest \in Nat
  <2> SUFFICES ASSUME at <= n PROVE at \in 1 .. n /\ d[l[at]] - rest = D(at) - delay
                                    /\ d[l[at]] - rest \in Nat
    OBVIOUS
  <2>1. at \in 1 .. n
    BY <1>2, <1>3
  <2>2. D(at) = D(at - 1) + d[l[at]] /\ d[l[at]] \in Nat /\ D(at) \in Nat /\ D(at) >= delay
    BY <1>2, <1>3, <2>1
  <2>3. D(at - 1) \in Nat /\ rest = delay - D(at - 1) /\ delay \in Nat
    BY <1>4
  <2>4. D(at) - delay \in Nat
    BY <2>2, <2>3
  <2>5. \A a, b, c \in Nat : b - (c - a) = (a + b) - c
    OBVIOUS
  <2> HIDE DEF D, rest
  <2>6. d[l[at]] - rest = D(at) - delay
    BY <2>2, <2>3, <2>5
  <2> QED
    BY <2>1, <2>4, <2>6
<1>9. /\ e \in [T -> Nat] /\ e[t] = rest
      /\ at <= n => e[l[at]] = D(at) - delay
      /\ \A x \in T : x # t /\ (at <= n => x # l[at]) => e[x] = d[x]
  <2>1. ASSUME NEW x \in T PROVE e[x] \in Nat
    <3>1. d[x] \in Nat
      OBVIOUS
    <3>2. CASE x = t
      <4>1. e[x] = rest
        BY <1>7, <1>8, <3>2
      <4> HIDE DEF e, rest
      <4> QED
        BY <1>4, <4>1
    <3>3. CASE x # t /\ at <= n /\ x = l[at]
      <4>1. e[x] = d[l[at]] - rest
        BY <3>3
      <4> HIDE DEF e, rest
      <4> QED
        BY <1>8, <3>3, <4>1
    <3>4. CASE x # t /\ ~(at <= n /\ x = l[at])
      <4>1. e[x] = d[x]
        BY <3>4
      <4> QED
        BY <3>1, <4>1
    <3> QED
      BY <3>2, <3>3, <3>4
  <2>2. e[t] = rest
    BY <1>7, <1>8
  <2>3. \A x \in T : x # t /\ (at <= n => x # l[at]) => e[x] = d[x]
    OBVIOUS
  <2>4. at <= n => e[l[at]] = D(at) - delay
    <3> SUFFICES ASSUME at <= n PROVE e[l[at]] = D(at) - delay
      OBVIOUS
    <3>1. l[at] \in T /\ l[at] # t
      BY <1>2, <1>7, <1>8
    <3>2. e[l[at]] = d[l[at]] - rest
      BY <3>1
    <3> QED
      BY <1>8, <3>2
  <2>5. e = [x \in T |-> e[x]]
    OBVIOUS
  <2> HIDE DEF e, rest
  <2> QED
    BY <2>1, <2>2, <2>3, <2>4, <2>5
<1> HIDE DEF e, rest
<1>10. \A i \in 0 .. n + 1 : G[i] = IF i < at THEN D(i) ELSE IF i = at THEN delay ELSE D(i - 1)
  OBVIOUS
<1> HIDE DEF G
<1>11. Adds(q, e, G)
  <2>1. G[0] = 0
    BY <1>2, <1>3, <1>10
  <2>2. ASSUME NEW k \in 1 .. n + 1 PROVE G[k] = G[k - 1] + e[q[k]]
    <3>0. k \in 0 .. n + 1 /\ k - 1 \in 0 .. n + 1
      BY <1>2
    <3>1. CASE k < at
      <4>1. k \in 1 .. n /\ k - 1 < at
        BY <1>2, <1>3, <3>1
      <4>2. q[k] = l[k]
        BY <1>5, <3>1
      <4>3. G[k] = D(k) /\ G[k - 1] = D(k - 1)
        BY <1>10, <3>0, <3>1, <4>1
      <4>4. l[k] \in T /\ l[k] # t /\ (at <= n => l[k] # l[at])
        <5>1. l[k] \in T /\ l[k] # t
          BY <1>7, <4>1
        <5>2. ASSUME at <= n PROVE l[k] # l[at]
          <6>1. at \in 1 .. n /\ k # at
            BY <1>8, <3>1, <5>2
          <6> QED
            BY <1>7, <4>1, <6>1
        <5> QED
          BY <5>1, <5>2
      <4>5. e[l[k]] = d[l[k]]
        BY <1>9, <4>4
      <4>6. D(k) = D(k - 1) + d[l[k]]
        BY <1>2, <4>1
      <4> QED
        BY <4>2, <4>3, <4>5, <4>6
    <3>2. CASE k = at
      <4>1. q[k] = t /\ G[k] = delay /\ G[k - 1] = D(at - 1)
        BY <1>2, <1>3, <1>5, <1>10, <3>0, <3>2
      <4> QED
        BY <1>4, <1>9, <4>1 DEF rest
    <3>3. CASE k = at + 1
      <4>0. at <= n /\ k - 1 = at /\ ~(k < at) /\ k # at /\ ~(k - 1 < at)
        BY <1>2, <1>3, <3>3
      <4>1. at <= n /\ q[k] = l[at] /\ G[k] = D(at) /\ G[k - 1] = delay
        <5>1. q[k] = l[k - 1]
          BY <1>5, <4>0
        <5>2. G[k] = D(k - 1) /\ G[k - 1] = delay
          BY <1>10, <3>0, <4>0
        <5> QED
          BY <4>0, <5>1, <5>2
      <4>2. D(at) \in Nat
        BY <1>2, <1>8, <4>1
      <4> QED
        BY <1>9, <4>1, <4>2
    <3>4. CASE k > at + 1
      <4>1. k - 1 \in 1 .. n /\ ~(k < at) /\ k # at /\ ~(k - 1 < at) /\ k - 1 # at
        BY <1>2, <1>3, <3>4
      <4>2. q[k] = l[k - 1]
        BY <1>5, <4>1
      <4>3. G[k] = D(k - 1) /\ G[k - 1] = D((k - 1) - 1)
        BY <1>10, <3>0, <4>1
      <4>4. l[k - 1] \in T /\ l[k - 1] # t /\ (at <= n => l[k - 1] # l[at])
        BY <1>2, <1>7, <1>8, <4>1
      <4>5. e[l[k - 1]] = d[l[k - 1]]
        BY <1>9, <4>4
      <4>6. D(k - 1) = D((k - 1) - 1) + d[l[k - 1]]
        BY <1>2, <4>1
      <4> QED
        BY <4>2, <4>3, <4>5, <4>6
    <3> QED
      BY <1>3, <3>1, <3>2, <3>3, <3>4
  <2> QED
    BY <1>5, <2>1, <2>2 DEF Adds
<1>12. \A i \in 0 .. n + 1 : DueIn(q, e, i) = G[i]
  <2>1. q \in Seq(T) /\ e \in [T -> Nat] /\ Len(q) = n + 1
    BY <1>5, <1>9
  <2> HIDE DEF n, q
  <2>2. \A i \in 0 .. Len(q) : DueIn(q, e, i) = G[i]
    BY <2>1, <1>11, DueSums
  <2> QED
    BY <2>1, <2>2
<1>13. Rem(q, e, t) = delay
  <2>1. at \in 1 .. Len(q) /\ q[at] = t
    BY <1>2, <1>3, <1>5
  <2>2. Rem(q, e, q[at]) = DueIn(q, e, at)
    BY <1>5, <1>6, <2>1, RemAt
  <2>3. DueIn(q, e, at) = delay
    <3>1. at \in 0 .. n + 1 /\ ~(at < at)
      BY <1>2, <1>3
    <3> HIDE DEF n, q
    <3> QED
      BY <1>10, <1>12, <3>1
  <2> QED
    BY <2>1, <2>2, <2>3
<1>14. ASSUME NEW x \in ToSet(l) PROVE Rem(q, e, x) = Rem(l, d, x)
  <2>1. PICK i \in 1 .. n : x = l[i]
    BY LenProperties DEF ToSet
  <2>2. Rem(l, d, x) = D(i)
    BY <2>1, RemAt DEF D
  <2>3. CASE i < at
    <3>1. i \in 1 .. n + 1 /\ i \in 0 .. n + 1 /\ q[i] = x
      BY <1>2, <1>5, <2>1, <2>3
    <3>2. Rem(q, e, q[i]) = DueIn(q, e, i)
      BY <1>5, <1>6, <3>1, RemAt
    <3>3. DueIn(q, e, i) = D(i)
      BY <1>10, <1>12, <2>3, <3>1
    <3> QED
      BY <2>2, <3>1, <3>2, <3>3
  <2>4. CASE i >= at
    <3>0. /\ i + 1 \in 1 .. n + 1 /\ i + 1 \in 0 .. n + 1
          /\ ~(i + 1 < at) /\ i + 1 # at /\ (i + 1) - 1 = i
      BY <1>2, <1>3, <2>4
    <3>1. i + 1 \in 1 .. n + 1 /\ q[i + 1] = x
      BY <1>5, <2>1, <3>0
    <3>2. Rem(q, e, q[i + 1]) = DueIn(q, e, i + 1)
      BY <1>5, <1>6, <3>1, RemAt
    <3>3. DueIn(q, e, i + 1) = D(i)
      <4> HIDE DEF n, q
      <4> QED
        BY <1>10, <1>12, <3>0
    <3> QED
      BY <2>2, <3>1, <3>2, <3>3
  <2> QED
    BY <1>3, <2>3, <2>4
<1>15. ASSUME NEW x \in T \ ToSet(q) PROVE e[x] = d[x]
  <2>1. at <= n => l[at] \in ToSet(q)
    <3> SUFFICES ASSUME at <= n PROVE l[at] \in ToSet(l)
      BY <1>6
    <3> QED
      BY <1>8, LenProperties DEF ToSet
  <2> QED
    BY <1>6, <1>9, <2>1
<1> QED
  BY <1>1, <1>5, <1>6, <1>9, <1>13, <1>14, <1>15

(* A removal takes nothing from the nodes that stay. *)
LEMMA RemoveNodeLemma ==
    ASSUME NEW T, NEW l \in Seq(T), IsInjective(l), NEW d \in [T -> Nat], NEW t \in ToSet(l)
    PROVE  LET r == RemoveNode(l, d, t) IN
           /\ r.list \in Seq(T) /\ IsInjective(r.list) /\ ToSet(r.list) = ToSet(l) \ {t}
           /\ r.dtick \in [T -> Nat]
           /\ \A n \in ToSet(r.list) : Rem(r.list, r.dtick, n) = Rem(l, d, n)
           /\ \A n \in T \ ToSet(r.list) : r.dtick[n] <= d[n]
<1> DEFINE n == Len(l)
           D(i) == DueIn(l, d, i)
           at == CHOOSE i \in 1 .. n : l[i] = t
           q == RemoveAt(l, at)
           e == [x \in DOMAIN d |->
                    CASE x = t -> 0
                      [] at < n /\ x = l[at + 1] -> d[x] + d[t]
                      [] OTHER -> d[x]]
           G == [i \in 0 .. n - 1 |-> IF i < at THEN D(i) ELSE D(i + 1)]
<1>1. at \in 1 .. n /\ l[at] = t
  BY LenProperties DEF ToSet
<1>2. RemoveNode(l, d, t).list = q /\ RemoveNode(l, d, t).dtick = e
  BY <1>1, RemoveFirstAt DEF RemoveNode
<1> HIDE DEF at
<1>3. /\ n \in Nat /\ D(0) = 0
      /\ \A i \in 0 .. n : D(i) \in Nat
      /\ \A i \in 1 .. n : D(i) = D(i - 1) + d[l[i]] /\ d[l[i]] \in Nat /\ l[i] \in T
  BY DueStep, LenProperties
<1> HIDE DEF D
<1>4. /\ q \in Seq(T) /\ Len(q) = n - 1
      /\ \A j \in 1 .. n - 1 : q[j] = IF j < at THEN l[j] ELSE l[j + 1]
  BY <1>1, RemoveAtLemma
<1>5. ToSet(q) = ToSet(l) \ {t} /\ IsInjective(q)
  BY <1>1, RemoveAtElements
<1>6. \A a, b \in 1 .. n : l[a] = l[b] => a = b
  BY LenProperties DEF IsInjective
<1>7. at < n => at + 1 \in 1 .. n /\ l[at + 1] # t /\ l[at + 1] \in T
  BY <1>1, <1>3, <1>6
<1>8. t \in T
  BY InToSet
<1>9. /\ e \in [T -> Nat] /\ e[t] = 0
      /\ at < n => e[l[at + 1]] = d[l[at + 1]] + d[t]
      /\ \A x \in T : x # t /\ (at < n => x # l[at + 1]) => e[x] = d[x]
  <2>1. e[t] = 0
    BY <1>7, <1>8
  <2>2. at < n => e[l[at + 1]] = d[l[at + 1]] + d[t]
    BY <1>7
  <2>3. \A x \in T : x # t /\ (at < n => x # l[at + 1]) => e[x] = d[x]
    OBVIOUS
  <2>4. e = [x \in T |-> e[x]]
    OBVIOUS
  <2> HIDE DEF e
  <2>5. ASSUME NEW x \in T PROVE e[x] \in Nat
    <3>1. d[x] \in Nat /\ d[t] \in Nat
      BY <1>8
    <3>2. CASE x = t
      BY <2>1, <3>2
    <3>3. CASE x # t /\ at < n /\ x = l[at + 1]
      BY <2>2, <3>1, <3>3
    <3>4. CASE x # t /\ ~(at < n /\ x = l[at + 1])
      BY <2>3, <3>1, <3>4
    <3> QED
      BY <3>2, <3>3, <3>4
  <2> QED
    BY <2>1, <2>2, <2>3, <2>4, <2>5
<1> HIDE DEF e
<1>10. \A i \in 0 .. n - 1 : G[i] = IF i < at THEN D(i) ELSE D(i + 1)
  OBVIOUS
<1> HIDE DEF G
<1>11. ASSUME n >= 1 PROVE Adds(q, e, G)
  <2>1. G[0] = 0
    BY <1>1, <1>3, <1>10
  <2>2. ASSUME NEW k \in 1 .. n - 1 PROVE G[k] = G[k - 1] + e[q[k]]
    <3>0. k \in 0 .. n - 1 /\ k - 1 \in 0 .. n - 1 /\ k \in 1 .. n /\ k + 1 \in 1 .. n
      BY <1>3
    <3>1. CASE k < at
      <4>1. k - 1 < at /\ k # at + 1 /\ k # at
        BY <1>1, <1>3, <3>1
      <4>2. q[k] = l[k]
        BY <1>4, <3>1
      <4>3. G[k] = D(k) /\ G[k - 1] = D(k - 1)
        BY <1>10, <3>0, <3>1, <4>1
      <4>4. l[k] \in T /\ l[k] # t /\ (at < n => l[k] # l[at + 1])
        BY <1>1, <1>3, <1>6, <1>7, <3>0, <4>1
      <4>5. e[l[k]] = d[l[k]]
        BY <1>9, <4>4
      <4>6. D(k) = D(k - 1) + d[l[k]]
        BY <1>3, <3>0
      <4> QED
        BY <4>2, <4>3, <4>5, <4>6
    <3>2. CASE k = at
      <4>1. at < n /\ k - 1 < at /\ ~(k < at) /\ (at + 1) - 1 = at
        BY <1>1, <1>3, <3>2
      <4>2. q[k] = l[at + 1]
        BY <1>4, <3>2, <4>1
      <4>3. G[k] = D(at + 1) /\ G[k - 1] = D(at - 1)
        BY <1>10, <3>0, <3>2, <4>1
      <4>4. D(at + 1) = D(at) + d[l[at + 1]] /\ d[l[at + 1]] \in Nat
        BY <1>3, <3>0, <3>2, <4>1
      <4>5. D(at) = D(at - 1) + d[t] /\ d[t] \in Nat
        BY <1>1, <1>3
      <4>6. at - 1 \in 0 .. n
        BY <1>1, <1>3
      <4>7. D(at - 1) \in Nat
        BY <1>3, <4>6
      <4>8. e[l[at + 1]] = d[l[at + 1]] + d[t]
        BY <1>9, <4>1
      <4> QED
        BY <4>2, <4>3, <4>4, <4>5, <4>7, <4>8
    <3>3. CASE k > at
      <4>1. ~(k < at) /\ ~(k - 1 < at) /\ (k - 1) + 1 = k /\ (k + 1) - 1 = k /\ k + 1 # at + 1 /\ k + 1 # at
        BY <1>1, <1>3, <3>3
      <4>2. q[k] = l[k + 1]
        BY <1>4, <4>1
      <4>3. G[k] = D(k + 1) /\ G[k - 1] = D(k)
        BY <1>10, <3>0, <4>1
      <4>4. l[k + 1] \in T /\ l[k + 1] # t /\ (at < n => l[k + 1] # l[at + 1])
        BY <1>1, <1>3, <1>6, <1>7, <3>0, <4>1
      <4>5. e[l[k + 1]] = d[l[k + 1]]
        BY <1>9, <4>4
      <4>6. D(k + 1) = D(k) + d[l[k + 1]]
        BY <1>3, <3>0, <4>1
      <4> QED
        BY <4>2, <4>3, <4>5, <4>6
    <3> QED
      BY <1>1, <3>1, <3>2, <3>3
  <2> QED
    BY <1>4, <2>1, <2>2 DEF Adds
<1>12. \A i \in 0 .. n - 1 : DueIn(q, e, i) = G[i]
  <2>1. q \in Seq(T) /\ e \in [T -> Nat] /\ Len(q) = n - 1 /\ Adds(q, e, G)
    BY <1>1, <1>3, <1>4, <1>9, <1>11
  <2> HIDE DEF n, q
  <2>2. \A i \in 0 .. Len(q) : DueIn(q, e, i) = G[i]
    BY <2>1, DueSums
  <2> QED
    BY <2>1, <2>2
<1>13. ASSUME NEW x \in ToSet(q) PROVE Rem(q, e, x) = Rem(l, d, x)
  <2>1. PICK j \in 1 .. n - 1 : x = q[j]
    BY <1>4, LenProperties DEF ToSet
  <2>2. Rem(q, e, q[j]) = DueIn(q, e, j)
    BY <1>4, <1>5, <2>1, RemAt
  <2>3. j \in 0 .. n - 1 /\ j \in 1 .. n /\ j + 1 \in 1 .. n
    BY <1>3
  <2>4. CASE j < at
    <3>1. q[j] = l[j] /\ G[j] = D(j)
      BY <1>4, <1>10, <2>3, <2>4
    <3>2. Rem(l, d, l[j]) = D(j)
      BY <2>3, RemAt DEF D
    <3> QED
      BY <1>12, <2>1, <2>2, <2>3, <3>1, <3>2
  <2>5. CASE ~(j < at)
    <3>1. q[j] = l[j + 1] /\ G[j] = D(j + 1)
      BY <1>4, <1>10, <2>3, <2>5
    <3>2. Rem(l, d, l[j + 1]) = D(j + 1)
      BY <2>3, RemAt DEF D
    <3> QED
      BY <1>12, <2>1, <2>2, <2>3, <3>1, <3>2
  <2> QED
    BY <2>4, <2>5
<1>14. ASSUME NEW x \in T \ ToSet(q) PROVE e[x] <= d[x]
  <2>0. d[x] \in Nat
    OBVIOUS
  <2>1. CASE x = t
    BY <1>9, <2>0, <2>1
  <2>2. CASE x # t
    <3>1. at < n => l[at + 1] \in ToSet(q)
      <4> SUFFICES ASSUME at < n PROVE l[at + 1] \in ToSet(l) /\ l[at + 1] # t
        BY <1>5
      <4> QED
        BY <1>7, LenProperties DEF ToSet
    <3> QED
      BY <1>9, <2>0, <2>2, <3>1
  <2> QED
    BY <2>1, <2>2
<1> QED
  BY <1>2, <1>4, <1>5, <1>9, <1>13, <1>14

(* A tick takes one from every node, if none has expired before; those     *)
(* that had one left are the front of the list.                            *)
LEMMA TickLemma ==
    ASSUME NEW T, NEW l \in Seq(T), IsInjective(l), NEW d \in [T -> Nat],
           \A x \in ToSet(l) : Rem(l, d, x) >= 1
    PROVE  LET down == TickHead(l, d)
               due  == Expired(l, down)
               m    == SubSeq(l, Cardinality(due) + 1, Len(l))
           IN  /\ down \in [T -> Nat] /\ \A x \in T : down[x] <= d[x]
               /\ due = {x \in ToSet(l) : Rem(l, d, x) = 1}
               /\ m \in Seq(T) /\ IsInjective(m) /\ ToSet(m) = ToSet(l) \ due
               /\ \A x \in ToSet(m) : Rem(m, down, x) = Rem(l, d, x) - 1
<1> DEFINE n == Len(l)
           down == TickHead(l, d)
           due == Expired(l, down)
           D(i) == DueIn(l, d, i)
           E(i) == DueIn(l, down, i)
           G == [i \in 0 .. n |-> IF i = 0 THEN 0 ELSE D(i) - 1]
<1>1. /\ n \in Nat /\ D(0) = 0
      /\ \A i \in 0 .. n : D(i) \in Nat
      /\ \A i \in 1 .. n : D(i) = D(i - 1) + d[l[i]] /\ d[l[i]] \in Nat /\ l[i] \in T
  BY DueStep, LenProperties
<1>2. \A i \in 1 .. n : l[i] \in ToSet(l) /\ Rem(l, d, l[i]) = D(i) /\ D(i) >= 1
  <2> TAKE i \in 1 .. n
  <2>1. l[i] \in ToSet(l)
    BY LenProperties DEF ToSet
  <2>2. Rem(l, d, l[i]) = D(i)
    BY RemAt
  <2> QED
    BY <2>1, <2>2
<1>3. \A a, b \in 1 .. n : l[a] = l[b] => a = b
  BY LenProperties DEF IsInjective
<1> HIDE DEF D
<1>4. /\ down \in [T -> Nat] /\ \A x \in T : down[x] <= d[x]
      /\ n >= 1 => down[l[1]] = d[l[1]] - 1
      /\ \A i \in 2 .. n : down[l[i]] = d[l[i]]
  <2>1. CASE n = 0
    <3>1. l = <<>>
      BY <2>1, EmptySeq
    <3>2. down = d
      BY <3>1 DEF TickHead
    <3> HIDE DEF down
    <3> QED
      BY <2>1, <3>2
  <2>2. CASE n >= 1
    <3>1. l # <<>> /\ Head(l) = l[1] /\ 1 \in 1 .. n /\ l[1] \in T
      BY <1>1, <2>2, EmptySeq, HeadTailProperties
    <3>2. d[l[1]] \in Nat /\ d[l[1]] >= 1
      BY <1>1, <1>2, <3>1
    <3>3. down = [d EXCEPT ![l[1]] = @ - 1]
      BY <3>1, <3>2 DEF TickHead
    <3> HIDE DEF down
    <3>4. down \in [T -> Nat] /\ down[l[1]] = d[l[1]] - 1
      BY <3>1, <3>2, <3>3
    <3>5. \A x \in T : x # l[1] => down[x] = d[x]
      BY <3>3
    <3>6. ASSUME NEW x \in T PROVE down[x] <= d[x]
      <4>1. d[x] \in Nat
        OBVIOUS
      <4> QED
        BY <3>2, <3>4, <3>5, <4>1
    <3>7. \A i \in 2 .. n : i \in 1 .. n /\ l[i] # l[1] /\ l[i] \in T
      BY <1>1, <1>3, <3>1
    <3> QED
      BY <3>4, <3>5, <3>6, <3>7
  <2> QED
    BY <1>1, <2>1, <2>2
<1> HIDE DEF down
<1>5. \A i \in 0 .. n : G[i] = IF i = 0 THEN 0 ELSE D(i) - 1
  OBVIOUS
<1> HIDE DEF G
<1>6. Adds(l, down, G)
  <2>1. G[0] = 0
    BY <1>1, <1>5
  <2>2. ASSUME NEW k \in 1 .. n PROVE G[k] = G[k - 1] + down[l[k]]
    <3>1. k \in 0 .. n /\ k - 1 \in 0 .. n /\ k # 0
      BY <1>1
    <3>2. D(k) = D(k - 1) + d[l[k]] /\ d[l[k]] \in Nat /\ D(k - 1) \in Nat /\ G[k] = D(k) - 1
      BY <1>1, <1>5, <3>1
    <3>3. CASE k = 1
      <4>1. G[k - 1] = 0 /\ D(k - 1) = 0 /\ down[l[k]] = d[l[k]] - 1
        BY <1>1, <1>4, <2>1, <3>1, <3>3
      <4> QED
        BY <3>2, <4>1
    <3>4. CASE k # 1
      <4>1. k \in 2 .. n /\ k - 1 # 0
        BY <1>1, <3>4
      <4>2. down[l[k]] = d[l[k]] /\ G[k - 1] = D(k - 1) - 1
        BY <1>4, <1>5, <3>1, <4>1
      <4>3. \A a, b \in Nat : (a + b) - 1 = (a - 1) + b
        OBVIOUS
      <4>4. G[k] = (D(k - 1) + d[l[k]]) - 1 /\ G[k - 1] + down[l[k]] = (D(k - 1) - 1) + d[l[k]]
        BY <3>2, <4>2
      <4>5. D(k - 1) \in Nat /\ d[l[k]] \in Nat
        BY <3>2
      <4> HIDE DEF D
      <4> QED
        BY ONLY <4>3, <4>4, <4>5
    <3> QED
      BY <3>3, <3>4
  <2> QED
    BY <2>1, <2>2 DEF Adds
<1>7. /\ E(0) = 0
      /\ \A i \in 1 .. n : E(i) = D(i) - 1 /\ E(i) \in Nat
  <2>1. \A i \in 0 .. n : E(i) = G[i]
    BY <1>4, <1>6, DueSums
  <2> HIDE DEF E
  <2>2. ASSUME NEW i \in 1 .. n PROVE E(i) = D(i) - 1 /\ E(i) \in Nat
    <3>1. i \in 0 .. n /\ i # 0
      BY <1>1
    <3>2. E(i) = D(i) - 1
      BY <1>5, <2>1, <3>1
    <3>3. D(i) \in Nat /\ D(i) >= 1
      BY <1>1, <1>2, <3>1
    <3> QED
      BY <3>2, <3>3
  <2> QED
    BY <1>1, <1>5, <2>1, <2>2
<1>8. \A i, j \in 0 .. n : i <= j => E(i) <= E(j)
  BY <1>4, DueGrows
<1>9. due = {l[i] : i \in {j \in 1 .. n : E(j) = 0}}
  BY DEF Expired
<1> HIDE DEF E, due
<1>10. due = {x \in ToSet(l) : Rem(l, d, x) = 1}
  <2>1. ASSUME NEW i \in 1 .. n PROVE E(i) = 0 <=> Rem(l, d, l[i]) = 1
    <3>1. E(i) = D(i) - 1 /\ E(i) \in Nat /\ Rem(l, d, l[i]) = D(i)
      BY <1>2, <1>7
    <3>2. D(i) \in Nat
      BY <1>1
    <3> QED
      BY <3>1, <3>2
  <2>2. ToSet(l) = {l[i] : i \in 1 .. n}
    BY LenProperties DEF ToSet
  <2> HIDE DEF n
  <2> QED
    BY <1>9, <2>1, <2>2
<1> DEFINE P == {j \in 1 .. n : E(j) # 0} \cup {n + 1}
           c == Min(P) - 1
<1>11. /\ c \in 0 .. n
       /\ \A j \in 1 .. n : E(j) = 0 <=> j <= c
  <2> DEFINE p == Min(P)
  <2>1. P \in SUBSET Nat /\ P # {}
    BY <1>1
  <2>2. p \in P /\ \A x \in P : p <= x
    BY <2>1, MinOfNats
  <2> HIDE DEF p
  <2>3. p \in 1 .. n + 1 /\ (p <= n => E(p) # 0)
    BY <1>1, <2>2
  <2>4. ASSUME NEW j \in 1 .. n PROVE E(j) = 0 <=> j < p
    <3>1. ASSUME j < p PROVE E(j) = 0
      <4>1. j \notin P
        BY <1>1, <2>2, <2>3, <3>1
      <4> QED
        BY <4>1
    <3>2. ASSUME ~(j < p) PROVE E(j) # 0
      <4>1. p \in 1 .. n /\ p \in 0 .. n /\ j \in 0 .. n /\ p <= j
        BY <1>1, <2>3, <3>2
      <4>2. E(p) # 0 /\ E(p) \in Nat /\ E(p) <= E(j) /\ E(j) \in Nat
        BY <1>7, <1>8, <2>3, <4>1
      <4> QED
        BY <4>2
    <3> QED
      BY <3>1, <3>2
  <2>5. c = p - 1
    BY DEF p
  <2> HIDE DEF c
  <2> QED
    BY <1>1, <2>3, <2>4, <2>5
<1> HIDE DEF c, P
<1>12. Cardinality(due) = c
  <2> DEFINE s == SubSeq(l, 1, c)
  <2>1. /\ s \in Seq(T) /\ Len(s) = c
        /\ \A i \in 1 .. c : s[i] = l[i]
    <3>1. \A i \in 1 .. c : i \in 1 .. n /\ l[i] \in T
      BY <1>1, <1>11
    <3>2. /\ s \in Seq(T) /\ Len(s) = IF 1 <= c THEN c - 1 + 1 ELSE 0
          /\ \A i \in 1 .. c - 1 + 1 : s[i] = l[1 + i - 1]
      BY <1>11, <3>1, SubSeqProperties
    <3> HIDE DEF s
    <3>3. \A i \in 1 .. c : i \in 1 .. c - 1 + 1 /\ 1 + i - 1 = i
      BY <1>1, <1>11
    <3> QED
      BY <1>1, <1>11, <3>2, <3>3
  <2> HIDE DEF s
  <2>2. \A i \in 1 .. c : i \in 1 .. n
    BY <1>1, <1>11
  <2>3. DOMAIN s = 1 .. c
    BY <2>1, LenProperties
  <2>4. IsInjective(s)
    BY <1>3, <2>1, <2>2, <2>3 DEF IsInjective
  <2>5. ToSet(s) = due
    <3>1. ToSet(s) = {l[i] : i \in 1 .. c}
      BY <2>1, <2>3 DEF ToSet
    <3>2. {j \in 1 .. n : E(j) = 0} = 1 .. c
      BY <1>1, <1>11, <2>2
    <3> QED
      BY <1>9, <3>1, <3>2
  <2> QED
    BY <2>1, <2>4, <2>5, InjectiveLength
<1> DEFINE m == SubSeq(l, c + 1, n)
<1>13. /\ m \in Seq(T) /\ Len(m) = n - c
       /\ \A i \in 1 .. n - c : m[i] = l[c + i] /\ c + i \in 1 .. n
  <2>1. \A i \in c + 1 .. n : l[i] \in T
    BY <1>1, <1>11
  <2>2. /\ m \in Seq(T) /\ Len(m) = IF c + 1 <= n THEN n - (c + 1) + 1 ELSE 0
        /\ \A i \in 1 .. n - (c + 1) + 1 : m[i] = l[(c + 1) + i - 1]
    BY <1>1, <1>11, <2>1, SubSeqProperties
  <2> HIDE DEF m
  <2>3. \A i \in 1 .. n - c : /\ i \in 1 .. n - (c + 1) + 1
                              /\ (c + 1) + i - 1 = c + i /\ c + i \in 1 .. n
    BY <1>1, <1>11
  <2> QED
    BY <1>1, <1>11, <2>2, <2>3
<1> HIDE DEF m
<1>14. DOMAIN m = 1 .. n - c
  BY <1>13, LenProperties
<1>15. IsInjective(m)
  <2>1. ASSUME NEW a \in 1 .. n - c, NEW b \in 1 .. n - c, m[a] = m[b] PROVE a = b
    <3>1. c + a = c + b
      BY <1>3, <1>13, <2>1
    <3> QED
      BY <1>1, <1>11, <3>1
  <2> QED
    BY <1>14, <2>1 DEF IsInjective
<1>16. ToSet(m) = ToSet(l) \ due
  <2>1. ASSUME NEW x \in ToSet(m) PROVE x \in ToSet(l) \ due
    <3>1. PICK i \in 1 .. n - c : x = m[i]
      BY <1>14 DEF ToSet
    <3>2. x = l[c + i] /\ c + i \in 1 .. n /\ ~(c + i <= c)
      BY <1>1, <1>11, <1>13, <3>1
    <3>3. ASSUME x \in due PROVE FALSE
      <4>1. PICK j \in 1 .. n : x = l[j] /\ E(j) = 0
        BY <1>9, <3>3
      <4>2. j = c + i
        BY <1>3, <3>2, <4>1
      <4> QED
        BY <1>11, <3>2, <4>1, <4>2
    <3> QED
      BY <1>2, <3>2, <3>3
  <2>2. ASSUME NEW x \in ToSet(l) \ due PROVE x \in ToSet(m)
    <3>1. PICK i \in 1 .. n : x = l[i]
      BY LenProperties DEF ToSet
    <3>2. E(i) # 0
      BY <1>9, <2>2, <3>1
    <3>3. i - c \in 1 .. n - c /\ c + (i - c) = i
      BY <1>1, <1>11, <3>2
    <3>4. m[i - c] = x
      BY <1>13, <3>1, <3>3
    <3> QED
      BY <1>14, <3>3, <3>4 DEF ToSet
  <2> QED
    BY <2>1, <2>2
<1>17. ASSUME NEW x \in ToSet(m) PROVE Rem(m, down, x) = Rem(l, d, x) - 1
  <2> DEFINE H == [i \in 0 .. n - c |-> E(c + i)]
  <2>1. \A i \in 0 .. n - c : H[i] = E(c + i)
    OBVIOUS
  <2> HIDE DEF H
  <2>2. Adds(m, down, H)
    <3>1. H[0] = 0
      <4>1. 0 \in 0 .. n - c /\ c + 0 = c /\ (c = 0 \/ c \in 1 .. n)
        BY <1>1, <1>11
      <4>2. E(c) = 0
        BY <1>1, <1>7, <1>11, <4>1
      <4> QED
        BY <2>1, <4>1, <4>2
    <3>2. ASSUME NEW k \in 1 .. n - c PROVE H[k] = H[k - 1] + down[m[k]]
      <4>1. /\ k \in 0 .. n - c /\ k - 1 \in 0 .. n - c
            /\ c + (k - 1) = (c + k) - 1 /\ c + k \in 1 .. n
        BY <1>1, <1>11
      <4>2. E(c + k) = E((c + k) - 1) + down[l[c + k]]
        BY <1>4, <4>1, DueStep DEF E
      <4>3. m[k] = l[c + k]
        BY <1>13
      <4>4. H[k] = E(c + k) /\ H[k - 1] = E((c + k) - 1)
        BY <2>1, <4>1
      <4> QED
        BY <4>2, <4>3, <4>4
    <3> QED
      BY <1>13, <3>1, <3>2 DEF Adds
  <2>3. PICK i \in 1 .. n - c : x = m[i]
    BY <1>14 DEF ToSet
  <2>4. i \in 0 .. n - c /\ i \in 1 .. Len(m) /\ i \in 0 .. Len(m) /\ c + i \in 1 .. n /\ x = l[c + i]
    BY <1>1, <1>11, <1>13, <2>3
  <2>5. Rem(m, down, m[i]) = DueIn(m, down, i)
    BY <1>13, <1>15, <2>4, RemAt
  <2>6. \A k \in 0 .. Len(m) : DueIn(m, down, k) = H[k]
    <3> HIDE DEF n
    <3>1. down \in [T -> Nat] /\ m \in Seq(T)
      BY <1>4, <1>13
    <3> QED
      BY ONLY <2>2, <3>1, DueSums
  <2>7. DueIn(m, down, i) = E(c + i)
    BY <2>1, <2>4, <2>6
  <2>8. Rem(l, d, x) = D(c + i) /\ E(c + i) = D(c + i) - 1
    BY <1>2, <1>7, <2>4
  <2> QED
    BY <2>3, <2>5, <2>7, <2>8
<1> QED
  BY <1>4, <1>10, <1>12, <1>13, <1>15, <1>16, <1>17 DEF due, m, down

(***************************************************************************)
(* The tick counter.                                                       *)
(***************************************************************************)

LEMMA HalfRange == MaxPeriod \in Nat /\ TickMod = 2 * MaxPeriod + 2
<1>1. TickMod \in Nat \ {0} /\ TickMod % 2 = 0
  BY SleepAssumption
<1> QED
  BY <1>1 DEF MaxPeriod

(* A release is strictly ahead, within one period. *)
LEMMA NextWakeAhead ==
    ASSUME NEW b \in 0 .. TickMod - 1, NEW c \in 0 .. TickMod - 1, NEW p \in 1 .. MaxPeriod
    PROVE  /\ NextWake(b, c, p) \in 0 .. TickMod - 1
           /\ TickDelta(NextWake(b, c, p), c) \in 1 .. p
<1> DEFINE M == TickMod
           e == TickDelta(c, b)
<1>1. MaxPeriod \in Nat /\ M = 2 * MaxPeriod + 2
  BY HalfRange
<1>2. M \in Nat /\ M > 0 /\ c - b \in Int /\ -M <= c - b /\ c - b < 3 * M
  BY <1>1
<1>3. e = IF c - b < 0 THEN c - b + M ELSE c - b
  <2> HIDE DEF M
  <2>1. (c - b) % M = IF c - b < 0 THEN (c - b) + M ELSE IF c - b < M THEN c - b
                      ELSE IF c - b < 2 * M THEN (c - b) - M ELSE (c - b) - 2 * M
    BY <1>2, WrapsOnce
  <2>2. c - b < M
    BY <1>2 DEF M
  <2> QED
    BY <1>2, <2>1, <2>2 DEF TickDelta, M
<1>4. e \in Nat
  BY <1>1, <1>3
<1>5. PICK s \in 1 .. p : (e \div p + 1) * p = e + s
  <2> HIDE DEF e
  <2> QED
    BY <1>4, NextMultiple
<1> DEFINE w == b + (e + s)
<1>6. NextWake(b, c, p) = w % M
  BY <1>5 DEF NextWake, TickAdd
<1>7. w = c + s \/ w = c + s + M
  BY <1>1, <1>3
<1>8. s \in Nat /\ s >= 1 /\ s <= p /\ p <= MaxPeriod
  BY <1>1
<1> HIDE DEF e, w, M
<1>9. w % M = IF c + s < M THEN c + s ELSE (c + s) - M
  <2>1. c \in Nat /\ c < M
    BY <1>2 DEF M
  <2>2. w \in Int /\ -M <= w /\ w < 3 * M
    BY <1>1, <1>7, <1>8, <2>1
  <2>3. w % M = IF w < 0 THEN w + M ELSE IF w < M THEN w
                ELSE IF w < 2 * M THEN w - M ELSE w - 2 * M
    BY <1>2, <2>2, WrapsOnce
  <2> QED
    BY <1>1, <1>7, <1>8, <2>1, <2>3
<1> DEFINE y == w % M
<1>10. y \in 0 .. M - 1 /\ (y - c = s \/ y - c = s - M)
  BY <1>1, <1>2, <1>8, <1>9 DEF M
<1> HIDE DEF y
<1>11. (y - c) % M = s
  <2>1. y - c \in Int /\ -M <= y - c /\ y - c < 3 * M
    BY <1>1, <1>8, <1>10
  <2>2. (y - c) % M = IF y - c < 0 THEN (y - c) + M ELSE IF y - c < M THEN y - c
                      ELSE IF y - c < 2 * M THEN (y - c) - M ELSE (y - c) - 2 * M
    BY <1>2, <2>1, WrapsOnce
  <2> QED
    BY <1>1, <1>2, <1>8, <1>10, <2>2 DEF M
<1> QED
  BY <1>6, <1>8, <1>10, <1>11 DEF TickDelta, y, M

LEMMA AheadOf ==
    ASSUME NEW w \in 0 .. TickMod - 1, NEW c \in 0 .. TickMod - 1
    PROVE  /\ TickDelta(w, c) \in 0 .. TickMod - 1
           /\ w = c + TickDelta(w, c) \/ w = c + TickDelta(w, c) - TickMod
<1> DEFINE M == TickMod
<1>1. MaxPeriod \in Nat /\ M = 2 * MaxPeriod + 2
  BY HalfRange
<1>2. M \in Nat /\ M > 0 /\ w \in Nat /\ c \in Nat /\ w < M /\ c < M
  BY <1>1
<1> HIDE DEF M
<1>3. w - c \in Int /\ -M <= w - c /\ w - c < 3 * M
  BY <1>2
<1>4. (w - c) % M = IF w - c < 0 THEN (w - c) + M ELSE IF w - c < M THEN w - c
                    ELSE IF w - c < 2 * M THEN (w - c) - M ELSE (w - c) - 2 * M
  BY <1>2, <1>3, WrapsOnce
<1>5. TickDelta(w, c) = IF w - c < 0 THEN (w - c) + M ELSE w - c
  BY <1>2, <1>4 DEF TickDelta, M
<1> QED
  BY <1>2, <1>5 DEF M

(* ... and back: what a time delta ahead, or a turn less, is away. *)
LEMMA AwayFrom ==
    ASSUME NEW w \in 0 .. TickMod - 1, NEW c \in 0 .. TickMod - 1, NEW r \in 0 .. MaxPeriod,
           w = c + r \/ w = c + r - TickMod
    PROVE  TickDelta(w, c) = r
<1> DEFINE M == TickMod
<1>1. MaxPeriod \in Nat /\ M = 2 * MaxPeriod + 2
  BY HalfRange
<1>2. M \in Nat /\ M > 0 /\ w \in Nat /\ c \in Nat /\ w < M /\ c < M /\ r \in Nat /\ r < M
  BY <1>1
<1>3. w = c + r \/ w = c + r - M
  OBVIOUS
<1> HIDE DEF M
<1>4. w - c \in Int /\ -M <= w - c /\ w - c < 3 * M
  BY <1>2
<1>5. (w - c) % M = IF w - c < 0 THEN (w - c) + M ELSE IF w - c < M THEN w - c
                    ELSE IF w - c < 2 * M THEN (w - c) - M ELSE (w - c) - 2 * M
  BY <1>2, <1>4, WrapsOnce
<1>6. (w - c) % M = r
  BY <1>2, <1>3, <1>5
<1> QED
  BY <1>6 DEF TickDelta, M

LEMMA TickAddIn ==
    ASSUME NEW b \in 0 .. TickMod - 1, NEW p \in 1 .. MaxPeriod
    PROVE  TickAdd(b, p) \in 0 .. TickMod - 1
<1> DEFINE M == TickMod
<1>1. MaxPeriod \in Nat /\ M = 2 * MaxPeriod + 2
  BY HalfRange
<1>2. M \in Nat /\ M > 0 /\ b + p \in Int /\ -M <= b + p /\ b + p < 3 * M /\ b + p < 2 * M /\ 0 <= b + p
  BY <1>1
<1> HIDE DEF M
<1>3. (b + p) % M = IF b + p < 0 THEN (b + p) + M ELSE IF b + p < M THEN b + p
                    ELSE IF b + p < 2 * M THEN (b + p) - M ELSE (b + p) - 2 * M
  BY <1>2, WrapsOnce
<1>4. (b + p) % M \in 0 .. M - 1
  BY <1>2, <1>3
<1> QED
  BY <1>4 DEF TickAdd, M

(***************************************************************************)
(* The list of the sleepers.                                               *)
(***************************************************************************)

(* Every node is linked once, and has between one tick and the longest     *)
(* delay to go.                                                            *)
ListOK(l, d) ==
    /\ l \in Seq(Task) /\ IsInjective(l)
    /\ d \in [Task -> 0 .. MaxPeriod]
    /\ \A x \in ToSet(l) : Rem(l, d, x) \in 1 .. MaxPeriod

LEMMA DtickBound ==
    ASSUME NEW T, NEW l \in Seq(T), IsInjective(l), NEW d \in [T -> Nat], NEW x \in ToSet(l)
    PROVE  d[x] <= Rem(l, d, x) /\ Rem(l, d, x) \in Nat
<1>1. PICK i \in 1 .. Len(l) : x = l[i]
  BY LenProperties DEF ToSet
<1>2. Rem(l, d, x) = DueIn(l, d, i)
  BY <1>1, RemAt
<1>3. i \in 0 .. Len(l) /\ i - 1 \in 0 .. Len(l) /\ x \in T
  BY <1>1, LenProperties
<1>4. /\ DueIn(l, d, i) \in Nat /\ DueIn(l, d, i - 1) \in Nat
      /\ DueIn(l, d, i) = DueIn(l, d, i - 1) + d[l[i]]
  BY <1>3, DueStep
<1>5. d[x] \in Nat
  BY <1>3
<1> QED
  BY <1>1, <1>2, <1>4, <1>5

LEMMA ListOKFrom ==
    ASSUME NEW l \in Seq(Task), IsInjective(l), NEW d \in [Task -> Nat],
           \A x \in ToSet(l) : Rem(l, d, x) \in 1 .. MaxPeriod,
           \A x \in Task \ ToSet(l) : d[x] <= MaxPeriod
    PROVE  ListOK(l, d)
<1>1. MaxPeriod \in Nat
  BY HalfRange
<1>2. ASSUME NEW x \in Task PROVE d[x] \in 0 .. MaxPeriod
  <2>1. d[x] \in Nat
    OBVIOUS
  <2>2. CASE x \in ToSet(l)
    <3>1. d[x] <= Rem(l, d, x) /\ Rem(l, d, x) \in 1 .. MaxPeriod
      BY <2>2, DtickBound
    <3> QED
      BY <1>1, <2>1, <3>1
  <2>3. CASE x \notin ToSet(l)
    BY <1>1, <2>1, <2>3
  <2> QED
    BY <2>2, <2>3
<1>3. d = [x \in Task |-> d[x]]
  OBVIOUS
<1>4. d \in [Task -> 0 .. MaxPeriod]
  BY <1>2, <1>3
<1> QED
  BY <1>4 DEF ListOK

LEMMA ListNats ==
    ASSUME NEW l, NEW d, ListOK(l, d)
    PROVE  d \in [Task -> Nat] /\ \A x \in Task : d[x] <= MaxPeriod
<1>1. MaxPeriod \in Nat
  BY HalfRange
<1>2. \A x \in Task : d[x] \in Nat /\ d[x] <= MaxPeriod
  BY <1>1 DEF ListOK
<1>3. d = [x \in Task |-> d[x]]
  BY DEF ListOK
<1> QED
  BY <1>2, <1>3

LEMMA ArmKeeps ==
    ASSUME NEW l, NEW d, ListOK(l, d), NEW t \in Task, t \notin ToSet(l),
           NEW delay \in 1 .. MaxPeriod
    PROVE  LET r == InsertDelta(l, d, t, delay) IN
           /\ ListOK(r.list, r.dtick)
           /\ ToSet(r.list) = ToSet(l) \cup {t}
           /\ Rem(r.list, r.dtick, t) = delay
           /\ \A x \in ToSet(l) : Rem(r.list, r.dtick, x) = Rem(l, d, x)
<1> DEFINE q == InsertDelta(l, d, t, delay).list
           e == InsertDelta(l, d, t, delay).dtick
<1>1. /\ l \in Seq(Task) /\ IsInjective(l) /\ d \in [Task -> Nat] /\ delay \in Nat
      /\ MaxPeriod \in Nat
  BY ListNats, HalfRange DEF ListOK
<1>2. /\ q \in Seq(Task) /\ IsInjective(q) /\ ToSet(q) = ToSet(l) \cup {t}
      /\ e \in [Task -> Nat]
      /\ Rem(q, e, t) = delay
      /\ \A x \in ToSet(l) : Rem(q, e, x) = Rem(l, d, x)
      /\ \A x \in Task \ ToSet(q) : e[x] = d[x]
  BY <1>1, InsertDeltaLemma
<1> HIDE DEF q, e
<1>3. \A x \in ToSet(q) : Rem(q, e, x) \in 1 .. MaxPeriod
  BY <1>2 DEF ListOK
<1>4. \A x \in Task \ ToSet(q) : e[x] <= MaxPeriod
  BY <1>2, ListNats
<1>5. ListOK(q, e)
  BY <1>2, <1>3, <1>4, ListOKFrom
<1> QED
  BY <1>2, <1>5 DEF q, e

LEMMA DisarmKeeps ==
    ASSUME NEW l, NEW d, ListOK(l, d), NEW t \in ToSet(l)
    PROVE  LET r == RemoveNode(l, d, t) IN
           /\ ListOK(r.list, r.dtick)
           /\ ToSet(r.list) = ToSet(l) \ {t}
           /\ \A x \in ToSet(r.list) : Rem(r.list, r.dtick, x) = Rem(l, d, x)
<1> DEFINE q == RemoveNode(l, d, t).list
           e == RemoveNode(l, d, t).dtick
<1>1. l \in Seq(Task) /\ IsInjective(l) /\ d \in [Task -> Nat] /\ MaxPeriod \in Nat
  BY ListNats, HalfRange DEF ListOK
<1>2. /\ q \in Seq(Task) /\ IsInjective(q) /\ ToSet(q) = ToSet(l) \ {t}
      /\ e \in [Task -> Nat]
      /\ \A x \in ToSet(q) : Rem(q, e, x) = Rem(l, d, x)
      /\ \A x \in Task \ ToSet(q) : e[x] <= d[x]
  BY <1>1, RemoveNodeLemma
<1> HIDE DEF q, e
<1>3. \A x \in ToSet(q) : Rem(q, e, x) \in 1 .. MaxPeriod
  BY <1>2 DEF ListOK
<1>4. ASSUME NEW x \in Task \ ToSet(q) PROVE e[x] <= MaxPeriod
  <2>1. e[x] \in Nat /\ d[x] \in Nat /\ e[x] <= d[x] /\ d[x] <= MaxPeriod
    BY <1>1, <1>2, ListNats
  <2> QED
    BY <1>1, <2>1
<1>5. ListOK(q, e)
  BY <1>2, <1>3, <1>4, ListOKFrom
<1> QED
  BY <1>2, <1>5 DEF q, e

LEMMA TickKeeps ==
    ASSUME NEW l, NEW d, ListOK(l, d)
    PROVE  LET down == TickHead(l, d)
               due  == Expired(l, down)
               m    == SubSeq(l, Cardinality(due) + 1, Len(l))
           IN  /\ ListOK(m, down)
               /\ due = {x \in ToSet(l) : Rem(l, d, x) = 1}
               /\ ToSet(m) = ToSet(l) \ due
               /\ \A x \in ToSet(m) : Rem(m, down, x) = Rem(l, d, x) - 1
<1> DEFINE down == TickHead(l, d)
           due  == Expired(l, down)
           m    == SubSeq(l, Cardinality(due) + 1, Len(l))
<1>1. l \in Seq(Task) /\ IsInjective(l) /\ d \in [Task -> Nat] /\ MaxPeriod \in Nat
  BY ListNats, HalfRange DEF ListOK
<1>2. \A x \in ToSet(l) : Rem(l, d, x) \in 1 .. MaxPeriod
  BY DEF ListOK
<1>3. \A x \in ToSet(l) : Rem(l, d, x) >= 1
  BY <1>1, <1>2
<1>4. /\ down \in [Task -> Nat] /\ \A x \in Task : down[x] <= d[x]
      /\ due = {x \in ToSet(l) : Rem(l, d, x) = 1}
      /\ m \in Seq(Task) /\ IsInjective(m) /\ ToSet(m) = ToSet(l) \ due
      /\ \A x \in ToSet(m) : Rem(m, down, x) = Rem(l, d, x) - 1
  BY <1>1, <1>3, TickLemma
<1> HIDE DEF down, due, m
<1>5. ASSUME NEW x \in ToSet(m) PROVE Rem(m, down, x) \in 1 .. MaxPeriod
  <2>1. Rem(l, d, x) \in 1 .. MaxPeriod /\ Rem(l, d, x) # 1
    BY <1>2, <1>4
  <2> QED
    BY <1>1, <1>4, <2>1
<1>6. ASSUME NEW x \in Task PROVE down[x] <= MaxPeriod
  <2>1. down[x] \in Nat /\ d[x] \in Nat /\ down[x] <= d[x] /\ d[x] <= MaxPeriod
    BY <1>1, <1>4, ListNats
  <2> QED
    BY <1>1, <2>1
<1>7. ListOK(m, down)
  BY <1>4, <1>5, <1>6, ListOKFrom
<1> QED
  BY <1>4, <1>7 DEF m, due, down

(***************************************************************************)
(* The invariant.                                                          *)
(***************************************************************************)

Timed == {"SLEEPING_DELAY", "SLEEPING_UNTIL", "SLEEPING_RELEASE"}
Paced == {"SLEEPING_UNTIL", "SLEEPING_RELEASE"}

(* The nodes of the list are the armed ones, and an armed node tells what  *)
(* its task sleeps in.                                                     *)
ArmedInv ==
    /\ ToSet(list) = {t \in Task : timeoutType[t] # "none"}
    /\ \A t \in Task :
          /\ status[t] \in Timed <=> timeoutType[t] = "TIME_EVENT"
          /\ timeoutType[t] = "EVENTFLAGS" => status[t] = "SLEEPING_EV_FLAG"
          /\ status[t] = "SLEEPING_RELEASE" => t \in Periodic
          /\ status[t] = "SLEEPING_UNTIL" => t \in Anchored

(* How many ticks will be counted before t is woken. *)
Ahead(t) == IF ticking THEN Rem(list, dtick, t) - 1 ELSE Rem(list, dtick, t)

WakeAt(t) == IF status[t] = "SLEEPING_RELEASE" THEN wakeTime[t] ELSE lastTick[t]

(* What the counter will show at the end of a sleep, with or without its   *)
(* turn; the turn leaves out a value, and a sleep does not last for two.   *)
OnTime(t) ==
    status[t] \in Paced /\ Ahead(t) >= 1
    => IF t \in wrapped
         THEN WakeAt(t) = globalTick + Ahead(t) - 1 /\ globalTick + Ahead(t) <= MaxPeriod
         ELSE \/ WakeAt(t) = globalTick + Ahead(t)
              \/ WakeAt(t) = globalTick + Ahead(t) - TickMod

OnTimeInv == \A t \in Task : OnTime(t)

(* The value of the type the counter leaves out. *)
TurnInv == globalTick # TickMod - 1

SleepInv ==
    /\ SleepTypeOK
    /\ TurnInv
    /\ ListOK(list, dtick)
    /\ ArmedInv
    /\ OnTimeInv
    /\ NoFlagOverslept

LEMMA InitSleep == SleepInit => SleepInv
<1> SUFFICES ASSUME SleepInit PROVE SleepInv
  OBVIOUS
<1> USE DEF SleepInit
<1>1. MaxPeriod \in Nat /\ TickMod = 2 * MaxPeriod + 2 /\ Periodic \cup Anchored \cup Waiting \subseteq Task
  BY HalfRange, SleepAssumption
<1>2. ToSet(list) = {} /\ IsInjective(list) /\ list \in Seq(Task)
  <2>1. list = <<>>
    OBVIOUS
  <2>2. ToSet(<<>>) = {} /\ IsInjective(<<>>) /\ <<>> \in Seq(Task)
    BY ToSetEmpty, EmptySeq DEF IsInjective
  <2> QED
    BY <2>1, <2>2
<1>3. SleepTypeOK
  <2>1. /\ dtick \in [Task -> 0 .. MaxPeriod] /\ globalTick \in 0 .. TickMod - 1
        /\ wakeTime \in [Periodic -> 0 .. TickMod - 1]
        /\ lastTick \in [Anchored -> 0 .. TickMod - 1]
    BY <1>1
  <2>2. /\ timeOut \in [Task -> BOOLEAN] /\ ticking \in BOOLEAN
        /\ wrapped \subseteq Task /\ getting \subseteq Waiting
    OBVIOUS
  <2> QED
    BY <1>2, <2>1, <2>2 DEF SleepTypeOK, Sleeping
<1>4. ListOK(list, dtick)
  BY <1>1, <1>2 DEF ListOK
<1>5. ArmedInv
  BY <1>2 DEF ArmedInv, Timed
<1>6. OnTimeInv
  BY DEF OnTimeInv, OnTime, Paced
<1>7. NoFlagOverslept
  BY <1>1 DEF NoFlagOverslept
<1>8. TurnInv
  BY <1>1 DEF TurnInv
<1> QED
  BY <1>3, <1>4, <1>5, <1>6, <1>7, <1>8 DEF SleepInv

(* A sleeper nothing happens to stays on time. *)
LEMMA Undisturbed ==
    ASSUME NEW x, OnTime(x), status'[x] \in Paced =>
              /\ status'[x] = status[x] /\ WakeAt(x)' = WakeAt(x) /\ Ahead(x)' = Ahead(x)
              /\ globalTick' = globalTick /\ (x \in wrapped' <=> x \in wrapped)
    PROVE  OnTime(x)'
  BY DEF OnTime

(* What leaves the sleepers alone. *)
LEMMA AsideKeeps ==
    ASSUME SleepInv, SleepTypeOK', NoFlagOverslept',
           UNCHANGED <<status, list, dtick, timeoutType, globalTick, ticking, wakeTime, wrapped>>,
           \A x \in Task : status[x] = "SLEEPING_UNTIL" => lastTick'[x] = lastTick[x]
    PROVE  SleepInv'
<1>1. ListOK(list, dtick)'
  BY DEF SleepInv
<1>2. ArmedInv'
  BY DEF SleepInv, ArmedInv
<1>3. OnTimeInv'
  <2>1. ASSUME NEW x \in Task PROVE OnTime(x)'
    <3>1. OnTime(x)
      BY DEF SleepInv, OnTimeInv
    <3>2. Ahead(x)' = Ahead(x)
      BY DEF Ahead
    <3>3. status'[x] \in Paced => WakeAt(x)' = WakeAt(x)
      BY DEF WakeAt, Paced
    <3> QED
      BY <3>1, <3>2, <3>3, Undisturbed
  <2> QED
    BY <2>1 DEF OnTimeInv
<1>4. TurnInv'
  BY DEF SleepInv, TurnInv
<1> QED
  BY <1>1, <1>2, <1>3, <1>4 DEF SleepInv

LEMMA Members == Periodic \subseteq Task /\ Anchored \subseteq Task /\ Waiting \subseteq Task
  BY SleepAssumption

LEMMA Wants ==
    ASSUME NEW w \in Want
    PROVE  w[1] \in SUBSET Flag /\ w[2] \in {"ANY", "ALL"}
  BY SleepAssumption

(* The actions that change event flags only. *)
LEMMA FlagActionsKeep ==
    ASSUME SleepInv,
           \/ \E t \in Waiting, w \in Want : EventGetMet(t, w[1], w[2]) \/ EventGetNotMet(t, w[1], w[2])
           \/ \E t \in Waiting, m \in Mask : EventSetOnly(t, m) \/ EventClear(t, m)
           \/ \E t \in Waiting : EventGetTimeout(t) \/ EventGetResume(t)
    PROVE  SleepInv'
<1>1. SleepTypeOK /\ NoFlagOverslept
  BY DEF SleepInv
<1> USE DEF sleepVars, clockVars, paceVars, eventVars, SleepTypeOK
<1>2. ASSUME NEW t \in Waiting, NEW w \in Want, EventGetMet(t, w[1], w[2]) PROVE SleepInv'
  <2> USE <1>2 DEF EventGetMet
  <2>1. SleepTypeOK'
    BY <1>1
  <2>2. NoFlagOverslept'
    BY <1>1, Members DEF NoFlagOverslept, Awake
  <2> QED
    BY <2>1, <2>2, AsideKeeps
<1>3. ASSUME NEW t \in Waiting, NEW w \in Want, EventGetNotMet(t, w[1], w[2]) PROVE SleepInv'
  <2> USE <1>3 DEF EventGetNotMet
  <2>1. SleepTypeOK'
    BY <1>1, Wants
  <2>2. NoFlagOverslept'
    BY <1>1, Members DEF NoFlagOverslept, Awake
  <2> QED
    BY <2>1, <2>2, AsideKeeps
<1>4. ASSUME NEW t \in Waiting, NEW m \in Mask, EventSetOnly(t, m) PROVE SleepInv'
  <2> USE <1>4 DEF EventSetOnly
  <2>1. m \in SUBSET Flag
    BY SleepAssumption
  <2>2. SleepTypeOK'
    BY <1>1, <2>1
  <2>3. NoFlagOverslept'
    BY <1>1, Members DEF NoFlagOverslept, WaitOver
  <2> QED
    BY <2>2, <2>3, AsideKeeps
<1>5. ASSUME NEW t \in Waiting, NEW m \in Mask, EventClear(t, m) PROVE SleepInv'
  <2> USE <1>5 DEF EventClear
  <2>1. SleepTypeOK'
    BY <1>1
  <2>2. NoFlagOverslept'
    <3> SUFFICES ASSUME NEW x \in Waiting, status[x] = "SLEEPING_EV_FLAG"
                 PROVE  ~Met(flagsCurr'[x], flagsReq[x], flagsOpt[x])
      BY DEF NoFlagOverslept
    <3>1. ~Met(flagsCurr[x], flagsReq[x], flagsOpt[x])
      BY <1>1 DEF NoFlagOverslept
    <3>2. flagsCurr'[x] \subseteq flagsCurr[x]
      BY <1>1
    <3>3. flagsOpt[x] \in {"NONE", "ANY", "ALL"}
      BY <1>1
    <3> QED
      BY <3>1, <3>2, <3>3 DEF Met
  <2> QED
    BY <2>1, <2>2, AsideKeeps
<1>6. ASSUME NEW t \in Waiting, EventGetTimeout(t) PROVE SleepInv'
  <2> USE <1>6 DEF EventGetTimeout
  <2>1. SleepTypeOK'
    BY <1>1, Members
  <2>2. NoFlagOverslept'
    BY <1>1 DEF NoFlagOverslept
  <2> QED
    BY <2>1, <2>2, AsideKeeps
<1>7. ASSUME NEW t \in Waiting, EventGetResume(t) PROVE SleepInv'
  <2> USE <1>7 DEF EventGetResume
  <2>1. SleepTypeOK'
    BY <1>1
  <2>2. NoFlagOverslept'
    BY <1>1, Members DEF NoFlagOverslept
  <2> QED
    BY <2>1, <2>2, AsideKeeps
<1> QED
  BY <1>2, <1>3, <1>4, <1>5, <1>6, <1>7

LEMMA SleepUntilAtOnceKeeps ==
    ASSUME SleepInv, NEW t \in Anchored, NEW p \in Delay, SleepUntilAtOnce(t, p)
    PROVE  SleepInv'
<1> USE DEF SleepUntilAtOnce, sleepVars, clockVars, eventVars
<1>1. SleepTypeOK /\ NoFlagOverslept
  BY DEF SleepInv
<1>2. p \in 1 .. MaxPeriod /\ lastTick[t] \in 0 .. TickMod - 1
  BY <1>1, SleepAssumption DEF SleepTypeOK
<1>3. TickAdd(lastTick[t], p) \in 0 .. TickMod - 1
  BY <1>2, TickAddIn
<1>4. SleepTypeOK'
  BY <1>1, <1>3 DEF SleepTypeOK
<1>5. NoFlagOverslept'
  BY <1>1 DEF NoFlagOverslept
<1>6. \A x \in Task : status[x] = "SLEEPING_UNTIL" => lastTick'[x] = lastTick[x]
  <2> TAKE x \in Task
  <2> HAVE status[x] = "SLEEPING_UNTIL"
  <2>1. x # t /\ x \in Anchored
    BY DEF SleepInv, ArmedInv, Awake
  <2> QED
    BY <1>1, <2>1 DEF SleepTypeOK
<1> QED
  BY <1>4, <1>5, <1>6, AsideKeeps

(* A task is suspended with its node armed. *)
LEMMA SuspendEffect ==
    ASSUME SleepInv, NEW t \in Task, Awake(t), NEW delay \in 1 .. MaxPeriod,
           NEW type, NEW st, SuspendFor(t, delay, type, st)
    PROVE  /\ t \notin ToSet(list)
           /\ ListOK(list', dtick')
           /\ ToSet(list') = ToSet(list) \cup {t}
           /\ Rem(list', dtick', t) = delay
           /\ \A x \in ToSet(list) : Rem(list', dtick', x) = Rem(list, dtick, x)
           /\ timeoutType' = [timeoutType EXCEPT ![t] = type]
           /\ timeOut' = [timeOut EXCEPT ![t] = FALSE]
           /\ status' = [status EXCEPT ![t] = st]
           /\ wrapped' = wrapped \ {t}
<1>1. /\ timeoutType[t] = "none"
      /\ list' = InsertDelta(list, dtick, t, delay).list
      /\ dtick' = InsertDelta(list, dtick, t, delay).dtick
      /\ timeoutType' = [timeoutType EXCEPT ![t] = type]
      /\ timeOut' = [timeOut EXCEPT ![t] = FALSE]
      /\ status' = [status EXCEPT ![t] = st]
      /\ wrapped' = wrapped \ {t}
  BY DEF SuspendFor
<1>2. ListOK(list, dtick) /\ t \notin ToSet(list)
  BY <1>1 DEF SleepInv, ArmedInv
<1>3. LET r == InsertDelta(list, dtick, t, delay) IN
      /\ ListOK(r.list, r.dtick)
      /\ ToSet(r.list) = ToSet(list) \cup {t}
      /\ Rem(r.list, r.dtick, t) = delay
      /\ \A x \in ToSet(list) : Rem(r.list, r.dtick, x) = Rem(list, dtick, x)
  BY <1>2, ArmKeeps
<1> QED
  BY <1>1, <1>2, <1>3

LEMMA SuspendKeeps ==
    ASSUME SleepInv, NEW t \in Task, Awake(t), NEW delay \in 1 .. MaxPeriod,
           NEW type, NEW st, SuspendFor(t, delay, type, st),
           \/ type = "TIME_EVENT" /\ st \in Timed
           \/ type = "EVENTFLAGS" /\ st = "SLEEPING_EV_FLAG",
           st = "SLEEPING_RELEASE" => t \in Periodic,
           st = "SLEEPING_UNTIL" => t \in Anchored,
           UNCHANGED clockVars,
           wakeTime' \in [Periodic -> 0 .. TickMod - 1],
           lastTick' \in [Anchored -> 0 .. TickMod - 1],
           \A x \in Periodic : x # t => wakeTime'[x] = wakeTime[x],
           \A x \in Anchored : x # t => lastTick'[x] = lastTick[x],
           st \in Paced =>
              LET time == IF st = "SLEEPING_RELEASE" THEN wakeTime'[t] ELSE lastTick'[t]
              IN  time = globalTick + delay \/ time = globalTick + delay - TickMod,
           flagsCurr' = flagsCurr,
           flagsReq' \in [Waiting -> SUBSET Flag],
           flagsOpt' \in [Waiting -> {"NONE", "ANY", "ALL"}],
           getting' \subseteq Waiting,
           NoFlagOverslept'
    PROVE  SleepInv'
<1>1. /\ t \notin ToSet(list)
      /\ ListOK(list', dtick')
      /\ ToSet(list') = ToSet(list) \cup {t}
      /\ Rem(list', dtick', t) = delay
      /\ \A x \in ToSet(list) : Rem(list', dtick', x) = Rem(list, dtick, x)
      /\ timeoutType' = [timeoutType EXCEPT ![t] = type]
      /\ timeOut' = [timeOut EXCEPT ![t] = FALSE]
      /\ status' = [status EXCEPT ![t] = st]
      /\ wrapped' = wrapped \ {t}
  BY SuspendEffect
<1>2. SleepTypeOK /\ ArmedInv /\ OnTimeInv
  BY DEF SleepInv
<1>3. globalTick' = globalTick /\ ticking' = ticking /\ ~ticking
  BY DEF clockVars, Awake
<1>4. SleepTypeOK'
  <2>1. list' \in Seq(Task) /\ dtick' \in [Task -> 0 .. MaxPeriod]
    BY <1>1 DEF ListOK
  <2>2. status' \in [Task -> Sleeping \cup {"READY"}]
    BY <1>1, <1>2 DEF SleepTypeOK, Sleeping, Timed
  <2>3. timeoutType' \in [Task -> {"none", "TIME_EVENT", "EVENTFLAGS"}]
    BY <1>1, <1>2 DEF SleepTypeOK
  <2>4. timeOut' \in [Task -> BOOLEAN] /\ wrapped' \subseteq Task
    BY <1>1, <1>2 DEF SleepTypeOK
  <2> QED
    BY <1>2, <1>3, <2>1, <2>2, <2>3, <2>4 DEF SleepTypeOK
<1>5. ArmedInv'
  <2>1. /\ \A x \in Task : x # t => status'[x] = status[x] /\ timeoutType'[x] = timeoutType[x]
        /\ status'[t] = st /\ timeoutType'[t] = type
    BY <1>1, <1>2 DEF SleepTypeOK
  <2>2. ToSet(list') = {x \in Task : timeoutType'[x] # "none"}
    BY <1>1, <1>2, <2>1 DEF ArmedInv
  <2> QED
    BY <1>2, <2>1, <2>2 DEF ArmedInv, Timed
<1>6. OnTimeInv'
  <2>1. ASSUME NEW x \in Task, x # t PROVE OnTime(x)'
    <3>1. OnTime(x)
      BY <1>2 DEF OnTimeInv
    <3>2. ASSUME status'[x] \in Paced
          PROVE  /\ status'[x] = status[x] /\ WakeAt(x)' = WakeAt(x) /\ Ahead(x)' = Ahead(x)
                 /\ globalTick' = globalTick /\ (x \in wrapped' <=> x \in wrapped)
      <4>1. status'[x] = status[x]
        BY <1>1, <1>2, <2>1 DEF SleepTypeOK
      <4>2. status[x] \in Timed
        BY <3>2, <4>1 DEF Timed, Paced
      <4>3. x \in ToSet(list)
        BY <1>2, <4>2 DEF ArmedInv
      <4>4. Ahead(x)' = Ahead(x)
        BY <1>1, <1>3, <4>3 DEF Ahead
      <4>5. WakeAt(x)' = WakeAt(x)
        BY <1>2, <2>1, <3>2, <4>1 DEF WakeAt, Paced, ArmedInv
      <4> QED
        BY <1>1, <1>3, <2>1, <4>1, <4>4, <4>5
    <3> QED
      BY <3>1, <3>2, Undisturbed
  <2>2. OnTime(t)'
    <3>1. Ahead(t)' = delay /\ t \notin wrapped' /\ status'[t] = st
      BY <1>1, <1>2, <1>3 DEF Ahead, SleepTypeOK
    <3>2. WakeAt(t)' = IF st = "SLEEPING_RELEASE" THEN wakeTime'[t] ELSE lastTick'[t]
      BY <3>1 DEF WakeAt
    <3> QED
      BY <1>3, <3>1, <3>2 DEF OnTime
  <2> QED
    BY <2>1, <2>2 DEF OnTimeInv
<1>7. TurnInv'
  BY <1>3 DEF SleepInv, TurnInv
<1> QED
  BY <1>1, <1>4, <1>5, <1>6, <1>7 DEF SleepInv

LEMMA SleepDelayKeeps ==
    ASSUME SleepInv, NEW t \in Task, NEW d \in Delay, SleepDelay(t, d)
    PROVE  SleepInv'
<1> USE DEF SleepDelay
<1>1. d \in 1 .. MaxPeriod
  BY SleepAssumption
<1>2. SleepTypeOK /\ NoFlagOverslept
  BY DEF SleepInv
<1>3. status' = [status EXCEPT ![t] = "SLEEPING_DELAY"]
  BY DEF SuspendFor
<1>4. NoFlagOverslept'
  BY <1>2, <1>3, Members DEF NoFlagOverslept, eventVars, SleepTypeOK
<1> QED
  BY <1>1, <1>2, <1>4, SuspendKeeps DEF SleepTypeOK, Timed, Paced, clockVars, eventVars

LEMMA SleepReleaseKeeps ==
    ASSUME SleepInv, NEW t \in Periodic, NEW p \in Delay, SleepRelease(t, p)
    PROVE  SleepInv'
<1> DEFINE next == NextWake(wakeTime[t], globalTick, p)
           delay == TickDelta(next, globalTick)
<1>1. /\ Awake(t)
      /\ wakeTime' = [wakeTime EXCEPT ![t] = next]
      /\ SuspendFor(t, delay, "TIME_EVENT", "SLEEPING_RELEASE")
      /\ UNCHANGED <<clockVars, lastTick, eventVars>>
  BY DEF SleepRelease
<1>2. SleepTypeOK /\ NoFlagOverslept /\ t \in Task
  BY Members DEF SleepInv
<1>3. p \in 1 .. MaxPeriod /\ wakeTime[t] \in 0 .. TickMod - 1 /\ globalTick \in 0 .. TickMod - 1
  BY <1>2, SleepAssumption DEF SleepTypeOK
<1>4. next \in 0 .. TickMod - 1 /\ delay \in 1 .. p
  BY <1>3, NextWakeAhead
<1> HIDE DEF next, delay
<1>5. delay \in 1 .. MaxPeriod /\ (next = globalTick + delay \/ next = globalTick + delay - TickMod)
  BY <1>3, <1>4, HalfRange, AheadOf DEF delay
<1>6. /\ wakeTime' \in [Periodic -> 0 .. TickMod - 1] /\ wakeTime'[t] = next
      /\ \A x \in Periodic : x # t => wakeTime'[x] = wakeTime[x]
  BY <1>1, <1>2, <1>4 DEF SleepTypeOK
<1>7. status' = [status EXCEPT ![t] = "SLEEPING_RELEASE"]
  BY <1>1 DEF SuspendFor
<1>8. NoFlagOverslept'
  BY <1>1, <1>2, <1>7, Members DEF NoFlagOverslept, eventVars, SleepTypeOK
<1>9. /\ UNCHANGED clockVars /\ lastTick' = lastTick
      /\ flagsCurr' = flagsCurr /\ flagsReq' = flagsReq /\ flagsOpt' = flagsOpt
      /\ getting' = getting
  BY <1>1 DEF eventVars
<1> QED
  BY <1>1, <1>2, <1>5, <1>6, <1>8, <1>9, SuspendKeeps DEF SleepTypeOK, Timed, Paced

(* What kSleepUntil sleeps for is in range. *)
LEMMA SleepsAhead ==
    ASSUME NEW next \in 0 .. TickMod - 1, NEW c \in 0 .. TickMod - 1,
           ~TickIsElapsed(next, c), TickDelta(next, c) <= MaxPeriod
    PROVE  TickDelta(next, c) \in 1 .. MaxPeriod
<1>1. MaxPeriod \in Nat /\ TickMod = 2 * MaxPeriod + 2
  BY HalfRange
<1>2. /\ TickDelta(next, c) \in 0 .. TickMod - 1
      /\ next = c + TickDelta(next, c) \/ next = c + TickDelta(next, c) - TickMod
  BY AheadOf
<1>3. ASSUME TickDelta(next, c) = 0 PROVE FALSE
  <2>1. next = c
    BY <1>1, <1>2, <1>3
  <2>2. TickDelta(c, c) = 0
    BY <1>1, AwayFrom
  <2> QED
    BY <1>1, <2>1, <2>2 DEF TickIsElapsed
<1> QED
  BY <1>1, <1>2, <1>3

LEMMA SleepUntilKeeps ==
    ASSUME SleepInv, NEW t \in Anchored, NEW p \in Delay, SleepUntil(t, p)
    PROVE  SleepInv'
<1> DEFINE next == TickAdd(lastTick[t], p)
           delay == TickDelta(next, globalTick)
<1>1. /\ Awake(t)
      /\ ~TickIsElapsed(next, globalTick)
      /\ delay <= MaxPeriod
      /\ lastTick' = [lastTick EXCEPT ![t] = next]
      /\ SuspendFor(t, delay, "TIME_EVENT", "SLEEPING_UNTIL")
      /\ UNCHANGED <<clockVars, wakeTime, eventVars>>
  BY DEF SleepUntil
<1>2. SleepTypeOK /\ NoFlagOverslept /\ t \in Task
  BY Members DEF SleepInv
<1>3. p \in 1 .. MaxPeriod /\ lastTick[t] \in 0 .. TickMod - 1 /\ globalTick \in 0 .. TickMod - 1
  BY <1>2, SleepAssumption DEF SleepTypeOK
<1>4. next \in 0 .. TickMod - 1
  BY <1>3, TickAddIn
<1> HIDE DEF next
<1>5. /\ delay \in 0 .. TickMod - 1
      /\ next = globalTick + delay \/ next = globalTick + delay - TickMod
  BY <1>3, <1>4, AheadOf
<1> HIDE DEF delay
<1>6. delay \in 1 .. MaxPeriod
  BY <1>1, <1>3, <1>4, SleepsAhead DEF delay
<1>7. /\ lastTick' \in [Anchored -> 0 .. TickMod - 1] /\ lastTick'[t] = next
      /\ \A x \in Anchored : x # t => lastTick'[x] = lastTick[x]
  BY <1>1, <1>2, <1>4 DEF SleepTypeOK
<1>8. status' = [status EXCEPT ![t] = "SLEEPING_UNTIL"]
  BY <1>1 DEF SuspendFor
<1>9. NoFlagOverslept'
  BY <1>1, <1>2, <1>8, Members DEF NoFlagOverslept, eventVars, SleepTypeOK
<1>10. /\ UNCHANGED clockVars /\ wakeTime' = wakeTime
       /\ flagsCurr' = flagsCurr /\ flagsReq' = flagsReq /\ flagsOpt' = flagsOpt
       /\ getting' = getting
  BY <1>1 DEF eventVars
<1> QED
  BY <1>1, <1>2, <1>5, <1>6, <1>7, <1>9, <1>10, SuspendKeeps DEF SleepTypeOK, Timed, Paced

LEMMA EventGetWaitKeeps ==
    ASSUME SleepInv, NEW t \in Waiting, NEW w \in Want, EventGetWait(t, w[1], w[2])
    PROVE  SleepInv'
<1> DEFINE req == w[1]
           opt == w[2]
<1>1. /\ Awake(t)
      /\ ~Met(flagsCurr[t], req, opt)
      /\ flagsReq' = [flagsReq EXCEPT ![t] = req]
      /\ flagsOpt' = [flagsOpt EXCEPT ![t] = opt]
      /\ getting' = getting \cup {t}
      /\ UNCHANGED <<clockVars, wakeTime, lastTick, flagsCurr>>
  BY DEF EventGetWait
<1>2. SleepTypeOK /\ NoFlagOverslept /\ ArmedInv /\ OnTimeInv /\ ListOK(list, dtick) /\ t \in Task
  BY Members DEF SleepInv
<1>3. req \in SUBSET Flag /\ opt \in {"NONE", "ANY", "ALL"}
  BY Wants
<1> HIDE DEF req, opt
<1>4. /\ flagsReq' \in [Waiting -> SUBSET Flag] /\ flagsOpt' \in [Waiting -> {"NONE", "ANY", "ALL"}]
      /\ getting' \subseteq Waiting /\ flagsReq'[t] = req /\ flagsOpt'[t] = opt
      /\ \A x \in Waiting : x # t => flagsReq'[x] = flagsReq[x] /\ flagsOpt'[x] = flagsOpt[x]
  BY <1>1, <1>2, <1>3 DEF SleepTypeOK
<1>5. status' = [status EXCEPT ![t] = "SLEEPING_EV_FLAG"]
  BY DEF EventGetWait, SuspendFor
<1>6. NoFlagOverslept'
  <2> SUFFICES ASSUME NEW x \in Waiting, status'[x] = "SLEEPING_EV_FLAG"
               PROVE  ~Met(flagsCurr'[x], flagsReq'[x], flagsOpt'[x])
    BY DEF NoFlagOverslept
  <2>1. CASE x = t
    BY <1>1, <1>4, <2>1
  <2>2. CASE x # t
    <3>1. status[x] = "SLEEPING_EV_FLAG"
      BY <1>2, <1>5, <2>2, Members DEF SleepTypeOK
    <3> QED
      BY <1>1, <1>2, <1>4, <2>2, <3>1 DEF NoFlagOverslept
  <2> QED
    BY <2>1, <2>2
<1>7. CASE UNCHANGED <<list, dtick, timeoutType, timeOut, wrapped>>
  <2>0. globalTick' = globalTick /\ ticking' = ticking
    BY <1>1 DEF clockVars
  <2>1. SleepTypeOK'
    <3>1. status' \in [Task -> Sleeping \cup {"READY"}]
      BY <1>2, <1>5 DEF SleepTypeOK, Sleeping
    <3> QED
      BY <1>1, <1>2, <1>4, <1>7, <2>0, <3>1 DEF SleepTypeOK
  <2>2. status[t] = "READY" /\ \A x \in Task : status'[x] = IF x = t THEN "SLEEPING_EV_FLAG" ELSE status[x]
    BY <1>1, <1>2, <1>5 DEF Awake, SleepTypeOK
  <2>3. ArmedInv'
    BY <1>2, <1>7, <2>2 DEF ArmedInv, Timed
  <2>4. OnTimeInv'
    <3>1. ASSUME NEW x \in Task PROVE OnTime(x)'
      <4>1. OnTime(x)
        BY <1>2 DEF OnTimeInv
      <4>2. Ahead(x)' = Ahead(x)
        BY <1>7, <2>0 DEF Ahead
      <4>3. status'[x] \in Paced => status'[x] = status[x]
        BY <2>2 DEF Paced
      <4>4. status'[x] = status[x] => WakeAt(x)' = WakeAt(x)
        BY <1>1 DEF WakeAt
      <4> QED
        BY <1>7, <2>0, <4>1, <4>2, <4>3, <4>4, Undisturbed
    <3> QED
      BY <3>1 DEF OnTimeInv
  <2>5. TurnInv'
    BY <2>0 DEF SleepInv, TurnInv
  <2> QED
    BY <1>2, <1>6, <1>7, <2>1, <2>3, <2>4, <2>5 DEF SleepInv
<1>8. CASE \E d \in Delay : SuspendFor(t, d, "EVENTFLAGS", "SLEEPING_EV_FLAG")
  <2>1. PICK d \in Delay : SuspendFor(t, d, "EVENTFLAGS", "SLEEPING_EV_FLAG")
    BY <1>8
  <2>2. d \in 1 .. MaxPeriod
    BY SleepAssumption
  <2>3. wakeTime' = wakeTime /\ lastTick' = lastTick /\ flagsCurr' = flagsCurr /\ UNCHANGED clockVars
    BY <1>1
  <2>4. /\ wakeTime' \in [Periodic -> 0 .. TickMod - 1]
        /\ lastTick' \in [Anchored -> 0 .. TickMod - 1]
        /\ \A x \in Periodic : x # t => wakeTime'[x] = wakeTime[x]
        /\ \A x \in Anchored : x # t => lastTick'[x] = lastTick[x]
    BY <1>2, <2>3 DEF SleepTypeOK
  <2>5. "SLEEPING_EV_FLAG" \notin Paced
    BY DEF Paced
  <2>6. SleepInv /\ Awake(t)
    BY <1>1
  <2> QED
    BY ONLY <1>2, <1>4, <1>6, <2>1, <2>2, <2>3, <2>4, <2>5, <2>6, SuspendKeeps
<1> QED
  BY <1>7, <1>8 DEF EventGetWait

LEMMA EventSetWakesKeeps ==
    ASSUME SleepInv, NEW t \in Waiting, NEW m \in Mask, EventSetWakes(t, m)
    PROVE  SleepInv'
<1>1. /\ status[t] = "SLEEPING_EV_FLAG"
      /\ flagsCurr' = [flagsCurr EXCEPT ![t] = @ \cup m]
      /\ status' = [status EXCEPT ![t] = "READY"]
      /\ timeOut' = timeOut /\ globalTick' = globalTick /\ ticking' = ticking
      /\ wakeTime' = wakeTime /\ lastTick' = lastTick /\ wrapped' = wrapped
      /\ flagsReq' = flagsReq /\ flagsOpt' = flagsOpt /\ getting' = getting
  BY DEF EventSetWakes, clockVars, paceVars
<1>2. SleepTypeOK /\ NoFlagOverslept /\ ArmedInv /\ OnTimeInv /\ ListOK(list, dtick) /\ t \in Task
  BY Members DEF SleepInv
<1>3. m \in SUBSET Flag
  BY SleepAssumption
<1>4. /\ ListOK(list', dtick')
      /\ ToSet(list') = ToSet(list) \ {t}
      /\ \A x \in ToSet(list') : Rem(list', dtick', x) = Rem(list, dtick, x)
      /\ timeoutType' = [timeoutType EXCEPT ![t] = "none"]
  <2>1. CASE timeoutType[t] = "EVENTFLAGS"
    <3>1. /\ list' = RemoveNode(list, dtick, t).list
          /\ dtick' = RemoveNode(list, dtick, t).dtick
          /\ timeoutType' = [timeoutType EXCEPT ![t] = "none"]
      BY <2>1 DEF EventSetWakes
    <3>2. t \in ToSet(list)
      BY <1>2, <2>1 DEF ArmedInv
    <3>3. LET r == RemoveNode(list, dtick, t) IN
           /\ ListOK(r.list, r.dtick)
           /\ ToSet(r.list) = ToSet(list) \ {t}
           /\ \A x \in ToSet(r.list) : Rem(r.list, r.dtick, x) = Rem(list, dtick, x)
      BY <1>2, <3>2, DisarmKeeps
    <3> QED
      BY <3>1, <3>3
  <2>2. CASE timeoutType[t] # "EVENTFLAGS"
    <3>1. list' = list /\ dtick' = dtick /\ timeoutType' = timeoutType
      BY <2>2 DEF EventSetWakes
    <3>2. timeoutType[t] = "none"
      <4>1. timeoutType[t] # "TIME_EVENT"
        BY <1>1, <1>2 DEF ArmedInv, Timed
      <4> QED
        BY <1>2, <2>2, <4>1 DEF SleepTypeOK
    <3>3. t \notin ToSet(list)
      BY <1>2, <3>2 DEF ArmedInv
    <3>4. timeoutType' = [timeoutType EXCEPT ![t] = "none"]
      BY <1>2, <3>1, <3>2 DEF SleepTypeOK
    <3> QED
      BY <1>2, <3>1, <3>3, <3>4
  <2> QED
    BY <2>1, <2>2
<1>5. /\ status'[t] = "READY" /\ timeoutType'[t] = "none"
      /\ \A x \in Task : x # t => status'[x] = status[x] /\ timeoutType'[x] = timeoutType[x]
  BY <1>1, <1>2, <1>4 DEF SleepTypeOK
<1>6. SleepTypeOK'
  <2>1. list' \in Seq(Task) /\ dtick' \in [Task -> 0 .. MaxPeriod]
    BY <1>4 DEF ListOK
  <2>2. status' \in [Task -> Sleeping \cup {"READY"}]
    BY <1>1, <1>2 DEF SleepTypeOK
  <2>3. timeoutType' \in [Task -> {"none", "TIME_EVENT", "EVENTFLAGS"}]
    BY <1>2, <1>4 DEF SleepTypeOK
  <2>4. flagsCurr' \in [Waiting -> SUBSET Flag]
    BY <1>1, <1>2, <1>3 DEF SleepTypeOK
  <2> QED
    BY <1>1, <1>2, <2>1, <2>2, <2>3, <2>4 DEF SleepTypeOK
<1>7. ArmedInv'
  <2>1. ToSet(list') = {x \in Task : timeoutType'[x] # "none"}
    BY <1>2, <1>4, <1>5 DEF ArmedInv
  <2> QED
    BY <1>2, <1>5, <2>1 DEF ArmedInv, Timed
<1>8. OnTimeInv'
  <2>1. ASSUME NEW x \in Task PROVE OnTime(x)'
    <3>1. OnTime(x)
      BY <1>2 DEF OnTimeInv
    <3>2. ASSUME status'[x] \in Paced
          PROVE  /\ status'[x] = status[x] /\ WakeAt(x)' = WakeAt(x) /\ Ahead(x)' = Ahead(x)
                 /\ globalTick' = globalTick /\ (x \in wrapped' <=> x \in wrapped)
      <4>1. x # t /\ status'[x] = status[x]
        BY <1>5, <3>2 DEF Paced
      <4>2. status[x] \in Timed
        BY <3>2, <4>1 DEF Timed, Paced
      <4>3. x \in ToSet(list')
        BY <1>2, <1>4, <4>1, <4>2 DEF ArmedInv
      <4>4. Ahead(x)' = Ahead(x)
        BY <1>1, <1>4, <4>3 DEF Ahead
      <4>5. WakeAt(x)' = WakeAt(x)
        BY <1>1, <4>1 DEF WakeAt
      <4> QED
        BY <1>1, <4>1, <4>4, <4>5
    <3> QED
      BY <3>1, <3>2, Undisturbed
  <2> QED
    BY <2>1 DEF OnTimeInv
<1>9. NoFlagOverslept'
  <2> SUFFICES ASSUME NEW x \in Waiting, status'[x] = "SLEEPING_EV_FLAG"
               PROVE  ~Met(flagsCurr'[x], flagsReq'[x], flagsOpt'[x])
    BY DEF NoFlagOverslept
  <2>1. x # t /\ status[x] = "SLEEPING_EV_FLAG"
    BY <1>5, Members
  <2>2. flagsCurr'[x] = flagsCurr[x]
    BY <1>1, <1>2, <2>1 DEF SleepTypeOK
  <2> QED
    BY <1>1, <1>2, <2>1, <2>2 DEF NoFlagOverslept
<1>10. TurnInv'
  BY <1>1 DEF SleepInv, TurnInv
<1> QED
  BY <1>4, <1>6, <1>7, <1>8, <1>9, <1>10 DEF SleepInv

(* The counter takes its turn at most once in a sleep: after it, the end   *)
(* of the sleep is within the first half of the range.                     *)
LEMMA TickCountKeeps ==
    ASSUME SleepInv, TickCount
    PROVE  SleepInv'
<1>1. /\ ~ticking /\ ticking'
      /\ globalTick' = IF globalTick + 1 = TickMod - 1 THEN 0 ELSE globalTick + 1
      /\ wrapped' = IF globalTick' = 0
                      THEN {t \in Task : status[t] \in {"SLEEPING_RELEASE", "SLEEPING_UNTIL"}}
                      ELSE wrapped
      /\ UNCHANGED <<status, list, dtick, timeoutType, timeOut, wakeTime, lastTick>>
      /\ UNCHANGED <<flagsCurr, flagsReq, flagsOpt, getting>>
  BY DEF TickCount, sleepVars, eventVars
<1>2. SleepTypeOK /\ NoFlagOverslept /\ ArmedInv /\ OnTimeInv /\ ListOK(list, dtick)
  BY DEF SleepInv
<1>3. MaxPeriod \in Nat /\ TickMod = 2 * MaxPeriod + 2 /\ globalTick \in 0 .. TickMod - 1
  BY <1>2, HalfRange DEF SleepTypeOK
<1>4. globalTick' \in 0 .. TickMod - 1 /\ TurnInv'
  BY <1>1, <1>3 DEF SleepInv, TurnInv
<1>5. SleepTypeOK'
  <2>1. wrapped' \subseteq Task /\ ticking' \in BOOLEAN
    BY <1>1, <1>2 DEF SleepTypeOK
  <2> QED
    BY <1>1, <1>2, <1>4, <2>1 DEF SleepTypeOK
<1>6. ArmedInv' /\ ListOK(list, dtick)' /\ NoFlagOverslept'
  BY <1>1, <1>2 DEF ArmedInv, NoFlagOverslept
<1>7. OnTimeInv'
  <2> SUFFICES ASSUME NEW x \in Task, status[x] \in Paced, Ahead(x)' >= 1
               PROVE  OnTime(x)'
    BY <1>1 DEF OnTimeInv, OnTime
  <2> DEFINE r == Rem(list, dtick, x)
             w == WakeAt(x)
  <2>1. x \in ToSet(list)
    BY <1>2 DEF ArmedInv, Timed, Paced
  <2>2. r \in 1 .. MaxPeriod
    BY <1>2, <2>1 DEF ListOK
  <2>3. Ahead(x) = r /\ Ahead(x)' = r - 1 /\ WakeAt(x)' = w
    BY <1>1 DEF Ahead, WakeAt
  <2>4. w \in 0 .. TickMod - 1
    BY <1>2 DEF WakeAt, Paced, ArmedInv, SleepTypeOK
  <2> HIDE DEF r, w
  <2>5. IF x \in wrapped THEN w = globalTick + r - 1 /\ globalTick + r <= MaxPeriod
        ELSE w = globalTick + r \/ w = globalTick + r - TickMod
    <3>1. OnTime(x)
      BY <1>2 DEF OnTimeInv
    <3>2. r >= 1
      BY <1>3, <2>2
    <3>3. WakeAt(x) = w
      BY DEF w
    <3> QED
      BY <2>3, <3>1, <3>2, <3>3 DEF OnTime
  <2>6. r - 1 >= 1
    BY <2>3
  <2>7. CASE globalTick + 1 = TickMod - 1
    <3>1. globalTick' = 0 /\ x \in wrapped'
      BY <1>1, <2>7 DEF Paced
    <3>2. x \notin wrapped
      BY <1>3, <2>2, <2>5, <2>7
    <3>3. w = r - 2
      BY <1>3, <2>2, <2>4, <2>5, <2>6, <2>7, <3>2
    <3>4. w = 0 + (r - 1) - 1 /\ 0 + (r - 1) <= MaxPeriod
      BY <1>3, <2>2, <3>3
    <3> QED
      BY <2>3, <3>1, <3>4 DEF OnTime
  <2>8. CASE globalTick + 1 # TickMod - 1
    <3>1. globalTick' = globalTick + 1 /\ globalTick' # 0
      BY <1>1, <1>3, <2>8
    <3>2. wrapped' = wrapped
      BY <1>1, <3>1
    <3>3. globalTick' + (r - 1) = globalTick + r
      BY <1>3, <2>2, <3>1
    <3>4. IF x \in wrapped'
            THEN w = globalTick' + (r - 1) - 1 /\ globalTick' + (r - 1) <= MaxPeriod
            ELSE w = globalTick' + (r - 1) \/ w = globalTick' + (r - 1) - TickMod
      BY <1>3, <2>2, <2>4, <2>5, <3>1, <3>2, <3>3
    <3> QED
      BY <2>3, <3>4 DEF OnTime
  <2> QED
    BY <2>7, <2>8
<1> QED
  BY <1>4, <1>5, <1>6, <1>7 DEF SleepInv

LEMMA HandleTimeoutListKeeps ==
    ASSUME SleepInv, HandleTimeoutList
    PROVE  SleepInv'
<1> DEFINE down == TickHead(list, dtick)
           due  == Expired(list, down)
           rest == SubSeq(list, Cardinality(due) + 1, Len(list))
<1>1. /\ ticking /\ ~ticking' /\ ticking' = FALSE
      /\ dtick' = down
      /\ list' = rest
      /\ status' = [t \in Task |-> IF t \in due THEN "READY" ELSE status[t]]
      /\ timeOut' = [t \in Task |-> timeOut[t] \/ (t \in due /\ TimesOut(t))]
      /\ timeoutType' = [t \in Task |-> IF t \in due THEN "none" ELSE timeoutType[t]]
      /\ wrapped' = wrapped \ due
      /\ UNCHANGED <<globalTick, wakeTime, lastTick, flagsCurr, flagsReq, flagsOpt, getting>>
  BY DEF HandleTimeoutList, eventVars
<1>2. SleepTypeOK /\ NoFlagOverslept /\ ArmedInv /\ OnTimeInv /\ ListOK(list, dtick)
  BY DEF SleepInv
<1>3. /\ ListOK(rest, down)
      /\ due = {x \in ToSet(list) : Rem(list, dtick, x) = 1}
      /\ ToSet(rest) = ToSet(list) \ due
      /\ \A x \in ToSet(rest) : Rem(rest, down, x) = Rem(list, dtick, x) - 1
  BY <1>2, TickKeeps
<1> HIDE DEF down, due, rest
<1>4. SleepTypeOK'
  <2>1. list' \in Seq(Task) /\ dtick' \in [Task -> 0 .. MaxPeriod]
    BY <1>1, <1>3 DEF ListOK
  <2>2. status' \in [Task -> Sleeping \cup {"READY"}]
    BY <1>1, <1>2 DEF SleepTypeOK
  <2>3. timeoutType' \in [Task -> {"none", "TIME_EVENT", "EVENTFLAGS"}]
    BY <1>1, <1>2 DEF SleepTypeOK
  <2>4. timeOut' \in [Task -> BOOLEAN]
    <3>1. \A t \in Task : (timeOut[t] \/ (t \in due /\ TimesOut(t))) \in BOOLEAN
      OBVIOUS
    <3> QED
      BY <1>1, <3>1
  <2>5. wrapped' \subseteq Task /\ ticking' \in BOOLEAN
    BY <1>1, <1>2 DEF SleepTypeOK
  <2> QED
    BY <1>1, <1>2, <2>1, <2>2, <2>3, <2>4, <2>5 DEF SleepTypeOK
<1>5. ArmedInv'
  <2>1. ToSet(list') = {x \in Task : timeoutType'[x] # "none"}
    BY <1>1, <1>2, <1>3 DEF ArmedInv
  <2>2. \A x \in due : x \in Task => status'[x] = "READY" /\ timeoutType'[x] = "none"
    BY <1>1
  <2>3. \A x \in Task : x \notin due => status'[x] = status[x] /\ timeoutType'[x] = timeoutType[x]
    BY <1>1
  <2> QED
    BY <1>2, <2>1, <2>2, <2>3 DEF ArmedInv, Timed
<1>6. OnTimeInv'
  <2>1. ASSUME NEW x \in Task PROVE OnTime(x)'
    <3>1. OnTime(x)
      BY <1>2 DEF OnTimeInv
    <3>2. ASSUME status'[x] \in Paced
          PROVE  /\ status'[x] = status[x] /\ WakeAt(x)' = WakeAt(x) /\ Ahead(x)' = Ahead(x)
                 /\ globalTick' = globalTick /\ (x \in wrapped' <=> x \in wrapped)
      <4>1. x \notin due /\ status'[x] = status[x]
        BY <1>1, <3>2 DEF Paced
      <4>2. status[x] \in Timed
        BY <3>2, <4>1 DEF Timed, Paced
      <4>3. x \in ToSet(rest)
        BY <1>2, <1>3, <4>1, <4>2 DEF ArmedInv
      <4>4. Ahead(x)' = Ahead(x)
        BY <1>1, <1>3, <4>3 DEF Ahead
      <4>5. WakeAt(x)' = WakeAt(x)
        BY <1>1, <4>1 DEF WakeAt
      <4> QED
        BY <1>1, <4>1, <4>4, <4>5
    <3> QED
      BY <3>1, <3>2, Undisturbed
  <2> QED
    BY <2>1 DEF OnTimeInv
<1>7. NoFlagOverslept'
  <2> SUFFICES ASSUME NEW x \in Waiting, status'[x] = "SLEEPING_EV_FLAG"
               PROVE  ~Met(flagsCurr'[x], flagsReq'[x], flagsOpt'[x])
    BY DEF NoFlagOverslept
  <2>1. status[x] = "SLEEPING_EV_FLAG"
    BY <1>1, Members
  <2> QED
    BY <1>1, <1>2, <2>1 DEF NoFlagOverslept
<1>8. ListOK(list, dtick)'
  BY <1>1, <1>3
<1>9. TurnInv'
  BY <1>1 DEF SleepInv, TurnInv
<1> QED
  BY <1>4, <1>5, <1>6, <1>7, <1>8, <1>9 DEF SleepInv

LEMMA SleepStep == SleepInv /\ [SleepNext]_vars => SleepInv'
<1> SUFFICES ASSUME SleepInv, [SleepNext]_vars PROVE SleepInv'
  OBVIOUS
<1>1. ASSUME NEW t \in Task, NEW d \in Delay, SleepDelay(t, d) PROVE SleepInv'
  BY <1>1, SleepDelayKeeps
<1>2. ASSUME NEW t \in Periodic, NEW p \in Delay, SleepRelease(t, p) PROVE SleepInv'
  BY <1>2, SleepReleaseKeeps
<1>3. ASSUME NEW t \in Anchored, NEW p \in Delay, SleepUntil(t, p) PROVE SleepInv'
  BY <1>3, SleepUntilKeeps
<1>4. ASSUME NEW t \in Anchored, NEW p \in Delay, SleepUntilAtOnce(t, p) PROVE SleepInv'
  BY <1>4, SleepUntilAtOnceKeeps
<1>5. ASSUME NEW t \in Waiting, NEW w \in Want, EventGetWait(t, w[1], w[2]) PROVE SleepInv'
  BY <1>5, EventGetWaitKeeps
<1>6. ASSUME NEW t \in Waiting, NEW m \in Mask, EventSetWakes(t, m) PROVE SleepInv'
  BY <1>6, EventSetWakesKeeps
<1>7. CASE \/ \E t \in Waiting, w \in Want :
                 EventGetMet(t, w[1], w[2]) \/ EventGetNotMet(t, w[1], w[2])
           \/ \E t \in Waiting, m \in Mask : EventSetOnly(t, m) \/ EventClear(t, m)
           \/ \E t \in Waiting : EventGetTimeout(t) \/ EventGetResume(t)
  BY <1>7, FlagActionsKeep
<1>8. CASE TickCount
  BY <1>8, TickCountKeeps
<1>9. CASE HandleTimeoutList
  BY <1>9, HandleTimeoutListKeeps
<1>10. CASE UNCHANGED vars
  <2> USE <1>10 DEF vars, sleepVars, clockVars, paceVars, eventVars
  <2>1. SleepTypeOK'
    BY DEF SleepInv, SleepTypeOK
  <2>2. NoFlagOverslept'
    BY DEF SleepInv, NoFlagOverslept
  <2> QED
    BY <2>1, <2>2, AsideKeeps
<1> QED
  BY <1>1, <1>2, <1>3, <1>4, <1>5, <1>6, <1>7, <1>8, <1>9, <1>10 DEF SleepNext

(* SleepInv holds in every reachable state.                                *)
THEOREM SleepInvariance == SleepSpec => []SleepInv
<1>1. SleepInit => SleepInv
  BY InitSleep
<1>2. SleepInv /\ [SleepNext]_vars => SleepInv'
  BY SleepStep
<1> QED
  BY <1>1, <1>2, PTL DEF SleepSpec

(* A periodic sleeper is woken when the counter shows its release time, or *)
(* a tick later if the counter took its turn during the sleep              *)
(* (kSleepRelease, kSleepUntil, kHandleTimeoutList).                       *)
THEOREM ReleasesOnTime == SleepSpec => []ReleasedOnTime
<1>1. SleepInv => ReleasedOnTime
  <2> SUFFICES ASSUME SleepInv PROVE ReleasedOnTime
    OBVIOUS
  <2>1. SleepTypeOK /\ ArmedInv /\ OnTimeInv /\ ListOK(list, dtick)
    BY DEF SleepInv
  <2> SUFFICES ASSUME NEW t \in Periodic \cup Anchored, ~ticking,
                      status[t] \in {"SLEEPING_RELEASE", "SLEEPING_UNTIL"}
               PROVE  Remaining(t) = TickDelta(WakeAt(t), globalTick)
                                     + IF t \in wrapped THEN 1 ELSE 0
    BY <2>1 DEF ReleasedOnTime, WakeAt
  <2> DEFINE r == Rem(list, dtick, t)
             w == WakeAt(t)
  <2>2. t \in Task /\ t \in ToSet(list)
    BY <2>1, Members DEF ArmedInv, Timed
  <2>3. MaxPeriod \in Nat /\ r \in 1 .. MaxPeriod /\ globalTick \in 0 .. TickMod - 1
    BY <2>1, <2>2, HalfRange DEF ListOK, SleepTypeOK
  <2>4. w \in 0 .. TickMod - 1
    BY <2>1, <2>2 DEF WakeAt, ArmedInv, SleepTypeOK
  <2>5. Remaining(t) = r /\ Ahead(t) = r
    BY DEF Remaining, Rem, Ahead
  <2> HIDE DEF r, w
  <2>6. IF t \in wrapped THEN w = globalTick + r - 1 /\ globalTick + r <= MaxPeriod
        ELSE w = globalTick + r \/ w = globalTick + r - TickMod
    <3>1. OnTime(t) /\ r >= 1 /\ status[t] \in Paced /\ WakeAt(t) = w
      BY <2>1, <2>2, <2>3 DEF OnTimeInv, Paced, w
    <3> QED
      BY <2>5, <3>1 DEF OnTime
  <2>7. CASE t \in wrapped
    <3>1. r - 1 \in 0 .. MaxPeriod /\ w = globalTick + (r - 1)
      BY <2>3, <2>6, <2>7
    <3>2. TickDelta(w, globalTick) = r - 1
      BY <2>3, <2>4, <3>1, AwayFrom
    <3> QED
      BY <2>3, <2>5, <2>7, <3>2 DEF w
  <2>8. CASE t \notin wrapped
    <3>1. r \in 0 .. MaxPeriod /\ (w = globalTick + r \/ w = globalTick + r - TickMod)
      BY <2>3, <2>6, <2>8
    <3>2. TickDelta(w, globalTick) = r
      BY <2>3, <2>4, <3>1, AwayFrom
    <3> QED
      BY <2>3, <2>5, <2>8, <3>2 DEF w
  <2> QED
    BY <2>7, <2>8
<1> QED
  BY <1>1, SleepInvariance, PTL

(* A task sleeps in kEventGet only while its condition is not met.         *)
THEOREM FlagsNotOverslept == SleepSpec => []NoFlagOverslept
<1>1. SleepInv => NoFlagOverslept
  BY DEF SleepInv
<1> QED
  BY <1>1, SleepInvariance, PTL

(* kSleepRelease finds a release strictly ahead and within one period, so  *)
(* that its K_PANIC is unreachable.                                        *)
THEOREM ReleasesAhead == SleepSpec => NextReleaseAhead
<1>1. SleepInv /\ [SleepNext]_vars =>
        [\A t \in Periodic : \A p \in Delay :
            SleepRelease(t, p) => TickDelta(wakeTime'[t], globalTick) \in 1 .. p]_vars
  <2> SUFFICES ASSUME SleepInv, NEW t \in Periodic, NEW p \in Delay, SleepRelease(t, p)
               PROVE  TickDelta(wakeTime'[t], globalTick) \in 1 .. p
    OBVIOUS
  <2>1. /\ p \in 1 .. MaxPeriod /\ wakeTime[t] \in 0 .. TickMod - 1
        /\ globalTick \in 0 .. TickMod - 1
        /\ wakeTime \in [Periodic -> 0 .. TickMod - 1]
    BY SleepAssumption DEF SleepInv, SleepTypeOK
  <2>2. wakeTime'[t] = NextWake(wakeTime[t], globalTick, p)
    BY <2>1 DEF SleepRelease
  <2> QED
    BY <2>1, <2>2, NextWakeAhead
<1> QED
  BY <1>1, SleepInvariance, PTL DEF SleepSpec, NextReleaseAhead

(***************************************************************************)
(* The list implements a set of deadlines.                                 *)
(***************************************************************************)

(* Of each node in the list, how far it is from the end of its wait. *)
Deadline(l, d) == [x \in ToSet(l) |-> Rem(l, d, x)]

bar == [t \in {list[i] : i \in 1 .. Len(list)} |-> Remaining(t)]

LEMMA BarIs ==
    ASSUME list \in Seq(Task)
    PROVE  bar = Deadline(list, dtick)
<1>1. {list[i] : i \in 1 .. Len(list)} = ToSet(list)
  BY LenProperties DEF ToSet
<1>2. \A t : Remaining(t) = Rem(list, dtick, t)
  BY DEF Remaining, Rem
<1> QED
  BY <1>1, <1>2 DEF bar, Deadline

LEMMA BarNext ==
    ASSUME list' \in Seq(Task)
    PROVE  bar' = Deadline(list', dtick')
<1>1. {list'[i] : i \in 1 .. Len(list')} = ToSet(list')
  BY LenProperties DEF ToSet
<1>2. \A t : Remaining(t)' = Rem(list', dtick', t)
  BY DEF Remaining, Rem
<1> QED
  BY <1>1, <1>2 DEF bar, Deadline

LEMMA SleepInitMaps == SleepInit => Deadlines!DeadlinesInit
<1> SUFFICES ASSUME SleepInit PROVE bar = [n \in {} |-> 0]
  BY DEF Deadlines!DeadlinesInit, bar
<1>1. list = <<>> /\ list \in Seq(Task)
  BY EmptySeq DEF SleepInit
<1>2. ToSet(list) = {}
  BY <1>1, ToSetEmpty
<1> QED
  BY <1>1, <1>2, BarIs DEF Deadline

(* The suspension of a task arms its deadline. *)
LEMMA SuspendMaps ==
    ASSUME SleepInv, NEW t \in Task, Awake(t), NEW delay \in 1 .. MaxPeriod,
           NEW type, NEW st, SuspendFor(t, delay, type, st)
    PROVE  Deadlines!Arm
<1>1. /\ t \notin ToSet(list)
      /\ ListOK(list', dtick')
      /\ ToSet(list') = ToSet(list) \cup {t}
      /\ Rem(list', dtick', t) = delay
      /\ \A x \in ToSet(list) : Rem(list', dtick', x) = Rem(list, dtick, x)
  BY SuspendEffect
<1>2. bar = Deadline(list, dtick) /\ bar' = Deadline(list', dtick')
  BY <1>1, BarIs, BarNext DEF SleepInv, ListOK
<1>3. DOMAIN bar = ToSet(list)
  BY <1>2 DEF Deadline
<1>4. bar' = [m \in DOMAIN bar \cup {t} |-> IF m = t THEN delay ELSE bar[m]]
  BY <1>1, <1>2, <1>3 DEF Deadline
<1>5. t \in Task \ DOMAIN bar
  BY <1>1, <1>3
<1>6. \E n \in Task \ DOMAIN bar, d \in 1 .. MaxPeriod :
         bar' = [m \in DOMAIN bar \cup {n} |-> IF m = n THEN d ELSE bar[m]]
  BY <1>4, <1>5
<1> QED
  BY <1>6 DEF Deadlines!Arm, bar

LEMMA SleepNextMaps == SleepInv /\ [SleepNext]_vars => [Deadlines!DeadlinesNext]_bar
<1> SUFFICES ASSUME SleepInv, [SleepNext]_vars
             PROVE  Deadlines!DeadlinesNext \/ bar' = bar
  OBVIOUS
<1>1. SleepTypeOK /\ ListOK(list, dtick) /\ ArmedInv
  BY DEF SleepInv
<1>2. bar = Deadline(list, dtick)
  BY <1>1, BarIs DEF ListOK
<1>3. ASSUME UNCHANGED <<list, dtick>> PROVE bar' = bar
  <2>1. list' = list /\ dtick' = dtick /\ list' \in Seq(Task)
    BY <1>1, <1>3 DEF ListOK
  <2>2. bar' = Deadline(list', dtick')
    BY <2>1, BarNext
  <2> QED
    BY <1>2, <2>1, <2>2
<1>4. ASSUME NEW t \in Task, NEW d \in Delay, SleepDelay(t, d) PROVE Deadlines!Arm
  BY <1>4, SleepAssumption, SuspendMaps DEF SleepDelay
<1>5. ASSUME NEW t \in Periodic, NEW p \in Delay, SleepRelease(t, p) PROVE Deadlines!Arm
  <2> DEFINE next == NextWake(wakeTime[t], globalTick, p)
             delay == TickDelta(next, globalTick)
  <2>1. p \in 1 .. MaxPeriod /\ wakeTime[t] \in 0 .. TickMod - 1 /\ globalTick \in 0 .. TickMod - 1
    BY <1>1, SleepAssumption DEF SleepTypeOK
  <2>2. delay \in 1 .. p
    BY <2>1, NextWakeAhead
  <2>3. Awake(t) /\ SuspendFor(t, delay, "TIME_EVENT", "SLEEPING_RELEASE")
    BY <1>5 DEF SleepRelease
  <2> HIDE DEF delay
  <2>4. delay \in 1 .. MaxPeriod /\ t \in Task
    BY <2>1, <2>2, HalfRange, Members
  <2> QED
    BY <2>3, <2>4, SuspendMaps
<1>6. ASSUME NEW t \in Anchored, NEW p \in Delay, SleepUntil(t, p) PROVE Deadlines!Arm
  <2> DEFINE next == TickAdd(lastTick[t], p)
             delay == TickDelta(next, globalTick)
  <2>1. p \in 1 .. MaxPeriod /\ lastTick[t] \in 0 .. TickMod - 1 /\ globalTick \in 0 .. TickMod - 1
    BY <1>1, SleepAssumption DEF SleepTypeOK
  <2>2. /\ Awake(t) /\ SuspendFor(t, delay, "TIME_EVENT", "SLEEPING_UNTIL")
        /\ ~TickIsElapsed(next, globalTick) /\ delay <= MaxPeriod
    BY <1>6 DEF SleepUntil
  <2>3. next \in 0 .. TickMod - 1
    BY <2>1, TickAddIn
  <2> HIDE DEF next
  <2>4. delay \in 1 .. MaxPeriod
    BY <2>1, <2>2, <2>3, SleepsAhead
  <2> HIDE DEF delay
  <2> QED
    BY <2>2, <2>4, Members, SuspendMaps
<1>7. ASSUME NEW t \in Waiting, NEW w \in Want, EventGetWait(t, w[1], w[2])
      PROVE  Deadlines!Arm \/ bar' = bar
  <2>1. CASE UNCHANGED <<list, dtick, timeoutType, timeOut, wrapped>>
    BY <1>3, <2>1
  <2>2. CASE \E d \in Delay : SuspendFor(t, d, "EVENTFLAGS", "SLEEPING_EV_FLAG")
    <3>1. PICK d \in Delay : SuspendFor(t, d, "EVENTFLAGS", "SLEEPING_EV_FLAG")
      BY <2>2
    <3>2. Awake(t) /\ t \in Task /\ d \in 1 .. MaxPeriod
      BY <1>7, Members, SleepAssumption DEF EventGetWait
    <3> QED
      BY <3>1, <3>2, SuspendMaps
  <2> QED
    BY <1>7, <2>1, <2>2 DEF EventGetWait
<1>8. ASSUME NEW t \in Waiting, NEW m \in Mask, EventSetWakes(t, m)
      PROVE  Deadlines!Disarm \/ bar' = bar
  <2>1. CASE timeoutType[t] = "EVENTFLAGS"
    <3>1. /\ list' = RemoveNode(list, dtick, t).list
          /\ dtick' = RemoveNode(list, dtick, t).dtick
      BY <1>8, <2>1 DEF EventSetWakes
    <3>2. t \in ToSet(list)
      BY <1>1, <2>1, Members DEF ArmedInv
    <3>3. LET r == RemoveNode(list, dtick, t) IN
           /\ ListOK(r.list, r.dtick)
           /\ ToSet(r.list) = ToSet(list) \ {t}
           /\ \A x \in ToSet(r.list) : Rem(r.list, r.dtick, x) = Rem(list, dtick, x)
      BY <1>1, <3>2, DisarmKeeps
    <3>4. /\ ListOK(list', dtick')
          /\ ToSet(list') = ToSet(list) \ {t}
          /\ \A x \in ToSet(list') : Rem(list', dtick', x) = Rem(list, dtick, x)
      BY <3>1, <3>3
    <3>5. bar' = Deadline(list', dtick') /\ DOMAIN bar = ToSet(list)
      BY <1>2, <3>4, BarNext DEF ListOK, Deadline
    <3>6. bar' = [n \in DOMAIN bar \ {t} |-> bar[n]] /\ t \in DOMAIN bar
      BY <1>2, <3>2, <3>4, <3>5 DEF Deadline
    <3>7. \E n \in DOMAIN bar : bar' = [k \in DOMAIN bar \ {n} |-> bar[k]]
      BY <3>6
    <3> QED
      BY <3>7 DEF Deadlines!Disarm, Deadlines!Set, bar
  <2>2. CASE timeoutType[t] # "EVENTFLAGS"
    BY <1>3, <1>8, <2>2 DEF EventSetWakes
  <2> QED
    BY <2>1, <2>2
<1>9. ASSUME HandleTimeoutList PROVE Deadlines!TickOne
  <2> DEFINE down == TickHead(list, dtick)
             due  == Expired(list, down)
             rest == SubSeq(list, Cardinality(due) + 1, Len(list))
  <2>1. list' = rest /\ dtick' = down
    BY <1>9 DEF HandleTimeoutList
  <2>2. /\ ListOK(rest, down)
        /\ due = {x \in ToSet(list) : Rem(list, dtick, x) = 1}
        /\ ToSet(rest) = ToSet(list) \ due
        /\ \A x \in ToSet(rest) : Rem(rest, down, x) = Rem(list, dtick, x) - 1
    BY <1>1, TickKeeps
  <2> HIDE DEF down, due, rest
  <2>3. bar' = Deadline(list', dtick') /\ DOMAIN bar = ToSet(list)
    BY <1>2, <2>1, <2>2, BarNext DEF ListOK, Deadline
  <2>4. \A x \in ToSet(list) : bar[x] = Rem(list, dtick, x) /\ bar[x] \in 1 .. MaxPeriod
    BY <1>1, <1>2 DEF Deadline, ListOK
  <2>5. ToSet(rest) = {n \in DOMAIN bar : bar[n] > 1}
    <3>1. ASSUME NEW x \in ToSet(list) PROVE x \notin due <=> bar[x] > 1
      BY <2>2, <2>4, <3>1, HalfRange
    <3> QED
      BY <2>2, <2>3, <3>1
  <2>6. bar' = [n \in ToSet(rest) |-> bar[n] - 1]
    BY <2>1, <2>2, <2>3, <2>4 DEF Deadline
  <2>7. bar' = [n \in {m \in DOMAIN bar : bar[m] > 1} |-> bar[n] - 1]
    BY <2>5, <2>6
  <2> QED
    BY <2>7 DEF Deadlines!TickOne, bar
<1>10. ASSUME \/ \E t \in Anchored, p \in Delay : SleepUntilAtOnce(t, p)
              \/ \E t \in Waiting, w \in Want :
                    EventGetMet(t, w[1], w[2]) \/ EventGetNotMet(t, w[1], w[2])
              \/ \E t \in Waiting, m \in Mask : EventSetOnly(t, m) \/ EventClear(t, m)
              \/ \E t \in Waiting : EventGetTimeout(t) \/ EventGetResume(t)
              \/ TickCount
              \/ UNCHANGED vars
       PROVE  UNCHANGED <<list, dtick>>
  BY <1>10 DEF SleepUntilAtOnce, EventGetMet, EventGetNotMet, EventSetOnly, EventClear,
               EventGetTimeout, EventGetResume, TickCount, vars, sleepVars
<1> QED
  BY <1>3, <1>4, <1>5, <1>6, <1>7, <1>8, <1>9, <1>10
  DEF SleepNext, Deadlines!DeadlinesNext

(* The delta list keeps every deadline: RK0Sleep implements RK0Deadlines   *)
(* (kTimeoutNodeAdd, kRemoveTimeoutNode, kHandleTimeoutList).              *)
THEOREM SleepImplements == SleepSpec => ImplementsDeadlines
<1>1. SleepInit => Deadlines!DeadlinesInit
  BY SleepInitMaps
<1>2. SleepInv /\ [SleepNext]_vars => [Deadlines!DeadlinesNext]_bar
  BY SleepNextMaps
<1> QED
  BY <1>1, <1>2, SleepInvariance, PTL
  DEF SleepSpec, ImplementsDeadlines, Deadlines!DeadlinesSpec, bar
=============================================================================
