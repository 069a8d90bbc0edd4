-------------------------- MODULE AgentTurnProofs --------------------------
(***************************************************************************)
(* Proofs about AgentTurn, for any batches, outcomes of the tools, limits  *)
(* and bounds.  First what the operators on sequences return (FlattenSeq,  *)
(* the selections, the greatest id), then which histories the repair and   *)
(* the collapses make, then the invariant and one lemma per action.        *)
(***************************************************************************)
EXTENDS AgentTurn, SequenceTheorems, FiniteSetTheorems, WellFoundedInduction, TLAPS

-----------------------------------------------------------------------------
(* Numbers and sequences *)

\* A set of numbers has a least one.
LEMMA LeastNumber ==
    ASSUME NEW S \in SUBSET Nat, S # {}
    PROVE  \E m \in S : \A n \in S : m <= n
<1> DEFINE R == OpToRel(<, Nat)
<1>1. \E m \in S : \A n \in S : ~(<<n, m>> \in R)
  <2> HIDE DEF R
  <2>1. IsWellFoundedOn(R, Nat)
    BY NatLessThanWellFounded DEF R
  <2> QED
    BY <2>1, WFMin
<1>2. \A m, n \in Nat : n < m => <<n, m>> \in R
  BY DEF OpToRel
<1> HIDE DEF R
<1>3. PICK m \in S : \A n \in S : ~(<<n, m>> \in R)
  BY <1>1
<1>4. \A n \in S : m <= n
  <2> SUFFICES ASSUME NEW n \in S PROVE m <= n
    OBVIOUS
  <2>1. m \in Nat /\ n \in Nat /\ ~(n < m)
    BY <1>2, <1>3
  <2> QED
    BY <2>1
<1> QED
  BY <1>4

\* Induction up to n, of a property given as the set of the numbers that have it.
LEMMA UpTo ==
    ASSUME NEW n \in Nat, NEW P, 0 \in P, \A i \in 1..n : i - 1 \in P => i \in P
    PROVE  \A i \in 0..n : i \in P
<1> SUFFICES ASSUME \E i \in 0..n : i \notin P PROVE FALSE
  OBVIOUS
<1> DEFINE T == {i \in 0..n : i \notin P}
<1>1. T \in SUBSET Nat /\ T # {}
  OBVIOUS
<1>2. PICK m \in T : \A y \in T : m <= y
  <2> HIDE DEF T
  <2> QED
    BY <1>1, LeastNumber
<1>3. m \in 1..n /\ m - 1 \in 0..n /\ m - 1 \notin T
  BY <1>2
<1> QED
  BY <1>3

\* Max is the greatest number of a bounded set.
LEMMA GreatestNumber ==
    ASSUME NEW n \in Nat, NEW S \in SUBSET (0..n), S # {}
    PROVE  Max(S) \in S /\ \A x \in S : x <= Max(S)
<1> DEFINE T == {n - x : x \in S}
<1>0. \A x \in S : x \in Nat /\ x <= n /\ n - x \in Nat
  OBVIOUS
<1>1. T \in SUBSET Nat /\ T # {}
  BY <1>0
<1>2. PICK m \in T : \A y \in T : m <= y
  <2> HIDE DEF T
  <2> QED
    BY <1>1, LeastNumber
<1>3. n - m \in S
  <2>1. PICK x \in S : m = n - x
    OBVIOUS
  <2>2. n - m = x
    BY <1>0, <2>1
  <2> QED
    BY <2>2
<1>4. \A x \in S : n - m >= x
  <2> SUFFICES ASSUME NEW x \in S PROVE n - m >= x
    OBVIOUS
  <2>1. n - x \in T
    OBVIOUS
  <2>2. m \in Nat /\ m <= n - x
    BY <1>1, <1>2, <2>1
  <2> HIDE DEF T
  <2> QED
    BY <1>0, <2>2
<1>5. \A x \in S : Max(S) >= x /\ Max(S) \in S
  BY <1>3, <1>4 DEF Max
<1> QED
  BY <1>0, <1>5

\* What FlattenSeq has joined after each of its pieces.
Joins(q, pre) ==
    /\ pre[0] = <<>>
    /\ \A i \in 1..Len(q) : pre[i] = pre[i - 1] \o q[i]

\* What FlattenSeq returns, as the last of the joins of ever longer parts.
LEMMA FlattenJoins ==
    ASSUME NEW S, NEW q \in Seq(Seq(S))
    PROVE  \E pre \in [0..Len(q) -> Seq(S)] : Joins(q, pre) /\ FlattenSeq(q) = pre[Len(q)]
<1> DEFINE n == Len(q)
<1>1. n \in Nat /\ \A i \in 1..n : q[i] \in Seq(S)
  OBVIOUS
<1> DEFINE Upto(m, g) == /\ g \in [0..m -> Seq(S)]
                         /\ g[0] = <<>>
                         /\ \A i \in 1..m : g[i] = g[i - 1] \o q[i]
           P == {m \in 0..n : \E g : Upto(m, g)}
<1>2. 0 \in P
  <2> DEFINE g == [i \in 0..0 |-> <<>>]
  <2>1. g \in [0..0 -> Seq(S)] /\ g[0] = <<>>
    OBVIOUS
  <2>2. Upto(0, g)
    BY <2>1
  <2>3. \E f : Upto(0, f)
    BY <2>2
  <2>4. 0 \in 0..n
    BY <1>1
  <2> HIDE DEF Upto
  <2> QED
    BY <2>3, <2>4
<1>3. ASSUME NEW m \in 1..n, m - 1 \in P
      PROVE  m \in P
  <2>1. PICK g : Upto(m - 1, g)
    BY <1>3
  <2>2. g[m - 1] \o q[m] \in Seq(S)
    BY <1>1, <2>1
  <2> DEFINE v == g[m - 1] \o q[m]
             h == [i \in 0..m |-> IF i = m THEN v ELSE g[i]]
  <2>3. h \in [0..m -> Seq(S)] /\ h[0] = <<>>
    <3> HIDE DEF v
    <3> QED
      BY <2>1, <2>2 DEF v
  <2>4. \A i \in 1..m : h[i] = h[i - 1] \o q[i]
    <3> SUFFICES ASSUME NEW i \in 1..m PROVE h[i] = h[i - 1] \o q[i]
      OBVIOUS
    <3>1. h[i - 1] = g[i - 1]
      OBVIOUS
    <3>2. CASE i = m
      <4>1. h[i] = v
        <5>1. i \in 0..m
          OBVIOUS
        <5> HIDE DEF v
        <5> QED
          BY <3>2, <5>1
      <4> QED
        BY <3>1, <3>2, <4>1
    <3>3. CASE i # m
      <4>1. h[i] = g[i] /\ i \in 1..(m - 1)
        BY <3>3
      <4>2. g[i] = g[i - 1] \o q[i]
        BY <2>1, <4>1
      <4> HIDE DEF h
      <4> QED
        BY <3>1, <4>1, <4>2
    <3> QED
      BY <3>2, <3>3
  <2> HIDE DEF h
  <2>5. Upto(m, h)
    BY <2>3, <2>4
  <2>6. m \in 0..n
    BY <1>1
  <2> HIDE DEF Upto
  <2> QED
    BY <2>5, <2>6
<1>4. n \in P
  <2> HIDE DEF n, P
  <2>1. \A m \in 1..n : m - 1 \in P => m \in P
    BY <1>3
  <2>2. \A i \in 0..n : i \in P
    BY <1>1, <1>2, <2>1, UpTo
  <2> QED
    BY <1>1, <2>2
<1>5. PICK pre : Upto(n, pre)
  BY <1>4
<1> HIDE DEF P
<1>6. CASE n = 0
  <2>1. q = <<>> /\ FlattenSeq(q) = q
    BY <1>6 DEF FlattenSeq
  <2> QED
    BY <1>5, <1>6, <2>1 DEF Joins
<1>7. CASE n # 0
  <2> DEFINE F(f) == [i \in 1..n |-> IF i = 1 THEN q[i] ELSE f[i - 1] \o q[i]]
             fl == CHOOSE f : f = F(f)
             g == [i \in 1..n |-> pre[i]]
  <2>1. \A i \in 1..n : g[i] = IF i = 1 THEN q[i] ELSE g[i - 1] \o q[i]
    <3> SUFFICES ASSUME NEW i \in 1..n PROVE g[i] = IF i = 1 THEN q[i] ELSE g[i - 1] \o q[i]
      OBVIOUS
    <3>1. g[i] = pre[i - 1] \o q[i]
      BY <1>5
    <3>2. CASE i = 1
      <4>1. <<>> \o q[i] = q[i]
        BY <1>1, ConcatEmptySeq
      <4>2. pre[i - 1] = <<>>
        BY <1>5, <3>2
      <4> HIDE DEF g
      <4> QED
        BY <3>1, <3>2, <4>1, <4>2
    <3>3. CASE i # 1
      <4>1. g[i - 1] = pre[i - 1]
        BY <3>3
      <4> HIDE DEF g
      <4> QED
        BY <3>1, <3>3, <4>1
    <3> QED
      BY <3>2, <3>3
  <2>2. g = F(g)
    <3> HIDE DEF g
    <3>1. DOMAIN g = 1..n /\ g = [i \in 1..n |-> g[i]]
      BY DEF g
    <3> QED
      BY <2>1, <3>1
  <2>3. fl = F(fl)
    <3> HIDE DEF g
    <3> QED
      BY <2>2
  <2>4. FlattenSeq(q) = fl[n]
    BY <1>7 DEF FlattenSeq
  <2> HIDE DEF fl, g
  <2> DEFINE Q == {i \in 0..n : i = 0 \/ fl[i] = pre[i]}
  <2>5. 0 \in Q
    BY <1>1
  <2>6. ASSUME NEW i \in 1..n, i - 1 \in Q
        PROVE  i \in Q
    <3>1. fl[i] = IF i = 1 THEN q[i] ELSE fl[i - 1] \o q[i]
      BY <2>3
    <3>0. pre[i] = pre[i - 1] \o q[i]
      <4> HIDE DEF n
      <4> QED
        BY <1>5
    <3>4. i \in 0..n
      BY <1>1
    <3>2. CASE i = 1
      <4>1. <<>> \o q[i] = q[i]
        BY <1>1, ConcatEmptySeq
      <4>2. pre[i - 1] = <<>>
        BY <1>5, <3>2
      <4> QED
        BY <3>0, <3>1, <3>2, <3>4, <4>1, <4>2
    <3>3. CASE i # 1
      <4>1. fl[i - 1] = pre[i - 1]
        BY <2>6, <3>3
      <4> QED
        BY <3>0, <3>1, <3>3, <3>4, <4>1
    <3> QED
      BY <3>2, <3>3
  <2>7. n \in Q
    <3> HIDE DEF n, Q
    <3>1. \A i \in 1..n : i - 1 \in Q => i \in Q
      BY <2>6
    <3>2. \A i \in 0..n : i \in Q
      BY <1>1, <2>5, <3>1, UpTo
    <3> QED
      BY <1>1, <3>2
  <2> QED
    BY <1>5, <1>7, <2>4, <2>7 DEF Joins
<1> QED
  BY <1>6, <1>7

\* Where the elements of two joined sequences are.
LEMMA Joined ==
    ASSUME NEW S, NEW s \in Seq(S), NEW t \in Seq(S)
    PROVE  /\ s \o t \in Seq(S) /\ Len(s \o t) = Len(s) + Len(t)
           /\ \A k \in 1..Len(t) : (s \o t)[Len(s) + k] = t[k]
           /\ \A p \in 1..Len(s) : (s \o t)[p] = s[p]
<1>1. Len(s) \in Nat /\ Len(t) \in Nat
  OBVIOUS
<1>2. ASSUME NEW k \in 1..Len(t)
      PROVE  (s \o t)[Len(s) + k] = t[k]
  <2>1. /\ Len(s) + k \in 1..(Len(s) + Len(t)) /\ ~(Len(s) + k <= Len(s))
        /\ Len(s) + k - Len(s) = k
    BY <1>1
  <2> QED
    BY <2>1, ConcatProperties
<1>3. ASSUME NEW p \in 1..Len(s)
      PROVE  (s \o t)[p] = s[p]
  <2>1. p \in 1..(Len(s) + Len(t)) /\ p <= Len(s)
    BY <1>1
  <2> QED
    BY <2>1, ConcatProperties
<1> QED
  BY <1>2, <1>3, ConcatProperties

\* Where FlattenSeq puts the elements of its pieces: those of piece i come after the
\* first pos[i] elements of the whole.
Places(q, f, pos) ==
    /\ DOMAIN f = 1..Len(f) /\ Len(f) \in Nat /\ Len(q) \in Nat
    /\ \A i \in 1..Len(q) : Len(q[i]) \in Nat
    /\ pos \in [1..(Len(q) + 1) -> Nat]
    /\ pos[1] = 0 /\ pos[Len(q) + 1] = Len(f)
    /\ \A i \in 1..Len(q) : pos[i + 1] = pos[i] + Len(q[i])
    /\ \A i, j \in 1..(Len(q) + 1) : i < j => pos[i] + Len(q[i]) <= pos[j]
    /\ \A i \in 1..Len(q) : \A k \in 1..Len(q[i]) : f[pos[i] + k] = q[i][k]
    /\ \A p \in 1..Len(f) : \E i \in 1..Len(q) : \E k \in 1..Len(q[i]) : p = pos[i] + k

\* Every part of a flattened sequence has its place in it, and nothing else is there.
LEMMA FlattenPlaces ==
    ASSUME NEW S, NEW q \in Seq(Seq(S))
    PROVE  /\ FlattenSeq(q) \in Seq(S)
           /\ \E pos : Places(q, FlattenSeq(q), pos)
<1> DEFINE n == Len(q)
<1>1. n \in Nat /\ \A i \in 1..n : q[i] \in Seq(S) /\ Len(q[i]) \in Nat
  OBVIOUS
<1>2. PICK pre \in [0..n -> Seq(S)] : Joins(q, pre) /\ FlattenSeq(q) = pre[n]
  BY FlattenJoins
<1> HIDE DEF n
<1>3. pre[0] = <<>> /\ \A i \in 1..n : pre[i] = pre[i - 1] \o q[i]
  BY <1>2 DEF Joins, n
<1>4. \A i \in 0..n : pre[i] \in Seq(S) /\ Len(pre[i]) \in Nat
  BY <1>2
<1> DEFINE a == [i \in 1..(n + 1) |-> Len(pre[i - 1])]
<1>5. a \in [1..(n + 1) -> Nat] /\ \A i \in 0..n : a[i + 1] = Len(pre[i])
  <2>1. \A i \in 1..(n + 1) : i - 1 \in 0..n
    BY <1>1
  <2> QED
    BY <1>1, <1>4, <2>1
<1> HIDE DEF a
<1>6. ASSUME NEW i \in 1..n
      PROVE  /\ a[i] \in Nat /\ a[i + 1] = a[i] + Len(q[i])
             /\ Len(pre[i]) = a[i + 1] /\ Len(pre[i - 1]) = a[i]
             /\ \A k \in 1..Len(q[i]) : pre[i][a[i] + k] = q[i][k]
             /\ \A p \in 1..a[i] : pre[i][p] = pre[i - 1][p]
  <2>1. i - 1 \in 0..n /\ i \in 0..n /\ (i - 1) + 1 = i
    BY <1>1
  <2>2. a[i] = Len(pre[i - 1]) /\ a[i + 1] = Len(pre[i])
    BY <1>5, <2>1
  <2>3. pre[i - 1] \in Seq(S) /\ q[i] \in Seq(S) /\ pre[i] = pre[i - 1] \o q[i]
    BY <1>1, <1>3, <1>4, <2>1
  <2>4. Len(pre[i]) = Len(pre[i - 1]) + Len(q[i])
    BY <2>3, ConcatProperties
  <2>6. Len(pre[i - 1]) \in Nat /\ Len(q[i]) \in Nat
    BY <2>3
  <2>7. /\ \A k \in 1..Len(q[i]) : pre[i][Len(pre[i - 1]) + k] = q[i][k]
        /\ \A p \in 1..Len(pre[i - 1]) : pre[i][p] = pre[i - 1][p]
    <3> DEFINE s == pre[i - 1]
               t == q[i]
    <3>1. s \in Seq(S) /\ t \in Seq(S) /\ pre[i] = s \o t
      BY <2>3
    <3> HIDE DEF s, t
    <3>2. /\ \A k \in 1..Len(t) : (s \o t)[Len(s) + k] = t[k]
          /\ \A p \in 1..Len(s) : (s \o t)[p] = s[p]
      BY <3>1, Joined
    <3> QED
      BY <3>1, <3>2 DEF s, t
  <2> QED
    BY <2>2, <2>4, <2>6, <2>7
<1> DEFINE
    Within(m) == /\ \A i \in 1..m : a[i] + Len(q[i]) <= a[m + 1]
                 /\ \A i \in 1..m : \A k \in 1..Len(q[i]) : pre[m][a[i] + k] = q[i][k]
                 /\ \A p \in 1..a[m + 1] :
                       \E i \in 1..m : \E k \in 1..Len(q[i]) : p = a[i] + k
    P == {m \in 0..n : Within(m)}
<1>7. 0 \in P /\ a[1] = 0
  <2>1. a[0 + 1] = 0
    BY <1>1, <1>3, <1>5
  <2> QED
    BY <1>1, <2>1
<1>8. ASSUME NEW m \in 1..n, m - 1 \in P
      PROVE  m \in P
  <2>1. Within(m - 1) /\ (m - 1) + 1 = m /\ m \in 0..n
    BY <1>1, <1>8
  <2>2. /\ a[m] \in Nat /\ a[m + 1] = a[m] + Len(q[m]) /\ Len(q[m]) \in Nat
        /\ \A k \in 1..Len(q[m]) : pre[m][a[m] + k] = q[m][k]
        /\ \A p \in 1..a[m] : pre[m][p] = pre[m - 1][p]
    BY <1>1, <1>6
  <2>3. ASSUME NEW i \in 1..m
        PROVE  /\ a[i] + Len(q[i]) <= a[m + 1]
               /\ \A k \in 1..Len(q[i]) : pre[m][a[i] + k] = q[i][k]
    <3>1. CASE i = m
      BY <2>2, <3>1
    <3>2. CASE i # m
      <4>1. i \in 1..(m - 1) /\ i \in 1..n
        BY <1>1, <3>2
      <4>2. a[i] \in Nat /\ Len(q[i]) \in Nat
        BY <1>1, <1>6, <4>1
      <4>3. a[i] + Len(q[i]) <= a[m]
        BY <2>1, <4>1
      <4>4. ASSUME NEW k \in 1..Len(q[i])
            PROVE  pre[m][a[i] + k] = q[i][k]
        <5>1. a[i] + k \in 1..a[m]
          BY <2>2, <4>2, <4>3, SMTT(30)
        <5>2. pre[m - 1][a[i] + k] = q[i][k]
          BY <2>1, <4>1
        <5> QED
          BY <2>2, <5>1, <5>2
      <4> QED
        BY <2>2, <4>2, <4>3, <4>4, SMTT(30)
    <3> QED
      BY <3>1, <3>2
  <2>4. ASSUME NEW p \in 1..a[m + 1]
        PROVE  \E i \in 1..m : \E k \in 1..Len(q[i]) : p = a[i] + k
    <3>1. CASE p <= a[m]
      <4>1. p \in 1..a[m]
        BY <2>2, <3>1
      <4>2. PICK i \in 1..(m - 1) : \E k \in 1..Len(q[i]) : p = a[i] + k
        BY <2>1, <4>1
      <4>3. i \in 1..m
        OBVIOUS
      <4> QED
        BY <4>2, <4>3
    <3>2. CASE p > a[m]
      <4>1. p - a[m] \in 1..Len(q[m]) /\ p = a[m] + (p - a[m])
        BY <2>2, <3>2
      <4>2. m \in 1..m
        OBVIOUS
      <4> QED
        BY <4>1, <4>2
    <3> QED
      BY <2>2, <3>1, <3>2
  <2>5. Within(m)
    BY <2>3, <2>4
  <2> HIDE DEF Within
  <2> QED
    BY <2>1, <2>5
<1>9. \A m \in 0..n : Within(m)
  <2> HIDE DEF P
  <2>1. \A i \in 0..n : i \in P
    BY <1>1, <1>7, <1>8, UpTo
  <2> QED
    BY <2>1 DEF P
<1>10. n \in 0..n /\ FlattenSeq(q) = pre[n] /\ pre[n] \in Seq(S) /\ Len(pre[n]) = a[n + 1]
  BY <1>1, <1>2, <1>4, <1>5
<1>11. ASSUME NEW i \in 1..(n + 1), NEW j \in 1..(n + 1), i < j
       PROVE  a[i] + Len(q[i]) <= a[j]
  <2>1. j - 1 \in 0..n /\ i \in 1..(j - 1) /\ (j - 1) + 1 = j
    BY <1>1, <1>11
  <2> QED
    BY <1>9, <2>1
<1>12. Places(q, pre[n], a)
  <2> HIDE DEF P
  <2>1. Within(n)
    BY <1>9, <1>10
  <2>2. \A i \in 1..n : a[i + 1] = a[i] + Len(q[i])
    BY <1>6
  <2> QED
    BY <1>5, <1>7, <1>10, <1>11, <2>1, <2>2 DEF Places, n
<1> QED
  BY <1>10, <1>12

\* A part is found at its place.
LEMMA PlaceIn ==
    ASSUME NEW q, NEW f, NEW pos, Places(q, f, pos),
           NEW i \in 1..Len(q)
    PROVE  /\ pos[i] \in Nat /\ pos[i + 1] \in Nat
           /\ pos[i + 1] = pos[i] + Len(q[i]) /\ Len(q[i]) \in Nat
           /\ \A k \in 1..Len(q[i]) : pos[i] + k \in DOMAIN f /\ f[pos[i] + k] = q[i][k]
<1>1. Len(q) \in Nat /\ Len(f) \in Nat /\ DOMAIN f = 1..Len(f)
  BY DEF Places
<1>2. i \in 1..(Len(q) + 1) /\ i + 1 \in 1..(Len(q) + 1)
  BY <1>1
<1>3. pos[i] \in Nat /\ pos[i + 1] \in Nat /\ pos[i + 1] = pos[i] + Len(q[i])
  BY <1>2 DEF Places
<1>4. Len(q[i]) \in Nat
  BY DEF Places
<1>5. ASSUME NEW k \in 1..Len(q[i])
      PROVE  pos[i] + k \in DOMAIN f /\ f[pos[i] + k] = q[i][k]
  <2>1. Len(q) + 1 \in 1..(Len(q) + 1) /\ i < Len(q) + 1
    BY <1>1
  <2>2. pos[i] + Len(q[i]) <= pos[Len(q) + 1] /\ pos[Len(q) + 1] = Len(f)
    BY <1>2, <2>1 DEF Places
  <2>3. pos[i] + k \in 1..Len(f)
    BY <1>1, <1>3, <1>4, <2>2
  <2> QED
    BY <1>1, <2>3 DEF Places
<1> QED
  BY <1>3, <1>4, <1>5

\* What is found at a position is of the part that has its place there.
LEMMA PlaceOf ==
    ASSUME NEW q, NEW f, NEW pos, Places(q, f, pos),
           NEW p \in DOMAIN f
    PROVE  \E i \in 1..Len(q) : \E k \in 1..Len(q[i]) : p = pos[i] + k /\ f[p] = q[i][k]
<1>1. DOMAIN f = 1..Len(f)
  BY DEF Places
<1>2. PICK i \in 1..Len(q) : \E k \in 1..Len(q[i]) : p = pos[i] + k
  BY <1>1 DEF Places
<1>3. PICK k \in 1..Len(q[i]) : p = pos[i] + k
  BY <1>2
<1>4. f[pos[i] + k] = q[i][k]
  BY DEF Places
<1> QED
  BY <1>3, <1>4

-----------------------------------------------------------------------------
(* The operators of the model *)

Call == [id : Nat, tool : STRING]

OneEach(calls) == \A k, l \in DOMAIN calls : calls[k].id = calls[l].id => k = l

\* Those keeps exactly the calls with the ids.
LEMMA ThoseIs ==
    ASSUME NEW calls \in Seq(Call), NEW ids
    PROVE  /\ Those(calls, ids) \in Seq(Call)
           /\ Ids(Those(calls, ids)) = Ids(calls) \cap ids
           /\ OneEach(calls) => OneEach(Those(calls, ids))
<1> DEFINE q == [k \in DOMAIN calls |-> IF calls[k].id \in ids THEN <<calls[k]>> ELSE <<>>]
           f == FlattenSeq(q)
<1>1. DOMAIN calls = 1..Len(calls) /\ Len(calls) \in Nat /\ \A k \in 1..Len(calls) : calls[k] \in Call
  OBVIOUS
<1>2. q \in Seq(Seq(Call)) /\ Len(q) = Len(calls)
  <2>1. \A k \in 1..Len(calls) : q[k] \in Seq(Call)
    BY <1>1
  <2> QED
    BY <1>1, <2>1
<1>3. \A k \in 1..Len(calls) : q[k] = IF calls[k].id \in ids THEN <<calls[k]>> ELSE <<>>
  BY <1>1
<1>4. Those(calls, ids) = f
  BY DEF Those
<1> HIDE DEF q
<1>5. PICK pos : Places(q, f, pos)
  BY <1>2, FlattenPlaces
<1>6. f \in Seq(Call)
  BY <1>2, FlattenPlaces
<1>7. DOMAIN f = 1..Len(f)
  BY <1>6
<1> HIDE DEF f
<1>8. ASSUME NEW p \in DOMAIN f
      PROVE  \E k \in 1..Len(calls) : p = pos[k] + 1 /\ f[p] = calls[k] /\ calls[k].id \in ids
  <2>1. PICK k \in 1..Len(calls) : \E l \in 1..Len(q[k]) : p = pos[k] + l /\ f[p] = q[k][l]
    <3>1. \A r \in DOMAIN f :
             \E i \in 1..Len(q) : \E k \in 1..Len(q[i]) : r = pos[i] + k /\ f[r] = q[i][k]
      BY <1>5, PlaceOf
    <3> QED
      BY <1>2, <3>1
  <2>2. PICK l \in 1..Len(q[k]) : p = pos[k] + l /\ f[p] = q[k][l]
    BY <2>1
  <2>3. calls[k].id \in ids
    <3> SUFFICES ASSUME calls[k].id \notin ids PROVE FALSE
      OBVIOUS
    <3>1. q[k] = <<>>
      BY <1>3
    <3> QED
      BY <2>2, <3>1
  <2>4. q[k] = <<calls[k]>>
    BY <1>3, <2>3
  <2>5. l = 1 /\ q[k][l] = calls[k]
    BY <2>2, <2>4
  <2> QED
    BY <2>2, <2>3, <2>5
<1>9. ASSUME NEW k \in 1..Len(calls), calls[k].id \in ids
      PROVE  \E p \in DOMAIN f : f[p] = calls[k]
  <2>1. q[k] = <<calls[k]>>
    BY <1>3, <1>9
  <2>2. 1 \in 1..Len(q[k]) /\ q[k][1] = calls[k]
    BY <2>1
  <2>3. pos[k] + 1 \in DOMAIN f /\ f[pos[k] + 1] = q[k][1]
    BY <1>2, <1>5, <2>2, PlaceIn
  <2> QED
    BY <2>2, <2>3
<1>10. Ids(f) = Ids(calls) \cap ids
  BY <1>1, <1>8, <1>9, SMTT(30) DEF Ids
<1>11. ASSUME OneEach(calls), NEW p \in DOMAIN f, NEW r \in DOMAIN f, f[p].id = f[r].id
       PROVE  p = r
  <2>1. PICK k \in 1..Len(calls) : p = pos[k] + 1 /\ f[p] = calls[k]
    BY <1>8
  <2>2. PICK l \in 1..Len(calls) : r = pos[l] + 1 /\ f[r] = calls[l]
    BY <1>8
  <2>3. k = l
    BY <1>1, <1>11, <2>1, <2>2 DEF OneEach
  <2> QED
    BY <2>1, <2>2, <2>3
<1>12. OneEach(calls) => OneEach(f)
  BY <1>11 DEF OneEach
<1> QED
  BY <1>4, <1>6, <1>10, <1>12

\* LastOf is the last message of the sender, 0 if there is none.
LEMMA LastOfIs ==
    ASSUME NEW h \in Seq(Message), NEW who
    PROVE  /\ LastOf(h, who) \in 0..Len(h)
           /\ LastOf(h, who) # 0 => h[LastOf(h, who)].who = who
           /\ \A i \in 1..Len(h) : h[i].who = who => i <= LastOf(h, who)
<1> DEFINE I == {i \in 1..Len(h) : h[i].who = who}
<1>1. LastOf(h, who) = IF I # {} THEN Max(I) ELSE 0
  BY DEF LastOf, SelectLastInSeq
<1>2. Len(h) \in Nat /\ I \in SUBSET (0..Len(h))
  OBVIOUS
<1>3. I # {} => Max(I) \in I /\ \A x \in I : x <= Max(I)
  <2> HIDE DEF I
  <2> QED
    BY <1>2, GreatestNumber
<1>4. CASE I = {}
  <2>1. LastOf(h, who) = 0
    BY <1>1, <1>4
  <2>2. \A i \in 1..Len(h) : h[i].who # who
    BY <1>4
  <2> QED
    BY <1>2, <2>1, <2>2
<1>5. CASE I # {}
  <2>1. LastOf(h, who) = Max(I)
    BY <1>1, <1>5
  <2>2. \A i \in 1..Len(h) : h[i].who = who => i \in I
    OBVIOUS
  <2>3. Max(I) \in 1..Len(h) /\ h[Max(I)].who = who
    BY <1>3, <1>5
  <2> HIDE DEF I
  <2> QED
    BY <1>2, <1>3, <1>5, <2>1, <2>2, <2>3
<1> QED
  BY <1>4, <1>5

\* Block is the last message before i that is no result, 0 if there is none.
LEMMA BlockIs ==
    ASSUME NEW h \in Seq(Message), NEW i \in 1..Len(h)
    PROVE  /\ Block(h, i) \in 0..(i - 1)
           /\ Block(h, i) # 0 => h[Block(h, i)].who # "tool"
           /\ \A j \in 1..(i - 1) : h[j].who # "tool" => j <= Block(h, i)
<1> DEFINE s == SubSeq(h, 1, i - 1)
           I == {j \in 1..Len(s) : s[j].who # "tool"}
<1>1. Len(s) = i - 1 /\ \A j \in 1..(i - 1) : s[j] = h[j]
  OBVIOUS
<1>2. Block(h, i) = IF I # {} THEN Max(I) ELSE 0
  BY DEF Block, SelectLastInSeq
<1> HIDE DEF s
<1>3. i - 1 \in Nat /\ I = {j \in 1..(i - 1) : h[j].who # "tool"}
  BY <1>1
<1> HIDE DEF I
<1>4. I \in SUBSET (0..(i - 1))
  BY <1>3
<1>5. I # {} => Max(I) \in I /\ \A x \in I : x <= Max(I)
  BY <1>3, <1>4, GreatestNumber
<1>6. CASE I = {}
  BY <1>2, <1>3, <1>6
<1>7. CASE I # {}
  <2>1. Block(h, i) = Max(I) /\ Max(I) \in I
    BY <1>2, <1>5, <1>7
  <2>2. Max(I) \in 1..(i - 1) /\ h[Max(I)].who # "tool"
    BY <1>3, <2>1
  <2>3. \A j \in 1..(i - 1) : h[j].who # "tool" => j <= Max(I)
    BY <1>3, <1>5, <1>7
  <2> QED
    BY <2>1, <2>2, <2>3
<1> QED
  BY <1>6, <1>7

\* Finitely many numbers have a bound.
LEMMA Bounded ==
    ASSUME NEW n \in Nat, NEW f \in [1..n -> Nat]
    PROVE  \E m \in Nat : \A i \in 1..n : f[i] <= m
<1> DEFINE P == {j \in 0..n : \E m \in Nat : \A i \in 1..j : f[i] <= m}
<1>1. 0 \in P
  <2>1. \A i \in 1..0 : f[i] <= 0
    OBVIOUS
  <2> QED
    BY <2>1
<1>2. ASSUME NEW j \in 1..n, j - 1 \in P
      PROVE  j \in P
  <2>1. PICK m \in Nat : \A i \in 1..(j - 1) : f[i] <= m
    BY <1>2
  <2>2. f[j] \in Nat
    OBVIOUS
  <2>3. m + f[j] \in Nat /\ \A i \in 1..j : f[i] <= m + f[j]
    <3> SUFFICES ASSUME NEW i \in 1..j PROVE f[i] <= m + f[j]
      BY <2>1, <2>2
    <3>1. i = j \/ i \in 1..(j - 1)
      OBVIOUS
    <3>2. f[i] \in Nat
      OBVIOUS
    <3> QED
      BY <2>1, <2>2, <3>1, <3>2
  <2> QED
    BY <2>3
<1>3. \A j \in 0..n : j \in P
  <2> HIDE DEF P
  <2> QED
    BY <1>1, <1>2, UpTo
<1>4. n \in 0..n
  OBVIOUS
<1>5. \E m \in Nat : \A i \in 1..n : f[i] <= m
  BY <1>3, <1>4
<1> QED
  BY <1>5

\* LastId is the greatest id of a call, 0 if there is none.
LEMMA LastIdIs ==
    ASSUME NEW h \in Seq(Message)
    PROVE  /\ LastId(h) \in Nat
           /\ \A i \in 1..Len(h) : \A c \in Ids(h[i].calls) : c \in Nat /\ c <= LastId(h)
           /\ LastId(h) = 0 \/ \E i \in 1..Len(h) : LastId(h) \in Ids(h[i].calls)
<1> DEFINE S == {0} \cup UNION {Ids(h[i].calls) : i \in DOMAIN h}
<1>1. DOMAIN h = 1..Len(h) /\ Len(h) \in Nat
  OBVIOUS
<1>2. ASSUME NEW i \in 1..Len(h)
      PROVE  \E m \in Nat : \A c \in Ids(h[i].calls) : c \in Nat /\ c <= m
  <2>1. h[i].calls \in Seq([id : Nat, tool : STRING])
    <3>1. h[i] \in Message
      BY <1>1
    <3> QED
      BY <3>1 DEF Message
  <2> DEFINE calls == h[i].calls
             f == [k \in 1..Len(calls) |-> calls[k].id]
  <2>2. Len(calls) \in Nat /\ DOMAIN calls = 1..Len(calls) /\ f \in [1..Len(calls) -> Nat]
    <3> HIDE DEF calls
    <3>1. calls \in Seq([id : Nat, tool : STRING])
      BY <2>1 DEF calls
    <3>2. Len(calls) \in Nat /\ DOMAIN calls = 1..Len(calls)
      BY <3>1
    <3>3. \A k \in 1..Len(calls) : calls[k].id \in Nat
      <4> SUFFICES ASSUME NEW k \in 1..Len(calls) PROVE calls[k].id \in Nat
        OBVIOUS
      <4>1. calls[k] \in [id : Nat, tool : STRING]
        BY <3>1, ElementOfSeq
      <4> QED
        BY <4>1
    <3> QED
      BY <3>2, <3>3
  <2>3. PICK m \in Nat : \A k \in 1..Len(calls) : f[k] <= m
    <3> HIDE DEF f, calls
    <3> QED
      BY <2>2, Bounded
  <2> QED
    BY <2>2, <2>3 DEF Ids
<1> DEFINE top == [i \in 1..Len(h) |->
                      CHOOSE m \in Nat : \A c \in Ids(h[i].calls) : c \in Nat /\ c <= m]
<1>3. top \in [1..Len(h) -> Nat]
      /\ \A i \in 1..Len(h) : \A c \in Ids(h[i].calls) : c \in Nat /\ c <= top[i]
  <2>1. \A i \in 1..Len(h) :
           (CHOOSE m \in Nat : \A c \in Ids(h[i].calls) : c \in Nat /\ c <= m) \in Nat
           /\ \A c \in Ids(h[i].calls) : c \in Nat
                 /\ c <= CHOOSE m \in Nat : \A d \in Ids(h[i].calls) : d \in Nat /\ d <= m
    BY <1>2
  <2> QED
    BY <2>1
<1> HIDE DEF top
<1>4. PICK n \in Nat : \A i \in 1..Len(h) : top[i] <= n
  BY <1>1, <1>3, Bounded
<1>5. ASSUME NEW i \in 1..Len(h), NEW c \in Ids(h[i].calls)
      PROVE  c \in 0..n
  <2>1. c \in Nat /\ c <= top[i] /\ top[i] \in Nat /\ top[i] <= n
    BY <1>3, <1>4
  <2> QED
    BY <2>1
<1>6. S \in SUBSET (0..n) /\ S # {}
  BY <1>1, <1>5
<1>7. LastId(h) = Max(S)
  BY DEF LastId
<1>8. Max(S) \in S /\ \A x \in S : x <= Max(S)
  <2> HIDE DEF S
  <2> QED
    BY <1>6, GreatestNumber
<1>9. \A i \in 1..Len(h) : \A c \in Ids(h[i].calls) : c \in S
  BY <1>1
<1>10. Max(S) = 0 \/ \E i \in 1..Len(h) : Max(S) \in Ids(h[i].calls)
  BY <1>1, <1>8
<1> HIDE DEF S
<1>11. Max(S) \in Nat
  <2>1. \A x \in S : x \in 0..n
    BY <1>6
  <2>2. Max(S) \in S
    BY <1>8
  <2>3. Max(S) \in 0..n
    BY <2>1, <2>2
  <2> QED
    BY <2>3
<1>12. ASSUME NEW i \in 1..Len(h), NEW c \in Ids(h[i].calls)
       PROVE  c \in Nat /\ c <= Max(S)
  <2>1. c \in S
    BY <1>9
  <2> QED
    BY <1>6, <1>8, <2>1
<1> QED
  BY <1>7, <1>10, <1>11, <1>12

-----------------------------------------------------------------------------
(* Histories *)

\* The message at j answers a call of a message from which on there are only results,
\* none of them to the same call.
Owned(h, j) ==
    \E b \in 1..(j - 1) :
        /\ j \in ResultsAfter(h, b)
        /\ h[j].to \in Ids(h[b].calls)
        /\ \A m \in (b + 1)..(j - 1) : h[m].to # h[j].to

Plain(m) == (m.who # "ai" => m.calls = <<>>) /\ OneEach(m.calls)

\* Every result answers a call, and no two the same.
Shaped(h) ==
    /\ \A i \in DOMAIN h : Plain(h[i])
    /\ \A i \in DOMAIN h : h[i].who = "tool" => Owned(h, i)

\* Every call of the message at i is answered in the results that follow it.
Closed(h, i) == Ids(h[i].calls) \subseteq {h[j].to : j \in ResultsAfter(h, i)}
AllClosed(h) == \A i \in DOMAIN h : Closed(h, i)

\* Nothing but its results follow the AI message at a, and those before it are closed.
OpenLast(h, a) ==
    /\ a \in DOMAIN h
    /\ h[a].who = "ai"
    /\ \A j \in (a + 1)..Len(h) : h[j].who = "tool"
    /\ \A i \in 1..(a - 1) : Closed(h, i)
Unanswered(h, a) == Ids(h[a].calls) \ {h[j].to : j \in (a + 1)..Len(h)}

\* What comes after a history changes nothing of what its messages have been answered.
LEMMA Prefix ==
    ASSUME NEW h \in Seq(Message), NEW g \in Seq(Message),
           Len(h) <= Len(g), \A i \in 1..Len(h) : g[i] = h[i],
           NEW i \in 1..Len(h)
    PROVE  /\ ResultsAfter(h, i) \subseteq ResultsAfter(g, i)
           /\ Owned(h, i) => Owned(g, i)
           /\ Closed(h, i) => Closed(g, i)
<1>1. Len(h) \in Nat /\ Len(g) \in Nat
  OBVIOUS
<1>2. \A b \in 1..Len(h) : ResultsAfter(h, b) \subseteq ResultsAfter(g, b)
  <2> SUFFICES ASSUME NEW b \in 1..Len(h), NEW j \in ResultsAfter(h, b)
               PROVE  j \in ResultsAfter(g, b)
    OBVIOUS
  <2>1. j \in (b + 1)..Len(h) /\ \A k \in (b + 1)..j : h[k].who = "tool"
    BY DEF ResultsAfter
  <2>2. j \in (b + 1)..Len(g) /\ \A k \in (b + 1)..j : g[k] = h[k]
    BY <1>1, <2>1
  <2> QED
    BY <2>1, <2>2 DEF ResultsAfter
<1>3. ASSUME Owned(h, i) PROVE Owned(g, i)
  <2>1. PICK b \in 1..(i - 1) : /\ i \in ResultsAfter(h, b)
                               /\ h[i].to \in Ids(h[b].calls)
                               /\ \A m \in (b + 1)..(i - 1) : h[m].to # h[i].to
    BY <1>3 DEF Owned
  <2>2. b \in 1..Len(h) /\ g[b] = h[b] /\ g[i] = h[i]
    BY <1>1
  <2>3. \A m \in (b + 1)..(i - 1) : g[m] = h[m]
    BY <1>1
  <2>4. i \in ResultsAfter(g, b)
    BY <1>2, <2>1, <2>2
  <2> QED
    BY <2>1, <2>2, <2>3, <2>4 DEF Owned
<1>4. ASSUME Closed(h, i) PROVE Closed(g, i)
  <2> SUFFICES ASSUME NEW c \in Ids(g[i].calls)
               PROVE  c \in {g[j].to : j \in ResultsAfter(g, i)}
    BY DEF Closed
  <2>1. PICK j \in ResultsAfter(h, i) : c = h[j].to
    BY <1>4 DEF Closed
  <2>2. j \in ResultsAfter(g, i) /\ j \in 1..Len(h)
    BY <1>1, <1>2 DEF ResultsAfter
  <2> QED
    BY <2>1, <2>2
<1> QED
  BY <1>2, <1>3, <1>4

\* A message that is no result is appended.
LEMMA AppendKeeps ==
    ASSUME NEW h \in Seq(Message), Shaped(h), NEW m \in Message, Plain(m), m.who # "tool"
    PROVE  /\ Append(h, m) \in Seq(Message) /\ Shaped(Append(h, m))
           /\ Len(Append(h, m)) = Len(h) + 1 /\ Append(h, m)[Len(h) + 1] = m
           /\ \A i \in 1..Len(h) : Append(h, m)[i] = h[i]
           /\ AllClosed(h) => \A i \in 1..Len(h) : Closed(Append(h, m), i)
<1> DEFINE g == Append(h, m)
<1>1. g \in Seq(Message) /\ Len(g) = Len(h) + 1 /\ g[Len(h) + 1] = m
      /\ (\A i \in 1..Len(h) : g[i] = h[i]) /\ Len(h) \in Nat
      /\ DOMAIN h = 1..Len(h) /\ DOMAIN g = 1..(Len(h) + 1)
  OBVIOUS
<1> HIDE DEF g
<1>2. \A i \in 1..Len(h) : (Owned(h, i) => Owned(g, i)) /\ (Closed(h, i) => Closed(g, i))
  BY <1>1, Prefix
<1>3. \A i \in DOMAIN g : i \in 1..Len(h) \/ i = Len(h) + 1
  BY <1>1
<1>4. \A i \in DOMAIN g : Plain(g[i])
  BY <1>1, <1>3 DEF Shaped
<1>5. \A i \in DOMAIN g : g[i].who = "tool" => Owned(g, i)
  BY <1>1, <1>2, <1>3 DEF Shaped
<1>6. AllClosed(h) => \A i \in 1..Len(h) : Closed(g, i)
  BY <1>1, <1>2 DEF AllClosed
<1> QED
  BY <1>1, <1>4, <1>5, <1>6 DEF Shaped, g

\* Results for calls that had none are appended.
LEMMA ResultsKeep ==
    ASSUME NEW h \in Seq(Message), NEW r \in Seq(Message), Shaped(h),
           NEW a, OpenLast(h, a),
           \A k \in 1..Len(r) : /\ r[k].who = "tool" /\ r[k].calls = <<>>
                                /\ r[k].to \in Unanswered(h, a),
           \A k, l \in 1..Len(r) : r[k].to = r[l].to => k = l
    PROVE  /\ h \o r \in Seq(Message) /\ Shaped(h \o r) /\ OpenLast(h \o r, a)
           /\ Len(h \o r) = Len(h) + Len(r) /\ (h \o r)[a] = h[a]
           /\ \A i \in 1..Len(h) : (h \o r)[i] = h[i]
           /\ Unanswered(h \o r, a) = Unanswered(h, a) \ {r[k].to : k \in 1..Len(r)}
<1> DEFINE g == h \o r
<1>1. /\ g \in Seq(Message) /\ Len(g) = Len(h) + Len(r)
      /\ \A k \in 1..Len(r) : g[Len(h) + k] = r[k]
      /\ \A i \in 1..Len(h) : g[i] = h[i]
  BY Joined
<1>2. /\ Len(h) \in Nat /\ Len(r) \in Nat /\ DOMAIN h = 1..Len(h)
  OBVIOUS
<1> HIDE DEF g
<1>3. DOMAIN g = 1..(Len(h) + Len(r)) /\ Len(h) <= Len(g)
  BY <1>1, <1>2
<1>4. ASSUME NEW i \in DOMAIN g
      PROVE  i \in 1..Len(h) \/ \E k \in 1..Len(r) : i = Len(h) + k
  <2>1. CASE i <= Len(h)
    BY <1>2, <1>3, <2>1
  <2>2. CASE i > Len(h)
    <3>1. i - Len(h) \in 1..Len(r) /\ i = Len(h) + (i - Len(h))
      BY <1>2, <1>3, <2>2
    <3> QED
      BY <3>1
  <2> QED
    BY <1>2, <1>3, <2>1, <2>2
<1>5. a \in 1..Len(h) /\ g[a] = h[a] /\ h[a].who = "ai"
  BY <1>1, <1>2 DEF OpenLast
<1>6. \A j \in (a + 1)..Len(g) : g[j].who = "tool"
  <2> SUFFICES ASSUME NEW j \in (a + 1)..Len(g) PROVE g[j].who = "tool"
    OBVIOUS
  <2>1. j \in DOMAIN g /\ (j \in 1..Len(h) => j \in (a + 1)..Len(h))
    BY <1>1, <1>2, <1>3, <1>5
  <2>2. CASE j \in 1..Len(h)
    BY <1>1, <2>1, <2>2 DEF OpenLast
  <2>3. CASE \E k \in 1..Len(r) : j = Len(h) + k
    BY <1>1, <2>3
  <2> QED
    BY <1>4, <2>1, <2>2, <2>3
<1>7. \A i \in 1..Len(h) : (Owned(h, i) => Owned(g, i)) /\ (Closed(h, i) => Closed(g, i))
  BY <1>1, <1>3, Prefix
<1>8. ASSUME NEW k \in 1..Len(r)
      PROVE  Owned(g, Len(h) + k)
  <2> DEFINE j == Len(h) + k
  <2>1. j \in (a + 1)..Len(g) /\ a \in 1..(j - 1) /\ g[j] = r[k]
    BY <1>1, <1>2, <1>5
  <2>2. j \in ResultsAfter(g, a)
    <3>1. \A m \in (a + 1)..j : m \in (a + 1)..Len(g)
      BY <1>2, <1>1, <2>1
    <3> HIDE DEF j
    <3> QED
      BY <1>6, <2>1, <3>1 DEF ResultsAfter
  <2>3. g[j].to \in Ids(g[a].calls)
    BY <1>5, <2>1 DEF Unanswered
  <2>4. ASSUME NEW m \in (a + 1)..(j - 1)
        PROVE  g[m].to # g[j].to
    <3>1. m \in DOMAIN g
      BY <1>1, <1>2, <1>3, <1>5
    <3>2. CASE m \in 1..Len(h)
      <4>1. m \in (a + 1)..Len(h) /\ g[m] = h[m]
        BY <1>1, <1>2, <1>5, <3>2
      <4> QED
        BY <2>1, <4>1 DEF Unanswered
    <3>3. ASSUME NEW l \in 1..Len(r), m = Len(h) + l
          PROVE  g[m].to # g[j].to
      <4>1. l # k
        BY <1>2, <3>3
      <4>2. g[m] = r[l]
        BY <1>1, <3>3
      <4> QED
        BY <2>1, <4>1, <4>2
    <3> QED
      BY <1>4, <3>1, <3>2, <3>3
  <2> HIDE DEF j
  <2>5. Owned(g, j)
    BY <2>1, <2>2, <2>3, <2>4 DEF Owned
  <2> QED
    BY <2>5 DEF j
<1>9. \A k \in 1..Len(r) : Plain(r[k])
  BY DEF Plain, OneEach
<1>10. Shaped(g)
  <2>1. \A i \in DOMAIN g : Plain(g[i])
    BY <1>1, <1>2, <1>4, <1>9 DEF Shaped
  <2>2. \A i \in DOMAIN g : g[i].who = "tool" => Owned(g, i)
    BY <1>1, <1>2, <1>4, <1>7, <1>8 DEF Shaped
  <2> QED
    BY <2>1, <2>2 DEF Shaped
<1>11. OpenLast(g, a)
  <2>1. \A i \in 1..(a - 1) : i \in 1..Len(h) /\ Closed(h, i)
    BY <1>2, <1>5 DEF OpenLast
  <2>2. a \in DOMAIN g
    BY <1>2, <1>3, <1>5
  <2> QED
    BY <1>5, <1>6, <1>7, <2>1, <2>2 DEF OpenLast
<1>12. Unanswered(g, a) = Unanswered(h, a) \ {r[k].to : k \in 1..Len(r)}
  <2> DEFINE A == {h[j].to : j \in (a + 1)..Len(h)}
             B == {r[k].to : k \in 1..Len(r)}
             C == {g[j].to : j \in (a + 1)..Len(g)}
  <2>1. C \subseteq A \cup B
    <3> SUFFICES ASSUME NEW j \in (a + 1)..Len(g) PROVE g[j].to \in A \cup B
      OBVIOUS
    <3>1. j \in DOMAIN g /\ (j \in 1..Len(h) => j \in (a + 1)..Len(h))
      BY <1>1, <1>2, <1>3, <1>5
    <3>2. CASE j \in 1..Len(h)
      BY <1>1, <3>1, <3>2
    <3>3. CASE \E k \in 1..Len(r) : j = Len(h) + k
      BY <1>1, <3>3
    <3> QED
      BY <1>4, <3>1, <3>2, <3>3
  <2>2. A \subseteq C
    <3> SUFFICES ASSUME NEW j \in (a + 1)..Len(h) PROVE h[j].to \in C
      OBVIOUS
    <3>1. j \in (a + 1)..Len(g) /\ j \in 1..Len(h)
      BY <1>1, <1>2, <1>5
    <3> QED
      BY <1>1, <3>1
  <2>3. B \subseteq C
    <3> SUFFICES ASSUME NEW k \in 1..Len(r) PROVE r[k].to \in C
      OBVIOUS
    <3>1. Len(h) + k \in (a + 1)..Len(g)
      BY <1>1, <1>2, <1>5
    <3> QED
      BY <1>1, <3>1
  <2>4. C = A \cup B
    BY <2>1, <2>2, <2>3
  <2>5. Unanswered(g, a) = Ids(h[a].calls) \ C /\ Unanswered(h, a) = Ids(h[a].calls) \ A
    BY <1>5 DEF Unanswered
  <2> HIDE DEF A, B, C
  <2>6. Unanswered(g, a) = Unanswered(h, a) \ B
    BY <2>4, <2>5
  <2> QED
    BY <2>6 DEF B
<1> QED
  BY <1>1, <1>5, <1>10, <1>11, <1>12 DEF g

\* If all calls are answered nothing is open.
LEMMA OpenCloses ==
    ASSUME NEW h \in Seq(Message), Shaped(h), NEW a, OpenLast(h, a), Unanswered(h, a) = {}
    PROVE  AllClosed(h)
<1>1. Len(h) \in Nat /\ DOMAIN h = 1..Len(h) /\ a \in 1..Len(h)
  BY DEF OpenLast
<1> SUFFICES ASSUME NEW i \in 1..Len(h) PROVE Closed(h, i)
  BY <1>1 DEF AllClosed
<1>2. CASE i < a
  <2>1. i \in 1..(a - 1)
    BY <1>1, <1>2
  <2> QED
    BY <2>1 DEF OpenLast
<1>3. CASE i = a
  <2>1. ASSUME NEW j \in (a + 1)..Len(h)
        PROVE  j \in ResultsAfter(h, a)
    <3>1. \A k \in (a + 1)..j : k \in (a + 1)..Len(h)
      BY <1>1
    <3> QED
      BY <3>1 DEF ResultsAfter, OpenLast
  <2> QED
    BY <1>3, <2>1 DEF Closed, Unanswered
<1>4. CASE i > a
  <2>1. i \in (a + 1)..Len(h)
    BY <1>1, <1>4
  <2>2. Plain(h[i]) /\ h[i].who = "tool"
    BY <1>1, <2>1 DEF Shaped, OpenLast
  <2>3. Ids(h[i].calls) = {}
    BY <2>2 DEF Plain, Ids
  <2> QED
    BY <2>3 DEF Closed
<1> QED
  BY <1>1, <1>2, <1>3, <1>4

\* The calls of an open message that are to run.
LEMMA PendingIs ==
    ASSUME NEW h \in Seq(Message), Shaped(h), NEW a, OpenLast(h, a)
    PROVE  /\ LastOf(h, "ai") = a
           /\ Pending(h) \in Seq(Call)
           /\ Ids(Pending(h)) = Unanswered(h, a)
           /\ OneEach(Pending(h))
<1>1. Len(h) \in Nat /\ DOMAIN h = 1..Len(h) /\ a \in 1..Len(h) /\ h[a].who = "ai"
  BY DEF OpenLast
<1>2. LastOf(h, "ai") = a
  <2>1. /\ LastOf(h, "ai") \in 0..Len(h)
        /\ LastOf(h, "ai") # 0 => h[LastOf(h, "ai")].who = "ai"
        /\ \A i \in 1..Len(h) : h[i].who = "ai" => i <= LastOf(h, "ai")
    BY LastOfIs
  <2>2. a <= LastOf(h, "ai")
    BY <1>1, <2>1
  <2>3. ~(LastOf(h, "ai") \in (a + 1)..Len(h))
    BY <1>1, <2>1 DEF OpenLast
  <2> QED
    BY <1>1, <2>1, <2>2, <2>3
<1> DEFINE calls == h[a].calls
           ids == Ids(calls) \ {h[j].to : j \in (a + 1)..Len(h)}
<1>3. calls \in Seq(Call) /\ OneEach(calls)
  <2>1. h[a] \in Message /\ Plain(h[a])
    BY <1>1 DEF Shaped
  <2> QED
    BY <2>1 DEF Message, Call, Plain
<1>4. Pending(h) = Those(calls, ids)
  BY <1>2 DEF Pending
<1>5. ids = Unanswered(h, a)
  BY DEF Unanswered
<1> HIDE DEF calls
<1>6. /\ Those(calls, ids) \in Seq(Call) /\ OneEach(Those(calls, ids))
      /\ Ids(Those(calls, ids)) = Ids(calls) \cap ids
  <2> HIDE DEF ids
  <2> QED
    BY <1>3, ThoseIs
<1>7. Ids(calls) \cap ids = ids
  OBVIOUS
<1> QED
  BY <1>2, <1>4, <1>5, <1>6, <1>7

-----------------------------------------------------------------------------
(* The repaired history *)

\* Only results stand between a message that is no result and the block that ends.
LEMMA BlockOf ==
    ASSUME NEW h \in Seq(Message), NEW i \in 1..Len(h), NEW b \in 1..(i - 1),
           h[b].who # "tool", \A m \in (b + 1)..(i - 1) : h[m].who = "tool"
    PROVE  Block(h, i) = b
<1>1. /\ Block(h, i) \in 0..(i - 1)
      /\ Block(h, i) # 0 => h[Block(h, i)].who # "tool"
      /\ \A j \in 1..(i - 1) : h[j].who # "tool" => j <= Block(h, i)
  BY BlockIs
<1>2. b <= Block(h, i)
  BY <1>1
<1>3. ~(Block(h, i) \in (b + 1)..(i - 1))
  BY <1>1
<1> QED
  BY <1>1, <1>2, <1>3

\* The repair keeps every result of a shaped history.
LEMMA OwnedAnswers ==
    ASSUME NEW h \in Seq(Message), Shaped(h), NEW i \in 1..Len(h), h[i].who = "tool"
    PROVE  AnswersOpenCall(h, i)
<1>1. DOMAIN h = 1..Len(h) /\ Len(h) \in Nat
  OBVIOUS
<1>2. PICK b \in 1..(i - 1) : /\ i \in ResultsAfter(h, b)
                             /\ h[i].to \in Ids(h[b].calls)
                             /\ \A m \in (b + 1)..(i - 1) : h[m].to # h[i].to
  BY <1>1 DEF Shaped, Owned
<1>3. b \in DOMAIN h /\ Plain(h[b])
  BY <1>1 DEF Shaped
<1>4. h[b].who # "tool"
  BY <1>2, <1>3 DEF Plain, Ids
<1>5. \A m \in (b + 1)..(i - 1) : h[m].who = "tool"
  BY <1>2 DEF ResultsAfter
<1>6. Block(h, i) = b
  BY <1>4, <1>5, BlockOf
<1>7. b # 0
  OBVIOUS
<1> QED
  BY <1>2, <1>6, <1>7 DEF AnswersOpenCall

\* What a block is closed with: a result for each call that has none.
LEMMA ResultIs ==
    ASSUME NEW id \in Nat, NEW bad \in BOOLEAN
    PROVE  /\ Result(id, bad) \in Message
           /\ Result(id, bad).who = "tool" /\ Result(id, bad).calls = <<>>
           /\ Result(id, bad).to = id
<1>1. <<>> \in Seq([id : Nat, tool : STRING])
  OBVIOUS
<1>2. Human \in Message /\ Human.calls = <<>>
  BY <1>1 DEF Human, Message
<1>3. Result(id, bad) = [Human EXCEPT !.who = "tool", !.to = id, !.bad = bad]
  BY DEF Result
<1> QED
  BY <1>2, <1>3 DEF Message

\* The stubs of a block answer its open calls, each one once.
LEMMA StubsAre ==
    ASSUME NEW h \in Seq(Message), Shaped(h), NEW i \in 1..Len(h)
    PROVE  /\ Stubs(h, i) \in Seq(Message)
           /\ \A k \in 1..Len(Stubs(h, i)) :
                 Stubs(h, i)[k].who = "tool" /\ Stubs(h, i)[k].calls = <<>>
           /\ Block(h, i) = 0 => Stubs(h, i) = <<>>
           /\ Block(h, i) # 0 =>
                 /\ {Stubs(h, i)[k].to : k \in 1..Len(Stubs(h, i))}
                      = Ids(h[Block(h, i)].calls) \ {h[j].to : j \in (Block(h, i) + 1)..(i - 1)}
                 /\ \A k, l \in 1..Len(Stubs(h, i)) :
                       Stubs(h, i)[k].to = Stubs(h, i)[l].to => k = l
<1> DEFINE b == Block(h, i)
<1>1. b \in 0..(i - 1) /\ DOMAIN h = 1..Len(h) /\ Len(h) \in Nat
  BY BlockIs
<1>2. CASE b = 0
  BY <1>2 DEF Stubs
<1>3. CASE b # 0
  <2> DEFINE calls == h[b].calls
             ids == Ids(calls) \ {h[j].to : j \in (b + 1)..(i - 1)}
             open == Those(calls, ids)
  <2>1. b \in DOMAIN h
    BY <1>1, <1>3
  <2>2. calls \in Seq(Call) /\ OneEach(calls)
    <3>1. h[b] \in Message /\ Plain(h[b])
      BY <1>1, <2>1 DEF Shaped
    <3> QED
      BY <3>1 DEF Message, Call, Plain
  <2>3. Stubs(h, i) = [k \in DOMAIN open |-> Stub(open[k])]
    BY <1>3 DEF Stubs
  <2> HIDE DEF b, calls, ids
  <2>4. open \in Seq(Call) /\ Ids(open) = Ids(calls) \cap ids /\ OneEach(open)
    BY <2>2, ThoseIs
  <2>5. Ids(open) = ids
    BY <2>4 DEF ids
  <2> HIDE DEF open
  <2>6. DOMAIN open = 1..Len(open) /\ Len(open) \in Nat
        /\ \A k \in 1..Len(open) : open[k].id \in Nat
    <3>1. \A k \in 1..Len(open) : open[k] \in Call
      BY <2>4, ElementOfSeq
    <3> QED
      BY <2>4, <3>1 DEF Call
  <2>7. ASSUME NEW k \in 1..Len(open)
        PROVE  /\ Stub(open[k]) \in Message
               /\ Stub(open[k]).who = "tool" /\ Stub(open[k]).calls = <<>>
               /\ Stub(open[k]).to = open[k].id
    <3>1. open[k].id \in Nat
      BY <2>6
    <3> QED
      BY <3>1, ResultIs DEF Stub
  <2>8. Stubs(h, i) \in Seq(Message) /\ Len(Stubs(h, i)) = Len(open)
        /\ \A k \in 1..Len(open) : Stubs(h, i)[k] = Stub(open[k])
    BY <2>3, <2>6, <2>7
  <2>9. {Stubs(h, i)[k].to : k \in 1..Len(Stubs(h, i))} = ids
    BY <2>5, <2>6, <2>7, <2>8 DEF Ids
  <2>10. ASSUME NEW k \in 1..Len(open), NEW l \in 1..Len(open),
                Stubs(h, i)[k].to = Stubs(h, i)[l].to
         PROVE  k = l
    BY <2>4, <2>6, <2>7, <2>8, <2>10, SMTT(30) DEF OneEach
  <2> QED
    BY <1>3, <2>7, <2>8, <2>9, <2>10 DEF b, ids, calls
<1> QED
  BY <1>2, <1>3

\* After repair_dangling_tool_calls every call is answered, and no message is missing.
LEMMA RepairKeeps ==
    ASSUME NEW h \in Seq(Message), Shaped(h), h # <<>>, Last(h).who = "human"
    PROVE  /\ Repaired(h) \in Seq(Message) /\ Shaped(Repaired(h)) /\ AllClosed(Repaired(h))
           /\ \A i \in 1..Len(h) : \E p \in DOMAIN Repaired(h) : Repaired(h)[p] = h[i]
<1> DEFINE n == Len(h)
           q == [i \in DOMAIN h |->
                    IF h[i].who # "tool" THEN Stubs(h, i) \o <<h[i]>>
                    ELSE IF AnswersOpenCall(h, i) THEN <<h[i]>> ELSE <<>>]
           f == FlattenSeq(q)
           S(i) == Len(Stubs(h, i))
<1>1. n \in Nat \ {0} /\ DOMAIN h = 1..n /\ h[n].who = "human"
      /\ \A i \in 1..n : h[i] \in Message
  BY DEF Last
<1>2. Repaired(h) = f
  BY <1>1 DEF Repaired
<1>3. ASSUME NEW i \in 1..n
      PROVE  /\ Stubs(h, i) \in Seq(Message) /\ S(i) \in Nat
             /\ h[i].who # "tool" => q[i] = Stubs(h, i) \o <<h[i]>>
             /\ h[i].who = "tool" => q[i] = <<h[i]>>
  <2>1. Stubs(h, i) \in Seq(Message)
    BY StubsAre
  <2>2. h[i].who = "tool" => AnswersOpenCall(h, i)
    BY OwnedAnswers
  <2>3. q[i] = IF h[i].who # "tool" THEN Stubs(h, i) \o <<h[i]>>
               ELSE IF AnswersOpenCall(h, i) THEN <<h[i]>> ELSE <<>>
    BY <1>1
  <2>4. S(i) \in Nat
    BY <2>1
  <2> HIDE DEF q
  <2>5. h[i].who # "tool" => q[i] = Stubs(h, i) \o <<h[i]>>
    BY <2>3
  <2>6. h[i].who = "tool" => q[i] = <<h[i]>>
    BY <2>2, <2>3
  <2> QED
    BY <2>1, <2>4, <2>5, <2>6
<1>4. ASSUME NEW i \in 1..n
      PROVE  /\ q[i] \in Seq(Message)
             /\ h[i].who = "tool" => Len(q[i]) = 1 /\ q[i][1] = h[i]
             /\ h[i].who # "tool" => /\ Len(q[i]) = S(i) + 1
                                    /\ q[i][S(i) + 1] = h[i]
                                    /\ \A k \in 1..S(i) : q[i][k] = Stubs(h, i)[k]
  <2> DEFINE s == Stubs(h, i)
             t == <<h[i]>>
  <2>1. s \in Seq(Message) /\ t \in Seq(Message) /\ Len(t) = 1 /\ t[1] = h[i]
    <3>1. h[i] \in Message
      BY <1>1
    <3>2. s \in Seq(Message)
      BY <1>3
    <3> HIDE DEF n, q, f, S, s
    <3> QED
      BY <3>1, <3>2
  <2>2. h[i].who # "tool" => q[i] = s \o t
    BY <1>3
  <2>3. h[i].who = "tool" => q[i] = t
    BY <1>3
  <2> HIDE DEF q, s, t
  <2>4. /\ s \o t \in Seq(Message) /\ Len(s \o t) = Len(s) + Len(t)
        /\ \A k \in 1..Len(t) : (s \o t)[Len(s) + k] = t[k]
        /\ \A k \in 1..Len(s) : (s \o t)[k] = s[k]
    BY <2>1, Joined
  <2>5. (s \o t)[Len(s) + 1] = t[1]
    BY <2>1, <2>4
  <2> QED
    BY <2>1, <2>2, <2>3, <2>4, <2>5 DEF s
<1>5. q \in Seq(Seq(Message)) /\ Len(q) = n
  <2> HIDE DEF n
  <2>1. q \in [1..n -> Seq(Message)]
    <3>1. \A i \in 1..n : q[i] \in Seq(Message)
      BY <1>4
    <3>2. q = [i \in 1..n |-> q[i]]
      BY <1>1
    <3> HIDE DEF q
    <3> QED
      BY <3>1, <3>2
  <2> HIDE DEF q
  <2> QED
    BY <1>1, <2>1
<1> HIDE DEF q
<1>6. f \in Seq(Message)
  BY <1>5, FlattenPlaces
<1>7. PICK pos : Places(q, f, pos)
  BY <1>5, FlattenPlaces
<1> HIDE DEF f, n
\* Message i of h comes to pos[i + 1], after its stubs.
<1>8. ASSUME NEW i \in 1..n
      PROVE  /\ pos[i] \in Nat /\ pos[i + 1] \in Nat
             /\ h[i].who = "tool" => pos[i + 1] = pos[i] + 1
             /\ h[i].who # "tool" =>
                   /\ pos[i + 1] = pos[i] + S(i) + 1
                   /\ \A k \in 1..S(i) : pos[i] + k \in DOMAIN f /\ f[pos[i] + k] = Stubs(h, i)[k]
             /\ pos[i + 1] \in DOMAIN f /\ f[pos[i + 1]] = h[i]
  <2>1. i \in 1..Len(q)
    BY <1>5
  <2>2. /\ pos[i] \in Nat /\ pos[i + 1] \in Nat
        /\ pos[i + 1] = pos[i] + Len(q[i]) /\ Len(q[i]) \in Nat
        /\ \A k \in 1..Len(q[i]) : pos[i] + k \in DOMAIN f /\ f[pos[i] + k] = q[i][k]
    BY <1>7, <2>1, PlaceIn
  <2>3. S(i) \in Nat
    BY <1>3
  <2>4. CASE h[i].who = "tool"
    <3>1. Len(q[i]) = 1 /\ q[i][1] = h[i]
      BY <1>4, <2>4
    <3>2. pos[i + 1] = pos[i] + 1 /\ pos[i] + 1 \in DOMAIN f /\ f[pos[i] + 1] = h[i]
      BY <2>2, <3>1
    <3> QED
      BY <2>2, <2>4, <3>2
  <2>5. CASE h[i].who # "tool"
    <3>1. /\ Len(q[i]) = S(i) + 1 /\ q[i][S(i) + 1] = h[i]
          /\ \A k \in 1..S(i) : q[i][k] = Stubs(h, i)[k]
      BY <1>4, <2>5
    <3> HIDE DEF S
    <3>2. S(i) + 1 \in 1..Len(q[i]) /\ \A k \in 1..S(i) : k \in 1..Len(q[i])
      BY <2>3, <3>1
    <3>3. pos[i] + (S(i) + 1) \in DOMAIN f /\ f[pos[i] + (S(i) + 1)] = h[i]
      BY <2>2, <3>1, <3>2
    <3>4. \A k \in 1..S(i) : pos[i] + k \in DOMAIN f /\ f[pos[i] + k] = Stubs(h, i)[k]
      BY <2>2, <3>1, <3>2
    <3>5. pos[i + 1] = pos[i] + (S(i) + 1) /\ pos[i] + (S(i) + 1) = pos[i] + S(i) + 1
      <4>1. pos[i + 1] = pos[i] + Len(q[i]) /\ pos[i] \in Nat
        BY <2>2
      <4>2. pos[i + 1] = pos[i] + (S(i) + 1)
        BY <3>1, <4>1
      <4> HIDE DEF q
      <4>3. pos[i] + (S(i) + 1) = pos[i] + S(i) + 1
        BY <2>3, <4>1
      <4> QED
        BY <4>2, <4>3
    <3> QED
      BY <2>2, <2>5, <3>3, <3>4, <3>5 DEF S
  <2> QED
    BY <2>4, <2>5
<1>9. ASSUME NEW p \in DOMAIN f
      PROVE  \/ \E i \in 1..n : p = pos[i + 1] /\ f[p] = h[i]
             \/ \E i \in 1..n : /\ h[i].who # "tool"
                               /\ \E k \in 1..S(i) : p = pos[i] + k /\ f[p] = Stubs(h, i)[k]
  <2>1. \A r \in DOMAIN f :
           \E i \in 1..Len(q) : \E k \in 1..Len(q[i]) : r = pos[i] + k /\ f[r] = q[i][k]
    BY <1>7, PlaceOf
  <2>2. PICK i \in 1..n : \E k \in 1..Len(q[i]) : p = pos[i] + k /\ f[p] = q[i][k]
    BY <1>5, <2>1
  <2>3. PICK k \in 1..Len(q[i]) : p = pos[i] + k /\ f[p] = q[i][k]
    BY <2>2
  <2>4. CASE h[i].who = "tool"
    <3>1. Len(q[i]) = 1
      BY <1>4, <2>4
    <3>2. k = 1
      BY <3>1
    <3>3. p = pos[i + 1]
      BY <1>8, <2>3, <2>4, <3>2
    <3> QED
      BY <1>8, <3>3
  <2>5. CASE h[i].who # "tool"
    <3>1. S(i) \in Nat /\ Len(q[i]) = S(i) + 1
      BY <1>3, <1>4, <2>5
    <3>2. k \in 1..S(i) \/ k = S(i) + 1
      BY <3>1
    <3>3. CASE k \in 1..S(i)
      BY <1>4, <2>3, <2>5, <3>3
    <3>4. CASE k = S(i) + 1
      <4>1. p = pos[i + 1]
        <5>1. pos[i + 1] = pos[i] + S(i) + 1 /\ pos[i] \in Nat
          BY <1>8, <2>5
        <5> HIDE DEF S
        <5> QED
          BY <2>3, <3>1, <3>4, <5>1
      <4> QED
        BY <1>8, <4>1
    <3> QED
      BY <3>2, <3>3, <3>4
  <2> QED
    BY <2>4, <2>5
<1>20. ASSUME NEW i \in 1..n
       PROVE  /\ pos[i] \in Nat /\ pos[i + 1] \in Nat /\ pos[i] < pos[i + 1]
              /\ h[i].who # "tool" => \A k \in 1..S(i) : pos[i] + k < pos[i + 1]
  <2>1. S(i) \in Nat
    BY <1>3
  <2>2. /\ pos[i] \in Nat /\ pos[i + 1] \in Nat
        /\ h[i].who = "tool" => pos[i + 1] = pos[i] + 1
        /\ h[i].who # "tool" => pos[i + 1] = pos[i] + S(i) + 1
    BY <1>8
  <2> HIDE DEF S
  <2> QED
    BY <2>1, <2>2
<1>10. ASSUME NEW i \in 1..n, NEW j \in 1..n, i < j
       PROVE  pos[i + 1] <= pos[j] /\ pos[i + 1] < pos[j + 1]
  <2>1. pos[i + 1] = pos[i] + Len(q[i]) /\ pos[i] + Len(q[i]) <= pos[j]
    <3>1. i \in 1..Len(q) /\ i \in 1..(Len(q) + 1) /\ j \in 1..(Len(q) + 1)
      BY <1>1, <1>5
    <3> QED
      BY <1>7, <1>10, <3>1 DEF Places
  <2>2. pos[j + 1] > pos[j] /\ pos[i + 1] \in Nat /\ pos[j] \in Nat /\ pos[j + 1] \in Nat
    BY <1>20
  <2> QED
    BY <2>1, <2>2
\* Between a block's message and the next message that is no result there are the
\* block's results, and then the stubs.
<1>11. ASSUME NEW i \in 1..n, NEW b \in 1..(i - 1),
              \A m \in (b + 1)..(i - 1) : h[m].who = "tool",
              NEW p \in DOMAIN f, pos[b + 1] < p, p <= pos[i]
       PROVE  \E m \in (b + 1)..(i - 1) : p = pos[m + 1] /\ f[p] = h[m]
  <2>1. b \in 1..n /\ pos[b + 1] \in Nat /\ pos[i] \in Nat
    BY <1>1, <1>8
  <2>2. ASSUME NEW m \in 1..n, pos[m] < p, p <= pos[m + 1]
        PROVE  m \in (b + 1)..(i - 1)
    <3>1. pos[m] \in Nat /\ pos[m + 1] \in Nat /\ p \in Nat
      BY <1>6, <1>8
    <3>2. ~(m < b) /\ m # b
      BY <1>10, <1>11, <2>1, <2>2, <3>1
    <3>3. ~(i < m) /\ m # i
      <4>1. i < m => pos[i + 1] <= pos[m]
        BY <1>10
      <4>2. pos[i] <= pos[i + 1] /\ pos[i + 1] \in Nat
        BY <1>20
      <4> QED
        BY <1>11, <2>1, <2>2, <3>1, <4>1, <4>2
    <3> QED
      BY <1>1, <3>2, <3>3
  <2>3. CASE \E m \in 1..n : p = pos[m + 1] /\ f[p] = h[m]
    <3>1. PICK m \in 1..n : p = pos[m + 1] /\ f[p] = h[m]
      BY <2>3
    <3>2. pos[m] < p /\ p <= pos[m + 1]
      BY <1>20, <3>1
    <3> QED
      BY <2>2, <3>1, <3>2
  <2>4. CASE \E m \in 1..n : /\ h[m].who # "tool"
                            /\ \E k \in 1..S(m) : p = pos[m] + k /\ f[p] = Stubs(h, m)[k]
    <3>1. PICK m \in 1..n : /\ h[m].who # "tool"
                            /\ \E k \in 1..S(m) : p = pos[m] + k /\ f[p] = Stubs(h, m)[k]
      BY <2>4
    <3>2. PICK k \in 1..S(m) : p = pos[m] + k
      BY <3>1
    <3>3. pos[m] < p /\ p <= pos[m + 1]
      BY <1>20, <3>1, <3>2
    <3>4. m \in (b + 1)..(i - 1)
      BY <2>2, <3>3
    <3> QED
      BY <1>11, <3>1, <3>4
  <2> QED
    BY <1>9, <2>3, <2>4
<1>12. ASSUME NEW i \in 1..n
       PROVE  /\ h[i].who = "tool" => Owned(f, pos[i + 1])
              /\ h[i].who # "tool" => \A k \in 1..S(i) : Owned(f, pos[i] + k)
  <2>1. CASE h[i].who = "tool"
    <3>1. PICK b \in 1..(i - 1) : /\ i \in ResultsAfter(h, b)
                                 /\ h[i].to \in Ids(h[b].calls)
                                 /\ \A m \in (b + 1)..(i - 1) : h[m].to # h[i].to
      BY <1>1, <2>1 DEF Shaped, Owned
    <3> DEFINE p == pos[i + 1]
               B == pos[b + 1]
    <3>2. /\ b \in 1..n /\ b < i /\ \A m \in (b + 1)..(i - 1) : h[m].who = "tool"
      BY <1>1, <3>1 DEF ResultsAfter
    <3>3. /\ p \in DOMAIN f /\ f[p] = h[i] /\ B \in DOMAIN f /\ f[B] = h[b]
          /\ p = pos[i] + 1 /\ B <= pos[i] /\ pos[i] \in Nat
      BY <1>8, <1>10, <2>1, <3>2
    <3> HIDE DEF p, B
    <3>4. B \in 1..(p - 1) /\ B \in Nat /\ p \in Nat /\ DOMAIN f = 1..Len(f) /\ Len(f) \in Nat
      BY <1>6, <3>3
    <3>5. ASSUME NEW r \in (B + 1)..(p - 1)
          PROVE  f[r].who = "tool" /\ f[r].to # f[p].to
      <4>1. r \in DOMAIN f /\ pos[b + 1] < r /\ r <= pos[i]
        BY <3>3, <3>4 DEF B
      <4>2. PICK m \in (b + 1)..(i - 1) : r = pos[m + 1] /\ f[r] = h[m]
        BY <1>11, <3>2, <4>1
      <4> QED
        BY <3>1, <3>2, <3>3, <4>2
    <3>6. \A r \in (B + 1)..p : r = p \/ r \in (B + 1)..(p - 1)
      BY <3>4
    <3>7. p \in ResultsAfter(f, B)
      <4>1. \A r \in (B + 1)..p : f[r].who = "tool"
        BY <2>1, <3>3, <3>5, <3>6
      <4>2. p \in (B + 1)..Len(f)
        BY <3>3, <3>4
      <4> QED
        BY <4>1, <4>2 DEF ResultsAfter
    <3>8. Owned(f, p)
      BY <3>1, <3>3, <3>4, <3>5, <3>7 DEF Owned
    <3> QED
      BY <2>1, <3>8 DEF p
  <2>2. ASSUME h[i].who # "tool", NEW k \in 1..S(i)
        PROVE  Owned(f, pos[i] + k)
    <3> DEFINE b == Block(h, i)
               p == pos[i] + k
               B == pos[b + 1]
    <3>1. b # 0 /\ S(i) \in Nat
      <4>1. b = 0 => Stubs(h, i) = <<>>
        BY StubsAre DEF n
      <4> QED
        BY <1>3, <4>1
    <3>2. /\ b \in 1..(i - 1) /\ b \in 1..n /\ b < i
          /\ \A m \in (b + 1)..(i - 1) : h[m].who = "tool"
      <4>1. /\ b \in 0..(i - 1)
            /\ \A j \in 1..(i - 1) : h[j].who # "tool" => j <= b
        BY BlockIs DEF n
      <4> HIDE DEF b
      <4> QED
        BY <1>1, <3>1, <4>1
    <3>3. /\ {Stubs(h, i)[l].to : l \in 1..S(i)}
               = Ids(h[b].calls) \ {h[j].to : j \in (b + 1)..(i - 1)}
          /\ \A l, m \in 1..S(i) : Stubs(h, i)[l].to = Stubs(h, i)[m].to => l = m
          /\ \A l \in 1..S(i) : Stubs(h, i)[l].who = "tool"
      <4> HIDE DEF S
      <4> QED
        BY <3>1, StubsAre DEF n, S
    <3> HIDE DEF b
    <3>4. /\ p \in DOMAIN f /\ f[p] = Stubs(h, i)[k] /\ B \in DOMAIN f /\ f[B] = h[b]
          /\ B <= pos[i] /\ pos[i] \in Nat
      BY <1>8, <1>10, <2>2, <3>2
    <3> HIDE DEF B
    <3>5. B \in 1..(p - 1) /\ B \in Nat /\ p \in Nat /\ DOMAIN f = 1..Len(f) /\ Len(f) \in Nat
      BY <1>6, <3>4
    <3>6. ASSUME NEW r \in (B + 1)..(p - 1)
          PROVE  f[r].who = "tool" /\ f[r].to # f[p].to
      <4>1. CASE r <= pos[i]
        <5>1. r \in DOMAIN f /\ pos[b + 1] < r
          BY <3>4, <3>5, SMTT(30) DEF B
        <5>2. PICK m \in (b + 1)..(i - 1) : r = pos[m + 1] /\ f[r] = h[m]
          BY <1>11, <3>2, <4>1, <5>1
        <5>3. f[p].to \notin {h[j].to : j \in (b + 1)..(i - 1)}
          BY <3>3, <3>4
        <5> QED
          BY <3>2, <5>2, <5>3
      <4>2. CASE r > pos[i]
        <5> DEFINE l == r - pos[i]
        <5>1. l \in 1..S(i) /\ l # k /\ r = pos[i] + l
          <6>1. r \in Nat /\ r < pos[i] + k
            BY <3>1, <3>4, <3>5
          <6> HIDE DEF S
          <6> QED
            BY <3>1, <3>4, <4>2, <6>1
        <5> HIDE DEF l
        <5>2. f[r] = Stubs(h, i)[l]
          BY <1>8, <2>2, <5>1
        <5> QED
          BY <3>3, <3>4, <5>1, <5>2
      <4> QED
        BY <3>4, <3>5, <4>1, <4>2
    <3>7. p \in ResultsAfter(f, B)
      <4>1. \A r \in (B + 1)..p : r = p \/ r \in (B + 1)..(p - 1)
        BY <3>5
      <4>2. \A r \in (B + 1)..p : f[r].who = "tool"
        BY <3>3, <3>4, <3>6, <4>1
      <4>3. p \in (B + 1)..Len(f)
        BY <3>4, <3>5
      <4> HIDE DEF p
      <4> QED
        BY <4>2, <4>3 DEF ResultsAfter
    <3>8. f[p].to \in Ids(f[B].calls)
      BY <3>3, <3>4
    <3> HIDE DEF p
    <3>9. Owned(f, p)
      BY <3>5, <3>6, <3>7, <3>8 DEF Owned
    <3> QED
      BY <3>9 DEF p
  <2> QED
    BY <2>1, <2>2
<1>13. Shaped(f)
  <2>1. ASSUME NEW p \in DOMAIN f
        PROVE  Plain(f[p]) /\ (f[p].who = "tool" => Owned(f, p))
    <3>1. CASE \E i \in 1..n : p = pos[i + 1] /\ f[p] = h[i]
      BY <1>1, <1>12, <3>1 DEF Shaped
    <3>2. CASE \E i \in 1..n : /\ h[i].who # "tool"
                              /\ \E k \in 1..S(i) : p = pos[i] + k /\ f[p] = Stubs(h, i)[k]
      <4>1. PICK i \in 1..n : /\ h[i].who # "tool"
                              /\ \E k \in 1..S(i) : p = pos[i] + k /\ f[p] = Stubs(h, i)[k]
        BY <3>2
      <4>2. PICK k \in 1..S(i) : p = pos[i] + k /\ f[p] = Stubs(h, i)[k]
        BY <4>1
      <4>3. Stubs(h, i)[k].calls = <<>>
        BY StubsAre DEF n
      <4> QED
        BY <1>12, <4>1, <4>2, <4>3 DEF Plain, OneEach
    <3> QED
      BY <1>9, <3>1, <3>2
  <2> QED
    BY <2>1 DEF Shaped
<1>14. ASSUME NEW i \in 1..n, h[i].calls # <<>>
       PROVE  Closed(f, pos[i + 1])
  <2>1. h[i].who = "ai"
    BY <1>1, <1>14 DEF Shaped, Plain
  <2> DEFINE T == {j \in (i + 1)..n : h[j].who # "tool"}
  <2>2. T \in SUBSET Nat /\ n \in T
    BY <1>1, <2>1
  <2>3. PICK x \in T : \A y \in T : x <= y
    <3> HIDE DEF T
    <3> QED
      BY <2>2, LeastNumber
  <2>4. /\ x \in 1..n /\ h[x].who # "tool" /\ i \in 1..(x - 1) /\ i < x
        /\ \A m \in (i + 1)..(x - 1) : h[m].who = "tool"
    <3>1. ASSUME NEW m \in (i + 1)..(x - 1)
          PROVE  h[m].who = "tool"
      <4>1. m \in (i + 1)..n /\ ~(x <= m)
        BY <1>1
      <4> QED
        BY <2>3, <4>1
    <3> QED
      BY <1>1, <3>1
  <2> HIDE DEF T
  <2>5. Block(h, x) = i
    BY <2>1, <2>4, BlockOf DEF n
  <2>6. /\ {Stubs(h, x)[l].to : l \in 1..S(x)}
             = Ids(h[i].calls) \ {h[j].to : j \in (i + 1)..(x - 1)}
        /\ \A l \in 1..S(x) : Stubs(h, x)[l].who = "tool"
    <3>1. i # 0 /\ x \in 1..Len(h)
      BY <2>4 DEF n
    <3> QED
      BY <2>5, <3>1, StubsAre
  <2>7. /\ pos[i + 1] \in DOMAIN f /\ f[pos[i + 1]] = h[i]
        /\ pos[i + 1] <= pos[x] /\ pos[x] \in Nat /\ S(x) \in Nat
        /\ \A k \in 1..S(x) : pos[x] + k \in DOMAIN f /\ f[pos[x] + k] = Stubs(h, x)[k]
    BY <1>3, <1>8, <1>10, <2>4
  <2> DEFINE B == pos[i + 1]
  <2> HIDE DEF B
  <2>8. DOMAIN f = 1..Len(f) /\ Len(f) \in Nat /\ B \in 1..Len(f)
    BY <1>6, <2>7 DEF B
  <2>9. ASSUME NEW r \in DOMAIN f, B < r, r <= pos[x] + S(x)
        PROVE  r \in ResultsAfter(f, B)
    <3>1. ASSUME NEW t \in (B + 1)..r
          PROVE  f[t].who = "tool"
      <4>1. t \in DOMAIN f /\ t \in Nat
        BY <2>8
      <4>2. CASE t <= pos[x]
        <5>1. PICK m \in (i + 1)..(x - 1) : t = pos[m + 1] /\ f[t] = h[m]
          <6>1. pos[i + 1] < t
            BY <2>8, <4>1 DEF B
          <6> QED
            BY <1>11, <2>4, <4>1, <4>2, <6>1
        <5> QED
          BY <2>4, <5>1
      <4>3. CASE t > pos[x]
        <5> DEFINE l == t - pos[x]
        <5>1. l \in 1..S(x) /\ t = pos[x] + l
          BY <2>7, <2>8, <2>9, <4>1, <4>3
        <5> HIDE DEF l
        <5> QED
          BY <2>6, <2>7, <5>1
      <4> QED
        BY <2>7, <4>1, <4>2, <4>3
    <3>2. r \in (B + 1)..Len(f)
      BY <2>8, <2>9
    <3> QED
      BY <3>1, <3>2 DEF ResultsAfter
  <2>10. ASSUME NEW c \in Ids(h[i].calls)
         PROVE  \E r \in ResultsAfter(f, B) : f[r].to = c
    <3>1. CASE c \in {h[j].to : j \in (i + 1)..(x - 1)}
      <4>1. PICK j \in (i + 1)..(x - 1) : c = h[j].to
        BY <3>1
      <4>2. j \in 1..n /\ i < j /\ j < x
        BY <1>1, <2>4
      <4>3. pos[j + 1] \in DOMAIN f /\ f[pos[j + 1]] = h[j]
            /\ B < pos[j + 1] /\ pos[j + 1] <= pos[x]
        BY <1>8, <1>10, <2>4, <4>2 DEF B
      <4>4. pos[j + 1] <= pos[x] + S(x)
        BY <2>7, <2>8, <4>3
      <4> QED
        BY <2>9, <4>1, <4>3, <4>4
    <3>2. CASE c \notin {h[j].to : j \in (i + 1)..(x - 1)}
      <4>1. PICK l \in 1..S(x) : c = Stubs(h, x)[l].to
        BY <2>6, <3>2
      <4>2. pos[x] + l \in DOMAIN f /\ f[pos[x] + l].to = c
        BY <2>7, <4>1
      <4>3. B < pos[x] + l /\ pos[x] + l <= pos[x] + S(x)
        BY <2>7, <2>8 DEF B
      <4> QED
        BY <2>9, <4>2, <4>3
    <3> QED
      BY <3>1, <3>2
  <2>11. f[B] = h[i]
    BY <2>7 DEF B
  <2>12. Closed(f, B)
    BY <2>10, <2>11 DEF Closed
  <2> QED
    BY <2>12 DEF B
<1>15. AllClosed(f)
  <2> SUFFICES ASSUME NEW p \in DOMAIN f PROVE Closed(f, p)
    BY DEF AllClosed
  <2>1. CASE f[p].calls = <<>>
    BY <2>1 DEF Closed, Ids
  <2>2. CASE f[p].calls # <<>>
    <3>1. CASE \E i \in 1..n : p = pos[i + 1] /\ f[p] = h[i]
      BY <1>14, <2>2, <3>1
    <3>2. CASE \E i \in 1..n : /\ h[i].who # "tool"
                              /\ \E k \in 1..S(i) : p = pos[i] + k /\ f[p] = Stubs(h, i)[k]
      <4>1. PICK i \in 1..n : \E k \in 1..S(i) : p = pos[i] + k /\ f[p] = Stubs(h, i)[k]
        BY <3>2
      <4>2. f[p].calls = <<>>
        BY <4>1, StubsAre DEF n
      <4> QED
        BY <2>2, <4>2
    <3> QED
      BY <1>9, <3>1, <3>2
  <2> QED
    BY <2>1, <2>2
<1>16. \A i \in 1..n : \E p \in DOMAIN f : f[p] = h[i]
  BY <1>8
<1> QED
  BY <1>2, <1>6, <1>13, <1>15, <1>16 DEF n

-----------------------------------------------------------------------------
(* What the model is shown *)

\* The types of a message and its calls.
LEMMA CallsAreSeq ==
    ASSUME NEW h \in Seq(Message), NEW i \in 1..Len(h)
    PROVE  /\ h[i] \in Message /\ h[i].calls \in Seq(Call) /\ Len(h[i].calls) \in Nat
           /\ DOMAIN h[i].calls = 1..Len(h[i].calls)
           /\ h[i].calls = <<>> <=> Len(h[i].calls) = 0
           /\ Ids(h[i].calls) = {h[i].calls[k].id : k \in 1..Len(h[i].calls)}
<1>1. h[i] \in Message
  BY ElementOfSeq
<1>2. h[i].calls \in Seq(Call)
  BY <1>1 DEF Message, Call
<1> DEFINE calls == h[i].calls
<1> HIDE DEF calls
<1>3. calls \in Seq(Call)
  BY <1>2 DEF calls
<1>4. /\ Len(calls) \in Nat /\ DOMAIN calls = 1..Len(calls)
      /\ calls = <<>> <=> Len(calls) = 0
  BY <1>3
<1>5. Ids(calls) = {calls[k].id : k \in 1..Len(calls)}
  BY <1>4 DEF Ids
<1> QED
  BY <1>1, <1>2, <1>4, <1>5 DEF calls

\* The result at j answers the message at b.
Owner(h, b, j) ==
    /\ b \in 1..(j - 1) /\ j \in ResultsAfter(h, b)
    /\ h[j].to \in Ids(h[b].calls) /\ h[b].calls # <<>> /\ h[b].who = "ai"

\* A result belongs to one AI message, and to no other message with calls.
LEMMA OneOwner ==
    ASSUME NEW h \in Seq(Message), Shaped(h), NEW j \in 1..Len(h), h[j].who = "tool"
    PROVE  \E b : /\ Owner(h, b, j)
                  /\ \A m \in (b + 1)..(j - 1) : h[m].to # h[j].to
                  /\ \A i \in 1..Len(h) : h[i].calls # <<>> /\ j \in ResultsAfter(h, i) => i = b
<1>1. DOMAIN h = 1..Len(h) /\ Len(h) \in Nat
  OBVIOUS
<1>2. PICK b \in 1..(j - 1) : /\ j \in ResultsAfter(h, b)
                             /\ h[j].to \in Ids(h[b].calls)
                             /\ \A m \in (b + 1)..(j - 1) : h[m].to # h[j].to
  BY <1>1 DEF Shaped, Owned
<1>3. b \in 1..Len(h) /\ \A i \in 1..Len(h) : h[i].calls # <<>> => h[i].who = "ai"
  BY <1>1 DEF Shaped, Plain
<1>4. h[b].calls # <<>>
  BY <1>2 DEF Ids
<1>5. ASSUME NEW i \in 1..Len(h), h[i].calls # <<>>, j \in ResultsAfter(h, i)
      PROVE  i = b
  <2>1. h[i].who = "ai" /\ h[b].who = "ai"
    BY <1>3, <1>4, <1>5
  <2>2. /\ j \in (i + 1)..Len(h) /\ \A k \in (i + 1)..j : h[k].who = "tool"
        /\ j \in (b + 1)..Len(h) /\ \A k \in (b + 1)..j : h[k].who = "tool"
    BY <1>2, <1>5 DEF ResultsAfter
  <2>3. ~(b \in (i + 1)..j) /\ ~(i \in (b + 1)..j)
    BY <2>1, <2>2
  <2> QED
    BY <1>1, <1>3, <2>2, <2>3
<1>6. Owner(h, b, j)
  BY <1>2, <1>3, <1>4 DEF Owner
<1> QED
  BY <1>2, <1>5, <1>6

\* A closed message has the results of its calls behind it and no other.
LEMMA ClosedGroup ==
    ASSUME NEW h \in Seq(Message), Shaped(h), AllClosed(h),
           NEW i \in 1..Len(h), h[i].calls # <<>>
    PROVE  /\ OwnResults(h, i) = ResultsAfter(h, i)
           /\ Collapses(h, i) <=> Len(h[i].calls) > 1
           /\ i + 1 \in 1..Len(h) /\ i + 1 \in ResultsAfter(h, i)
           /\ Len(h[i].calls) = 1 => ResultsAfter(h, i) = {i + 1}
<1>1. DOMAIN h = 1..Len(h) /\ Len(h) \in Nat
  OBVIOUS
<1> DEFINE R == ResultsAfter(h, i)
           calls == h[i].calls
<1>2. /\ calls \in Seq(Call) /\ Len(calls) \in Nat /\ Len(calls) # 0
      /\ DOMAIN calls = 1..Len(calls)
      /\ Ids(calls) = {calls[k].id : k \in 1..Len(calls)}
  BY CallsAreSeq
<1>3. ASSUME NEW j \in R
      PROVE  /\ j \in (i + 1)..Len(h) /\ h[j].who = "tool" /\ h[j].to \in Ids(calls)
             /\ \A m \in (i + 1)..(j - 1) : m \in R /\ h[m].to # h[j].to
  <2>1. j \in (i + 1)..Len(h) /\ \A k \in (i + 1)..j : h[k].who = "tool"
    BY DEF ResultsAfter
  <2>2. j \in 1..Len(h) /\ h[j].who = "tool"
    BY <1>1, <2>1
  <2>3. PICK b : /\ Owner(h, b, j)
                 /\ \A m \in (b + 1)..(j - 1) : h[m].to # h[j].to
                 /\ \A e \in 1..Len(h) : h[e].calls # <<>> /\ j \in ResultsAfter(h, e) => e = b
    BY <2>2, OneOwner
  <2>4. b = i
    BY <2>3
  <2>5. \A m \in (i + 1)..(j - 1) : m \in R
    <3> SUFFICES ASSUME NEW m \in (i + 1)..(j - 1) PROVE m \in R
      OBVIOUS
    <3>1. m \in (i + 1)..Len(h) /\ \A k \in (i + 1)..m : k \in (i + 1)..j
      BY <1>1, <2>1
    <3> QED
      BY <2>1, <3>1 DEF ResultsAfter
  <2> QED
    BY <2>1, <2>2, <2>3, <2>4, <2>5 DEF Owner
<1>4. OwnResults(h, i) = R
  BY <1>3 DEF OwnResults
<1>5. \A c \in Ids(calls) : \E j \in R : h[j].to = c
  BY <1>1 DEF AllClosed, Closed
<1>6. ASSUME NEW j \in R, NEW m \in R, h[j].to = h[m].to
      PROVE  j = m
  <2>1. j \in (i + 1)..Len(h) /\ m \in (i + 1)..Len(h)
    BY <1>3
  <2>2. ~(m \in (i + 1)..(j - 1)) /\ ~(j \in (i + 1)..(m - 1))
    BY <1>3, <1>6
  <2> QED
    BY <2>1, <2>2
<1> HIDE DEF R
<1>7. \E j \in R : TRUE
  <2>1. calls[1].id \in Ids(calls)
    BY <1>2
  <2> QED
    BY <1>5, <2>1
<1>8. i + 1 \in R /\ i + 1 \in 1..Len(h)
  <2>1. PICK j \in R : TRUE
    BY <1>7
  <2>2. j \in (i + 1)..Len(h)
    BY <1>3
  <2>3. i + 1 = j \/ i + 1 \in (i + 1)..(j - 1)
    BY <2>2
  <2>4. i + 1 \in R
    BY <1>3, <2>1, <2>3
  <2> QED
    BY <1>1, <2>2, <2>4
<1>9. ASSUME Len(calls) = 1
      PROVE  R = {i + 1}
  <2>1. \A c, d \in Ids(calls) : c = d
    BY <1>2, <1>9
  <2>2. \A j, m \in R : h[j].to = h[m].to
    BY <1>3, <2>1
  <2> QED
    BY <1>6, <1>8, <2>2
<1>10. ASSUME Len(calls) > 1
       PROVE  Cardinality(R) > 1
  <2>1. OneEach(calls)
    BY <1>1 DEF Shaped, Plain
  <2>2. 1 \in 1..Len(calls) /\ 2 \in 1..Len(calls)
    BY <1>2, <1>10
  <2>3. calls[1].id # calls[2].id
    BY <1>2, <2>1, <2>2 DEF OneEach
  <2>4. calls[1].id \in Ids(calls) /\ calls[2].id \in Ids(calls)
    BY <1>2, <2>2
  <2>5. PICK j \in R : h[j].to = calls[1].id
    BY <1>5, <2>4
  <2>6. PICK m \in R : h[m].to = calls[2].id
    BY <1>5, <2>4
  <2>7. j # m
    BY <2>3, <2>5, <2>6
  <2>8. IsFiniteSet(R)
    <3>1. R \subseteq 1..Len(h)
      BY <1>1, <1>3
    <3>2. IsFiniteSet(1..Len(h))
      BY <1>1, FS_Interval
    <3> QED
      BY <3>1, <3>2, FS_Subset
  <2>9. Cardinality(R) # 0 /\ Cardinality(R) # 1
    <3>1. R # {} /\ ~(\E x : R = {x})
      BY <2>7
    <3>2. Cardinality(R) # 0
      BY <2>8, <3>1, FS_EmptySet
    <3>3. Cardinality(R) # 1
      BY <2>8, <3>1, FS_Singleton
    <3> QED
      BY <3>2, <3>3
  <2> QED
    BY <2>8, <2>9, FS_CardinalityType
<1>11. Collapses(h, i) <=> Len(calls) > 1
  BY <1>4, <1>10 DEF Collapses
<1> QED
  BY <1>4, <1>8, <1>9, <1>11 DEF R

\* A call is alone in its message and answered by the next; a result follows its call.
Paired(v) ==
    /\ \A i \in DOMAIN v : Len(v[i].calls) <= 1
    /\ \A i \in DOMAIN v : v[i].calls # <<>> =>
          i < Len(v) /\ v[i + 1].who = "tool" /\ v[i + 1].to = v[i].calls[1].id
    /\ \A i \in DOMAIN v : v[i].who = "tool" =>
          i > 1 /\ v[i].to \in Ids(v[i - 1].calls)
    /\ \A i \in DOMAIN v : v[i].who = "tool" => v[i].calls = <<>>

\* The types of an AI message.
LEMMA AIIs ==
    ASSUME NEW calls
    PROVE  /\ AI(calls).who = "ai" /\ AI(calls).calls = calls
           /\ calls \in Seq(Call) => AI(calls) \in Message
<1>1. <<>> \in Seq(Call)
  OBVIOUS
<1>2. Human \in Message
  BY <1>1 DEF Human, Message, Call
<1>3. AI(calls) = [Human EXCEPT !.who = "ai", !.calls = calls]
  BY DEF AI
<1> QED
  BY <1>2, <1>3 DEF Message, Call

\* What collapse_tool_messages leaves of a closed history is paired.
LEMMA CollapsedIsPaired ==
    ASSUME NEW h \in Seq(Message), Shaped(h), AllClosed(h)
    PROVE  Paired(CollapsedTools(h)) /\ \E S : CollapsedTools(h) \in Seq(S)
<1> DEFINE n == Len(h)
           Ask(i) == AI(<<[id |-> h[i].calls[1].id, tool |-> "multi_tool_use"]>>)
           Reply(i) == Result(h[i].calls[1].id, FALSE)
           Dropped(i) == \E b \in 1..(i - 1) : Collapses(h, b) /\ i \in OwnResults(h, b)
           q == [i \in DOMAIN h |-> IF Collapses(h, i) THEN <<Ask(i), Reply(i)>>
                                    ELSE IF Dropped(i) THEN <<>> ELSE <<h[i]>>]
           f == FlattenSeq(q)
<1>1. n \in Nat /\ DOMAIN h = 1..n
  OBVIOUS
<1>2. CollapsedTools(h) = f
  BY DEF CollapsedTools
<1>3. \A i \in 1..n : q[i] = IF Collapses(h, i) THEN <<Ask(i), Reply(i)>>
                              ELSE IF Dropped(i) THEN <<>> ELSE <<h[i]>>
  BY <1>1
<1>4. q = [i \in 1..n |-> q[i]]
  BY <1>1
<1> HIDE DEF q, n
<1>5. ASSUME NEW i \in 1..n
      PROVE  /\ h[i] \in Message /\ Len(h[i].calls) \in Nat
             /\ h[i].calls = <<>> <=> Len(h[i].calls) = 0
             /\ h[i].who = "tool" => h[i].calls = <<>>
             /\ h[i].calls # <<>> => /\ h[i].calls[1] \in Call
                                    /\ h[i].calls[1].id \in Ids(h[i].calls)
             /\ Len(h[i].calls) = 1 => Ids(h[i].calls) = {h[i].calls[1].id}
             /\ Ids(<<>>) = {}
  <2>1. /\ h[i] \in Message /\ h[i].calls \in Seq(Call) /\ Len(h[i].calls) \in Nat
        /\ DOMAIN h[i].calls = 1..Len(h[i].calls)
        /\ h[i].calls = <<>> <=> Len(h[i].calls) = 0
        /\ Ids(h[i].calls) = {h[i].calls[k].id : k \in 1..Len(h[i].calls)}
    BY CallsAreSeq DEF n
  <2>2. h[i].who = "tool" => h[i].calls = <<>>
    BY <1>1 DEF Shaped, Plain
  <2>3. h[i].calls # <<>> => 1 \in 1..Len(h[i].calls)
    BY <2>1
  <2>4. Ids(<<>>) = {}
    BY DEF Ids
  <2> QED
    BY <2>1, <2>2, <2>3, <2>4, ElementOfSeq
<1>6. ASSUME NEW i \in 1..n, Len(h[i].calls) > 1
      PROVE  /\ q[i] = <<Ask(i), Reply(i)>>
             /\ Ask(i).who = "ai" /\ Ask(i).calls # <<>> /\ Len(Ask(i).calls) = 1
             /\ Ask(i).calls[1].id = Reply(i).to /\ Ids(Ask(i).calls) = {Reply(i).to}
             /\ Reply(i).who = "tool" /\ Reply(i).calls = <<>>
  <2>1. h[i].calls # <<>>
    BY <1>5, <1>6
  <2>2. Collapses(h, i)
    BY <1>6, <2>1, ClosedGroup DEF n
  <2> DEFINE c == [id |-> h[i].calls[1].id, tool |-> "multi_tool_use"]
  <2>3. c.id = h[i].calls[1].id /\ h[i].calls[1].id \in Nat
    <3>1. h[i].calls[1] \in Call
      BY <1>5, <2>1
    <3> QED
      BY <3>1 DEF Call
  <2> HIDE DEF c
  <2>4. Len(<<c>>) = 1 /\ <<c>>[1] = c /\ <<c>> # <<>> /\ DOMAIN <<c>> = 1..1
    OBVIOUS
  <2>5. Ask(i).who = "ai" /\ Ask(i).calls = <<c>>
    BY AIIs DEF c
  <2>6. Ids(<<c>>) = {c.id}
    BY <2>4 DEF Ids
  <2>7. /\ Reply(i).who = "tool" /\ Reply(i).calls = <<>>
        /\ Reply(i).to = h[i].calls[1].id
    BY <2>3, ResultIs
  <2> QED
    BY <1>3, <2>2, <2>3, <2>4, <2>5, <2>6, <2>7
<1>7. ASSUME NEW i \in 1..n, Len(h[i].calls) <= 1, h[i].who # "tool"
      PROVE  q[i] = <<h[i]>>
  <2>1. ~Collapses(h, i)
    BY <1>5, <1>7 DEF Collapses
  <2>2. ~Dropped(i)
    <3> SUFFICES ASSUME NEW b \in 1..(i - 1), i \in OwnResults(h, b) PROVE FALSE
      OBVIOUS
    <3>1. i \in (b + 1)..Len(h) /\ \A k \in (b + 1)..i : h[k].who = "tool"
      BY DEF OwnResults, ResultsAfter
    <3> QED
      BY <1>7, <3>1
  <2> QED
    BY <1>3, <2>1, <2>2
<1>8. ASSUME NEW i \in 1..n, h[i].who = "tool"
      PROVE  \/ q[i] = <<>>
             \/ /\ q[i] = <<h[i]>> /\ i - 1 \in 1..n
                /\ q[i - 1] = <<h[i - 1]>> /\ h[i].to \in Ids(h[i - 1].calls)
  <2>1. PICK b : /\ Owner(h, b, i)
                 /\ \A e \in 1..Len(h) : h[e].calls # <<>> /\ i \in ResultsAfter(h, e) => e = b
    BY <1>8, OneOwner DEF n
  <2>2. /\ b \in 1..(i - 1) /\ b \in 1..n /\ i \in ResultsAfter(h, b)
        /\ h[b].calls # <<>> /\ h[b].who = "ai" /\ h[i].to \in Ids(h[b].calls)
    BY <1>1, <2>1 DEF Owner
  <2>3. /\ OwnResults(h, b) = ResultsAfter(h, b)
        /\ Collapses(h, b) <=> Len(h[b].calls) > 1
        /\ Len(h[b].calls) = 1 => ResultsAfter(h, b) = {b + 1}
    BY <2>2, ClosedGroup DEF n
  <2>4. ~Collapses(h, i)
    BY <1>5, <1>8 DEF Collapses
  <2>5. CASE Len(h[b].calls) > 1
    <3>1. Dropped(i)
      BY <2>2, <2>3, <2>5
    <3> QED
      BY <1>3, <2>4, <3>1
  <2>6. CASE Len(h[b].calls) = 1
    <3>1. ~Dropped(i)
      <4> SUFFICES ASSUME NEW e \in 1..(i - 1), Collapses(h, e), i \in OwnResults(h, e)
                   PROVE  FALSE
        OBVIOUS
      <4>1. e \in 1..n
        BY <1>1
      <4>2. h[e].calls # <<>> /\ i \in ResultsAfter(h, e)
        BY <1>5, <4>1 DEF Collapses, OwnResults
      <4>3. e = b
        BY <2>1, <4>1, <4>2 DEF n
      <4> QED
        BY <2>3, <2>6, <4>3
    <3>2. i = b + 1
      BY <2>2, <2>3, <2>6
    <3>3. i - 1 = b
      BY <2>2, <3>2
    <3>4. q[b] = <<h[b]>>
      <4>1. Len(h[b].calls) <= 1 /\ h[b].who # "tool"
        BY <2>2, <2>6
      <4> QED
        BY <1>7, <2>2, <4>1
    <3> QED
      BY <1>3, <2>2, <2>4, <3>1, <3>3, <3>4
  <2>7. Len(h[b].calls) > 1 \/ Len(h[b].calls) = 1
    <3>1. Len(h[b].calls) \in Nat /\ Len(h[b].calls) # 0
      BY <1>5, <2>2
    <3>2. \A x \in Nat : x # 0 => x > 1 \/ x = 1
      OBVIOUS
    <3> QED
      BY <3>1, <3>2
  <2> QED
    BY <2>5, <2>6, <2>7
<1>9. \A i \in 1..n : \/ h[i].who = "tool"
                      \/ Len(h[i].calls) > 1
                      \/ Len(h[i].calls) <= 1 /\ h[i].who # "tool"
  BY <1>5
<1> DEFINE M == Message \cup {Ask(i) : i \in 1..n} \cup {Reply(i) : i \in 1..n}
<1>10. q \in Seq(Seq(M)) /\ Len(q) = n
  <2>1. ASSUME NEW i \in 1..n
        PROVE  q[i] \in Seq(M)
    <3>1. h[i] \in M /\ Ask(i) \in M /\ Reply(i) \in M
      BY <1>5
    <3> HIDE DEF M, Ask, Reply
    <3>2. <<h[i]>> \in Seq(M) /\ <<>> \in Seq(M) /\ <<Ask(i), Reply(i)>> \in Seq(M)
      BY <3>1
    <3>3. Len(h[i].calls) > 1 => q[i] = <<Ask(i), Reply(i)>>
      BY <1>6 DEF Ask, Reply
    <3> QED
      BY <1>7, <1>8, <1>9, <3>2, <3>3
  <2> HIDE DEF M
  <2> QED
    BY <1>1, <1>4, <2>1
<1> HIDE DEF M
<1>11. f \in Seq(M)
  BY <1>10, FlattenPlaces
<1>12. PICK pos : Places(q, f, pos)
  BY <1>10, FlattenPlaces
<1>13. DOMAIN f = 1..Len(f) /\ Len(f) \in Nat
  BY <1>11
<1> HIDE DEF f, Ask, Reply
<1>14. ASSUME NEW i \in 1..n
       PROVE  /\ pos[i] \in Nat /\ pos[i + 1] = pos[i] + Len(q[i])
              /\ \A k \in 1..Len(q[i]) : pos[i] + k \in DOMAIN f /\ f[pos[i] + k] = q[i][k]
  BY <1>10, <1>12, PlaceIn
\* What Paired says of each place of f.
<1> DEFINE Good(p) ==
        /\ Len(f[p].calls) <= 1
        /\ f[p].calls # <<>> =>
              p < Len(f) /\ f[p + 1].who = "tool" /\ f[p + 1].to = f[p].calls[1].id
        /\ f[p].who = "tool" => p > 1 /\ f[p].to \in Ids(f[p - 1].calls)
        /\ f[p].who = "tool" => f[p].calls = <<>>
<1>15. ASSUME NEW i \in 1..n, NEW k \in 1..Len(q[i])
       PROVE  Good(pos[i] + k)
  <2>0. /\ pos[i] \in Nat
        /\ \A l \in 1..Len(q[i]) : pos[i] + l \in DOMAIN f /\ f[pos[i] + l] = q[i][l]
    BY <1>14
  <2>1. CASE Len(h[i].calls) > 1
    <3>0. q[i] = <<Ask(i), Reply(i)>>
      BY <1>6, <2>1
    <3>1. Len(q[i]) = 2 /\ q[i][1] = Ask(i) /\ q[i][2] = Reply(i)
      BY <3>0
    <3>2. /\ pos[i] + 1 \in DOMAIN f /\ f[pos[i] + 1] = Ask(i)
          /\ pos[i] + 2 \in DOMAIN f /\ f[pos[i] + 2] = Reply(i)
      BY <2>0, <3>1
    <3>3. (pos[i] + 1) + 1 = pos[i] + 2 /\ (pos[i] + 2) - 1 = pos[i] + 1
          /\ pos[i] + 1 < Len(f) /\ pos[i] + 2 > 1
      BY <1>13, <2>0, <3>2
    <3>4. k = 1 \/ k = 2
      BY <3>1
    <3>5. Good(pos[i] + 1)
      <4>1. /\ Ask(i).who = "ai" /\ Len(Ask(i).calls) = 1
            /\ Ask(i).calls[1].id = Reply(i).to /\ Reply(i).who = "tool"
        BY <1>6, <2>1
      <4>2. Len(Ask(i).calls) <= 1 /\ Ask(i).who # "tool"
        BY <4>1
      <4> QED
        BY <3>2, <3>3, <4>1, <4>2
    <3>6. Good(pos[i] + 2)
      <4>1. Len(Reply(i).calls) <= 1
        BY <1>6, <2>1
      <4> QED
        BY <1>6, <2>1, <3>2, <3>3, <4>1
    <3> QED
      BY <3>4, <3>5, <3>6
  <2>2. CASE h[i].who = "tool"
    <3>1. q[i] # <<>>
      OBVIOUS
    <3>2. /\ q[i] = <<h[i]>> /\ i - 1 \in 1..n
          /\ q[i - 1] = <<h[i - 1]>> /\ h[i].to \in Ids(h[i - 1].calls)
      BY <1>8, <2>2, <3>1
    <3>3. k = 1 /\ f[pos[i] + 1] = h[i] /\ pos[i] + 1 \in DOMAIN f
      BY <2>0, <3>2
    <3> DEFINE b == i - 1
    <3>4. b \in 1..n /\ b + 1 = i /\ q[b] = <<h[b]>>
      BY <3>2
    <3> HIDE DEF b
    <3>5. pos[b] \in Nat /\ pos[b + 1] = pos[b] + 1 /\ pos[b] + 1 \in DOMAIN f /\ f[pos[b] + 1] = h[b]
      <4>1. Len(q[b]) = 1 /\ q[b][1] = h[b] /\ 1 \in 1..1
        BY <3>4
      <4>2. /\ pos[b] \in Nat /\ pos[b + 1] = pos[b] + Len(q[b])
            /\ \A l \in 1..Len(q[b]) : pos[b] + l \in DOMAIN f /\ f[pos[b] + l] = q[b][l]
        BY <1>14, <3>4
      <4> QED
        BY <4>1, <4>2
    <3>6. (pos[i] + 1) - 1 = pos[b] + 1 /\ pos[i] + 1 > 1
      BY <3>4, <3>5
    <3>7. f[(pos[i] + 1) - 1] = h[i - 1]
      BY <3>5, <3>6 DEF b
    <3>8. h[i].calls = <<>> /\ Len(h[i].calls) <= 1
      BY <1>5, <2>2
    <3> QED
      BY <2>2, <3>2, <3>3, <3>6, <3>7, <3>8
  <2>3. CASE Len(h[i].calls) <= 1 /\ h[i].who # "tool"
    <3>1. q[i] = <<h[i]>>
      BY <1>7, <2>3
    <3>2. k = 1 /\ f[pos[i] + 1] = h[i] /\ pos[i] + 1 \in DOMAIN f /\ pos[i + 1] = pos[i] + 1
      <4>1. Len(q[i]) = 1 /\ q[i][1] = h[i]
        BY <3>1
      <4> QED
        BY <1>14, <4>1
    <3>3. ASSUME h[i].calls # <<>>
          PROVE  /\ pos[i] + 1 < Len(f) /\ f[(pos[i] + 1) + 1].who = "tool"
                 /\ f[(pos[i] + 1) + 1].to = h[i].calls[1].id
      <4>1. Len(h[i].calls) = 1
        <5>1. Len(h[i].calls) \in Nat /\ Len(h[i].calls) # 0 /\ Len(h[i].calls) <= 1
          BY <1>5, <2>3, <3>3
        <5>2. \A x \in Nat : x # 0 /\ x <= 1 => x = 1
          OBVIOUS
        <5> QED
          BY <5>1, <5>2
      <4>2. /\ OwnResults(h, i) = ResultsAfter(h, i) /\ i + 1 \in 1..n
            /\ i + 1 \in ResultsAfter(h, i) /\ ~Collapses(h, i)
        <5>1. /\ OwnResults(h, i) = ResultsAfter(h, i) /\ i + 1 \in 1..n
              /\ i + 1 \in ResultsAfter(h, i)
              /\ Collapses(h, i) <=> Len(h[i].calls) > 1
          BY <3>3, ClosedGroup DEF n
        <5> QED
          BY <4>1, <5>1
      <4>3. h[i + 1].who = "tool" /\ h[i + 1].to \in Ids(h[i].calls)
        <5>1. i + 1 \in OwnResults(h, i)
          BY <4>2
        <5> QED
          BY <4>2, <5>1 DEF OwnResults, ResultsAfter
      <4>4. h[i + 1].to = h[i].calls[1].id
        BY <1>5, <4>1, <4>3
      <4> DEFINE j == i + 1
      <4>5. j \in 1..n /\ h[j].who = "tool" /\ j \in ResultsAfter(h, i)
        BY <4>2, <4>3
      <4>6. q[j] = <<h[j]>>
        <5>1. ~Dropped(j)
          <6> SUFFICES ASSUME NEW e \in 1..(j - 1), Collapses(h, e), j \in OwnResults(h, e)
                       PROVE  FALSE
            OBVIOUS
          <6>1. e \in 1..n
            BY <1>1, <4>5
          <6>2. h[e].calls # <<>> /\ j \in ResultsAfter(h, e)
            BY <1>5, <6>1 DEF Collapses, OwnResults
          <6>3. PICK b : \A d \in 1..Len(h) : h[d].calls # <<>> /\ j \in ResultsAfter(h, d) => d = b
            BY <4>5, OneOwner DEF n
          <6>4. e = i
            BY <3>3, <4>5, <6>1, <6>2, <6>3 DEF n
          <6> QED
            BY <4>2, <6>4
        <5>2. ~Collapses(h, j)
          BY <1>5, <4>5 DEF Collapses
        <5> HIDE DEF j
        <5> QED
          BY <1>3, <4>5, <5>1, <5>2
      <4> HIDE DEF j
      <4>7. pos[j] + 1 \in DOMAIN f /\ f[pos[j] + 1] = h[j]
        <5>1. Len(q[j]) = 1 /\ q[j][1] = h[j]
          BY <4>6
        <5> QED
          BY <1>14, <4>5, <5>1
      <4>8. pos[j] = pos[i] + 1
        BY <3>2 DEF j
      <4>9. pos[i] + 1 < Len(f)
        BY <1>13, <2>0, <4>7, <4>8
      <4> QED
        BY <4>3, <4>4, <4>7, <4>8, <4>9 DEF j
    <3> QED
      BY <2>3, <3>2, <3>3
  <2> QED
    BY <1>9, <2>1, <2>2, <2>3
<1>16. ASSUME NEW p \in DOMAIN f
       PROVE  Good(p)
  <2>1. PICK i \in 1..n : \E k \in 1..Len(q[i]) : p = pos[i] + k /\ f[p] = q[i][k]
    <3>1. \A r \in DOMAIN f :
             \E i \in 1..Len(q) : \E k \in 1..Len(q[i]) : r = pos[i] + k /\ f[r] = q[i][k]
      BY <1>12, PlaceOf
    <3> QED
      BY <1>10, <3>1
  <2>2. PICK k \in 1..Len(q[i]) : p = pos[i] + k
    BY <2>1
  <2> QED
    BY <1>15, <2>2
<1>17. Paired(f)
  BY <1>16 DEF Paired
<1> QED
  BY <1>2, <1>11, <1>17

\* collapse_think_hops leaves a paired history paired.
LEMMA ThinksArePaired ==
    ASSUME NEW S, NEW h \in Seq(S), Paired(h)
    PROVE  Paired(CollapsedThinks(h))
<1> DEFINE n == Len(h)
           Dropped(i) == \/ ThinkPair(h, i) /\ ThinkPair(h, i + 2)
                         \/ ThinkPair(h, i - 1) /\ ThinkPair(h, i + 1)
           q == [i \in DOMAIN h |-> IF Dropped(i) THEN <<>> ELSE <<h[i]>>]
           f == FlattenSeq(q)
<1>1. n \in Nat /\ DOMAIN h = 1..n /\ \A i \in 1..n : h[i] \in S
  OBVIOUS
<1>2. CollapsedThinks(h) = f
  BY DEF CollapsedThinks
<1>3. \A i \in 1..n : q[i] = IF Dropped(i) THEN <<>> ELSE <<h[i]>>
  BY <1>1
<1>4. q \in Seq(Seq(S)) /\ Len(q) = n
  <2>1. q = [i \in 1..n |-> q[i]]
    BY <1>1
  <2>2. \A i \in 1..n : q[i] \in Seq(S)
    <3> SUFFICES ASSUME NEW i \in 1..n PROVE q[i] \in Seq(S)
      OBVIOUS
    <3>1. <<h[i]>> \in Seq(S) /\ <<>> \in Seq(S)
      BY <1>1
    <3> QED
      BY <1>3, <3>1
  <2> HIDE DEF n, q
  <2> QED
    BY <1>1, <2>1, <2>2
<1> HIDE DEF n, q
<1>5. f \in Seq(S)
  BY <1>4, FlattenPlaces
<1>6. PICK pos : Places(q, f, pos)
  BY <1>4, FlattenPlaces
<1> HIDE DEF f
<1>7. DOMAIN f = 1..Len(f) /\ Len(f) \in Nat
  BY <1>5
<1>8. ASSUME NEW i \in 1..n, ~Dropped(i)
      PROVE  pos[i] \in Nat /\ pos[i + 1] = pos[i] + 1
             /\ pos[i] + 1 \in DOMAIN f /\ f[pos[i] + 1] = h[i]
  <2>1. q[i] = <<h[i]>>
    BY <1>3, <1>8
  <2>2. Len(q[i]) = 1 /\ q[i][1] = h[i]
    BY <2>1
  <2>3. /\ pos[i] \in Nat /\ pos[i + 1] = pos[i] + Len(q[i])
        /\ \A k \in 1..Len(q[i]) : pos[i] + k \in DOMAIN f /\ f[pos[i] + k] = q[i][k]
    BY <1>4, <1>6, PlaceIn
  <2> QED
    BY <2>2, <2>3
<1>9. ASSUME NEW p \in DOMAIN f
      PROVE  \E i \in 1..n : ~Dropped(i) /\ p = pos[i] + 1
  <2>1. \A r \in DOMAIN f :
           \E i \in 1..Len(q) : \E k \in 1..Len(q[i]) : r = pos[i] + k /\ f[r] = q[i][k]
    BY <1>6, PlaceOf
  <2>2. PICK i \in 1..n : \E k \in 1..Len(q[i]) : p = pos[i] + k
    BY <1>4, <2>1
  <2>3. PICK k \in 1..Len(q[i]) : p = pos[i] + k
    BY <2>2
  <2>4. ~Dropped(i)
    <3> SUFFICES ASSUME Dropped(i) PROVE FALSE
      OBVIOUS
    <3>1. q[i] = <<>>
      BY <1>3
    <3> QED
      BY <2>3, <3>1
  <2>5. q[i] = <<h[i]>>
    BY <1>3, <2>4
  <2>6. k = 1
    BY <2>3, <2>5
  <2> QED
    BY <2>3, <2>4, <2>6
\* A pair goes as a whole.
<1>10. ASSUME NEW i \in 1..n, ~Dropped(i), h[i].calls # <<>>
       PROVE  /\ i + 1 \in 1..n /\ ~Dropped(i + 1)
              /\ h[i + 1].who = "tool" /\ h[i + 1].to = h[i].calls[1].id
  <2>1. i < n /\ h[i + 1].who = "tool" /\ h[i + 1].to = h[i].calls[1].id
    BY <1>1, <1>10 DEF Paired, n
  <2>2. i + 1 \in 1..n
    BY <1>1, <2>1
  <2>3. h[i + 1].calls = <<>>
    BY <1>1, <2>1, <2>2 DEF Paired
  <2>4. ~ThinkPair(h, i + 1)
    BY <2>3 DEF ThinkPair
  <2>5. (i + 1) - 1 = i /\ (i + 1) + 1 = i + 2
    BY <1>1
  <2> QED
    BY <1>10, <2>1, <2>2, <2>4, <2>5
<1>11. ASSUME NEW i \in 1..n, ~Dropped(i), h[i].who = "tool"
       PROVE  /\ i - 1 \in 1..n /\ ~Dropped(i - 1)
              /\ h[i].to \in Ids(h[i - 1].calls) /\ h[i].calls = <<>>
  <2>1. i > 1 /\ h[i].to \in Ids(h[i - 1].calls) /\ h[i].calls = <<>>
    BY <1>1, <1>11 DEF Paired
  <2>2. i - 1 \in 1..n
    BY <1>1, <2>1
  <2>3. ~ThinkPair(h, i)
    BY <2>1 DEF ThinkPair
  <2>4. (i - 1) + 1 = i /\ (i - 1) + 2 = i + 1
    BY <1>1
  <2> QED
    BY <1>11, <2>1, <2>2, <2>3, <2>4
<1> HIDE DEF Dropped
<1>12. ASSUME NEW p \in DOMAIN f
       PROVE  /\ Len(f[p].calls) <= 1
              /\ f[p].calls # <<>> =>
                    p < Len(f) /\ f[p + 1].who = "tool" /\ f[p + 1].to = f[p].calls[1].id
              /\ f[p].who = "tool" => p > 1 /\ f[p].to \in Ids(f[p - 1].calls)
              /\ f[p].who = "tool" => f[p].calls = <<>>
  <2>1. PICK i \in 1..n : ~Dropped(i) /\ p = pos[i] + 1
    BY <1>9
  <2>2. f[p] = h[i] /\ pos[i] \in Nat /\ pos[i + 1] = pos[i] + 1
    BY <1>8, <2>1
  <2>3. Len(h[i].calls) <= 1
    BY <1>1 DEF Paired
  <2>4. ASSUME h[i].calls # <<>>
        PROVE  p < Len(f) /\ f[p + 1].who = "tool" /\ f[p + 1].to = h[i].calls[1].id
    <3> DEFINE j == i + 1
    <3>1. /\ j \in 1..n /\ ~Dropped(j) /\ h[j].who = "tool" /\ h[j].to = h[i].calls[1].id
          /\ pos[j] = p
      BY <1>10, <2>1, <2>2, <2>4
    <3> HIDE DEF j
    <3>2. p + 1 \in DOMAIN f /\ f[p + 1] = h[j]
      BY <1>8, <3>1
    <3>3. p < Len(f)
      BY <1>7, <3>2
    <3> QED
      BY <3>1, <3>2, <3>3
  <2>5. ASSUME h[i].who = "tool"
        PROVE  p > 1 /\ h[i].to \in Ids(f[p - 1].calls) /\ h[i].calls = <<>>
    <3> DEFINE j == i - 1
    <3>1. /\ j \in 1..n /\ ~Dropped(j) /\ h[i].to \in Ids(h[j].calls) /\ h[i].calls = <<>>
          /\ j + 1 = i
      BY <1>11, <2>1, <2>5
    <3> HIDE DEF j
    <3>2. /\ pos[j] \in Nat /\ pos[j + 1] = pos[j] + 1
          /\ pos[j] + 1 \in DOMAIN f /\ f[pos[j] + 1] = h[j]
      BY <1>8, <3>1
    <3>3. p - 1 = pos[j] + 1 /\ p > 1
      BY <2>1, <3>1, <3>2
    <3> QED
      BY <3>1, <3>2, <3>3
  <2> QED
    BY <2>2, <2>3, <2>4, <2>5
<1>13. Paired(f)
  BY <1>12 DEF Paired
<1> QED
  BY <1>2, <1>13

\* From a history whose calls are all answered the model is shown what its API accepts.
LEMMA ViewIsPaired ==
    ASSUME NEW h \in Seq(Message), Shaped(h), AllClosed(h)
    PROVE  Paired(LlmView(h))
<1>1. Paired(CollapsedTools(h)) /\ \E S : CollapsedTools(h) \in Seq(S)
  BY CollapsedIsPaired
<1>2. PICK S : CollapsedTools(h) \in Seq(S)
  BY <1>1
<1> QED
  BY <1>1, <1>2, ThinksArePaired DEF LlmView

-----------------------------------------------------------------------------
(* The invariant *)

ActiveRun == at = "tools" /\ phase \in {"running", "interrupted"}
Got == {"waits", "runs", "ok", "raised", "error"}
Job == [id : Nat, tool : STRING, got : Got]
Log == [began : SUBSET Nat, refused : SUBSET Nat, overruled : SUBSET Nat,
        used : SUBSET Nat, lost : BOOLEAN]

LogTypes == log \in Log /\ IsFiniteSet(log.used) /\ turns \in [humans : Nat, upsets : Nat]

\* What the history is like where a node runs or waits.
Placed ==
    /\ at = "before_agent" /\ phase = "running" => hist # <<>> /\ Last(hist).who = "human"
    /\ at = "model" => AllClosed(hist)
    /\ at = "after_model" => hist # <<>> /\ OpenLast(hist, Len(hist))
    /\ ActiveRun => \E a \in DOMAIN hist : OpenLast(hist, a)
    /\ phase = "interrupted" => at \in {"after_model", "tools"}
    /\ phase = "failed" => at = "model"
    /\ phase = "done" => at = "before_agent"

\* The tools node works on the calls that have no answer yet.
SameCalls(w, calls) ==
    /\ DOMAIN w = DOMAIN calls
    /\ \A k \in DOMAIN w : w[k].id = calls[k].id /\ w[k].tool = calls[k].tool
WorkIs == ActiveRun => SameCalls(work, Pending(hist))

\* New calls get new ids; none that may still run is refused.
LogOK ==
    /\ \A i \in log.began \cup log.refused : i <= LastId(hist)
    /\ log.began \cap log.refused \subseteq log.overruled
    /\ at = "after_model" => Ids(Last(hist).calls) \cap (log.began \cup log.refused) = {}
    /\ ActiveRun => Ids(work) \cap log.refused \subseteq log.overruled

\* A kernel in use is the first one, and is named by the thread's state, or by the node
\* that works, or is about to be.
PythonOk == \E k \in DOMAIN work : IsPython(work[k]) /\ work[k].got = "ok"
KernelOK ==
    ~log.lost =>
        /\ log.used \subseteq {1}
        /\ kernel # 0 => kernel = 1 /\ log.used = {1}
        /\ chain # 0 => chain = 1 /\ log.used = {1}
        /\ ActiveRun /\ chain = 0 => log.used = {}
        /\ kernel = 0 /\ log.used # {} => PythonOk
        /\ PythonOk => chain # 0
        /\ \A k \in DOMAIN work : IsPython(work[k]) =>
              work[k].got \in {"waits", "runs", "ok"} /\ phase # "interrupted"

ThreadInv == TurnTypeOK /\ LogTypes /\ Shaped(hist) /\ Placed /\ WorkIs /\ LogOK /\ KernelOK

-----------------------------------------------------------------------------
(* The parts of the actions *)

\* The types of a message of the user.
LEMMA HumanIs ==
    /\ Human \in Message /\ Plain(Human)
    /\ Human.who = "human" /\ Human.calls = <<>>
<1>1. <<>> \in Seq(Call) /\ DOMAIN <<>> = {}
  OBVIOUS
<1>2. Human \in Message /\ Human.who = "human" /\ Human.calls = <<>>
  BY <1>1 DEF Human, Message, Call
<1> QED
  BY <1>1, <1>2 DEF Plain, OneEach

\* A history that has all messages of another has all its calls.
LEMMA LastIdGrows ==
    ASSUME NEW h \in Seq(Message), NEW g \in Seq(Message),
           \A i \in 1..Len(h) : \E p \in DOMAIN g : g[p] = h[i]
    PROVE  LastId(h) \in Nat /\ LastId(g) \in Nat /\ LastId(h) <= LastId(g)
<1>1. /\ LastId(h) \in Nat
      /\ LastId(h) = 0 \/ \E i \in 1..Len(h) : LastId(h) \in Ids(h[i].calls)
  BY LastIdIs
<1>2. /\ LastId(g) \in Nat
      /\ \A i \in 1..Len(g) : \A c \in Ids(g[i].calls) : c \in Nat /\ c <= LastId(g)
  BY LastIdIs
<1>3. DOMAIN g = 1..Len(g)
  OBVIOUS
<1> QED
  BY <1>1, <1>2, <1>3

\* The calls of an answer of the model are new.
LEMMA AskingIs ==
    ASSUME NEW n \in Nat, NEW batch \in Seq(STRING)
    PROVE  /\ Asking(n, batch) \in Message /\ Plain(Asking(n, batch))
           /\ Asking(n, batch).who = "ai"
           /\ \A i \in Ids(Asking(n, batch).calls) : i > n
<1> DEFINE calls == [k \in DOMAIN batch |-> [id |-> n + k, tool |-> batch[k]]]
<1>1. DOMAIN batch = 1..Len(batch) /\ Len(batch) \in Nat
  OBVIOUS
<1>2. \A k \in 1..Len(batch) : batch[k] \in STRING
  OBVIOUS
<1>3. calls \in Seq(Call)
  <2>1. \A k \in 1..Len(batch) : [id |-> n + k, tool |-> batch[k]] \in Call
    BY <1>2 DEF Call
  <2>2. calls = [k \in 1..Len(batch) |-> [id |-> n + k, tool |-> batch[k]]]
    BY <1>1
  <2> QED
    BY <1>1, <2>1, <2>2
<1>4. DOMAIN calls = 1..Len(batch) /\ \A k \in DOMAIN calls : calls[k].id = n + k
  BY <1>1
<1>5. Asking(n, batch) = AI(calls)
  BY DEF Asking
<1> HIDE DEF calls
<1>6. OneEach(calls)
  BY <1>1, <1>4 DEF OneEach
<1>7. \A i \in Ids(calls) : i > n
  BY <1>1, <1>4 DEF Ids
<1>8. AI(calls).who = "ai" /\ AI(calls).calls = calls /\ AI(calls) \in Message
  BY <1>3, AIIs
<1> QED
  BY <1>5, <1>6, <1>7, <1>8 DEF Plain

\* Stubs for calls.
StubsOf(calls) == [k \in DOMAIN calls |-> Stub(calls[k])]

\* They are results to different calls.
LEMMA StubsFor ==
    ASSUME NEW calls \in Seq(Call), OneEach(calls)
    PROVE  /\ StubsOf(calls) \in Seq(Message)
           /\ \A k \in 1..Len(StubsOf(calls)) :
                 StubsOf(calls)[k].who = "tool" /\ StubsOf(calls)[k].calls = <<>>
           /\ {StubsOf(calls)[k].to : k \in 1..Len(StubsOf(calls))} = Ids(calls)
           /\ \A k, l \in 1..Len(StubsOf(calls)) :
                 StubsOf(calls)[k].to = StubsOf(calls)[l].to => k = l
<1> DEFINE r == StubsOf(calls)
<1>1. DOMAIN calls = 1..Len(calls) /\ Len(calls) \in Nat
  OBVIOUS
<1>2. \A k \in 1..Len(calls) : calls[k].id \in Nat
  <2>1. \A k \in 1..Len(calls) : calls[k] \in Call
    OBVIOUS
  <2> QED
    BY <2>1 DEF Call
<1>3. \A k \in 1..Len(calls) : /\ Stub(calls[k]) \in Message
                               /\ Stub(calls[k]).who = "tool"
                               /\ Stub(calls[k]).calls = <<>>
                               /\ Stub(calls[k]).to = calls[k].id
  BY <1>2, ResultIs DEF Stub
<1>4. r \in Seq(Message) /\ Len(r) = Len(calls) /\ \A k \in 1..Len(calls) : r[k] = Stub(calls[k])
  <2>1. r = [k \in 1..Len(calls) |-> Stub(calls[k])]
    BY <1>1 DEF StubsOf
  <2> QED
    BY <1>1, <1>3, <2>1
<1>5. {r[k].to : k \in 1..Len(r)} = Ids(calls)
  BY <1>1, <1>3, <1>4 DEF Ids
<1>6. \A k, l \in 1..Len(r) : r[k].to = r[l].to => k = l
  BY <1>1, <1>3, <1>4 DEF OneEach
<1>7. \A k \in 1..Len(r) : r[k].who = "tool" /\ r[k].calls = <<>>
  BY <1>3, <1>4
<1> QED
  BY <1>4, <1>5, <1>6, <1>7

\* A node that begins has its calls in hand; no python call of it is done.
LEMMA BegunIs ==
    ASSUME NEW calls \in Seq(Call)
    PROVE  /\ Begun(calls) \in Seq(Job) /\ SameCalls(Begun(calls), calls)
           /\ \A k \in DOMAIN Begun(calls) : Begun(calls)[k].got \in {"waits", "runs"}
           /\ Ids(Begun(calls)) = Ids(calls)
<1> DEFINE One(k) == [id |-> calls[k].id, tool |-> calls[k].tool,
                      got |-> IF IsPython(calls[k]) /\ \E j \in 1..(k - 1) : IsPython(calls[j])
                              THEN "waits" ELSE "runs"]
<1>1. DOMAIN calls = 1..Len(calls) /\ Len(calls) \in Nat
  OBVIOUS
<1>2. \A k \in 1..Len(calls) : calls[k].id \in Nat /\ calls[k].tool \in STRING
  <2>1. \A k \in 1..Len(calls) : calls[k] \in Call
    OBVIOUS
  <2> QED
    BY <2>1 DEF Call
<1>3. Begun(calls) = [k \in 1..Len(calls) |-> One(k)]
  BY <1>1 DEF Begun
<1>4. \A k \in 1..Len(calls) : /\ One(k) \in Job /\ One(k).got \in {"waits", "runs"}
                               /\ One(k).id = calls[k].id /\ One(k).tool = calls[k].tool
  BY <1>2 DEF Job, Got
<1> HIDE DEF One
<1>5. /\ Begun(calls) \in Seq(Job) /\ DOMAIN Begun(calls) = 1..Len(calls)
      /\ \A k \in 1..Len(calls) : Begun(calls)[k] = One(k)
  BY <1>1, <1>3, <1>4
<1> QED
  BY <1>1, <1>4, <1>5 DEF SameCalls, Ids

\* One call comes to something.
GotNow(w, k, got) == [w EXCEPT ![k].got = got]

\* All but what the call came to stays.
LEMMA GotChanges ==
    ASSUME NEW w \in Seq(Job), NEW k \in DOMAIN w,
           NEW got \in Got
    PROVE  /\ GotNow(w, k, got) \in Seq(Job) /\ DOMAIN GotNow(w, k, got) = DOMAIN w
           /\ \A j \in DOMAIN w : /\ GotNow(w, k, got)[j].id = w[j].id
                                  /\ GotNow(w, k, got)[j].tool = w[j].tool
           /\ GotNow(w, k, got)[k].got = got
           /\ \A j \in DOMAIN w \ {k} : GotNow(w, k, got)[j] = w[j]
<1> DEFINE v == GotNow(w, k, got)
<1>1. w[k] \in Job /\ DOMAIN w = 1..Len(w) /\ Len(w) \in Nat /\ \A j \in DOMAIN w : w[j] \in Job
  OBVIOUS
<1>2. DOMAIN v = DOMAIN w /\ \A j \in DOMAIN w \ {k} : v[j] = w[j]
  BY DEF GotNow
<1>3. v[k] = [w[k] EXCEPT !.got = got]
  BY DEF GotNow
<1>4. v[k] \in Job /\ v[k].id = w[k].id /\ v[k].tool = w[k].tool /\ v[k].got = got
  BY <1>1, <1>3 DEF Job
<1>5. v \in Seq(Job)
  <2>1. \A j \in 1..Len(w) : v[j] \in Job
    BY <1>1, <1>2, <1>4
  <2>2. v = [j \in 1..Len(w) |-> v[j]]
    BY <1>1 DEF GotNow
  <2> QED
    BY <1>1, <2>1, <2>2
<1> QED
  BY <1>2, <1>4, <1>5

\* The next python call is one that waits.
LEMMA NextPythonIs ==
    ASSUME NEW w \in Seq(Job)
    PROVE  /\ NextPython(w) \in 0..Len(w)
           /\ NextPython(w) # 0 => w[NextPython(w)].got = "waits"
<1> DEFINE I == {i \in 1..Len(w) : w[i].got = "waits"}
<1>1. NextPython(w) = IF I # {} THEN Min(I) ELSE 0
  BY DEF NextPython, SelectInSeq
<1>2. I \in SUBSET Nat /\ I \subseteq 1..Len(w) /\ Len(w) \in Nat
  OBVIOUS
<1>3. \A i \in I : i \in 1..Len(w) /\ w[i].got = "waits"
  OBVIOUS
<1> HIDE DEF I
<1>4. ASSUME I # {} PROVE Min(I) \in I
  <2>1. PICK m \in I : \A n \in I : m <= n
    BY <1>2, <1>4, LeastNumber
  <2> QED
    BY <2>1 DEF Min
<1>5. CASE I = {}
  BY <1>1, <1>2, <1>5
<1>6. CASE I # {}
  <2>1. PICK m \in I : m = NextPython(w)
    BY <1>1, <1>4, <1>6
  <2>2. m \in 1..Len(w)
    BY <1>3, <2>1
  <2>3. w[m].got = "waits"
    BY <1>3, <2>1
  <2>4. m \in 0..Len(w)
    BY <1>2, <2>2
  <2> QED
    BY <2>1, <2>3, <2>4
<1> QED
  BY <1>5, <1>6

\* The last python call is one, if there is any.
LEMMA LastPythonIs ==
    ASSUME NEW w \in Seq(Job)
    PROVE  /\ LastPython(w) \in 0..Len(w)
           /\ LastPython(w) # 0 => IsPython(w[LastPython(w)])
           /\ \A i \in 1..Len(w) : IsPython(w[i]) => LastPython(w) # 0
<1> DEFINE I == {i \in 1..Len(w) : IsPython(w[i])}
<1>1. LastPython(w) = IF I # {} THEN Max(I) ELSE 0
  BY DEF LastPython, SelectLastInSeq
<1>2. Len(w) \in Nat /\ I \in SUBSET (0..Len(w))
  OBVIOUS
<1>3. I # {} => Max(I) \in I
  BY <1>2, GreatestNumber
<1>4. (\A i \in I : i \in 1..Len(w) /\ IsPython(w[i])) /\ \A i \in 1..Len(w) : IsPython(w[i]) => i \in I
  OBVIOUS
<1>5. Len(w) \in Nat
  OBVIOUS
<1> HIDE DEF I
<1>6. CASE I = {}
  BY <1>1, <1>4, <1>5, <1>6
<1>7. CASE I # {}
  <2>1. LastPython(w) \in I
    BY <1>1, <1>3, <1>7
  <2> QED
    BY <1>4, <1>5, <2>1
<1> QED
  BY <1>6, <1>7

\* When a call ends, it has what it came to; at most one other call begins.
LEMMA FinishIs ==
    ASSUME NEW w \in Seq(Job), NEW k \in DOMAIN w,
           NEW got \in Got
    PROVE  /\ Finish(w, k, got) \in Seq(Job) /\ DOMAIN Finish(w, k, got) = DOMAIN w
           /\ \A j \in DOMAIN w : /\ Finish(w, k, got)[j].id = w[j].id
                                  /\ Finish(w, k, got)[j].tool = w[j].tool
                                  /\ \/ Finish(w, k, got)[j].got = w[j].got
                                     \/ Finish(w, k, got)[j].got = "runs"
                                     \/ j = k /\ Finish(w, k, got)[j].got = got
           /\ w[k].got # "waits" => Finish(w, k, got)[k].got = got
           /\ ~IsPython(w[k]) => \A j \in DOMAIN w \ {k} : Finish(w, k, got)[j] = w[j]
<1> DEFINE v == [w EXCEPT ![k].got = got]
           n == NextPython(w)
           u == [v EXCEPT ![n].got = "runs"]
<1>0. v = GotNow(w, k, got) /\ u = GotNow(v, n, "runs")
  BY DEF GotNow
<1>2. Finish(w, k, got) = IF IsPython(w[k]) /\ n # 0 THEN u ELSE v
  BY DEF Finish
<1>3. /\ n \in 0..Len(w) /\ DOMAIN w = 1..Len(w) /\ Len(w) \in Nat
      /\ n # 0 => w[n].got = "waits"
  BY NextPythonIs
<1> HIDE DEF v, n, u
<1>1. /\ v \in Seq(Job) /\ DOMAIN v = DOMAIN w
      /\ \A j \in DOMAIN w : v[j].id = w[j].id /\ v[j].tool = w[j].tool
      /\ v[k].got = got /\ \A j \in DOMAIN w \ {k} : v[j] = w[j]
  <2>1. /\ GotNow(w, k, got) \in Seq(Job) /\ DOMAIN GotNow(w, k, got) = DOMAIN w
        /\ \A j \in DOMAIN w : /\ GotNow(w, k, got)[j].id = w[j].id
                               /\ GotNow(w, k, got)[j].tool = w[j].tool
        /\ GotNow(w, k, got)[k].got = got
        /\ \A j \in DOMAIN w \ {k} : GotNow(w, k, got)[j] = w[j]
    BY GotChanges
  <2> QED
    BY <1>0, <2>1
<1>5. n # 0 => /\ u \in Seq(Job) /\ DOMAIN u = DOMAIN v
               /\ \A j \in DOMAIN v : u[j].id = v[j].id /\ u[j].tool = v[j].tool
               /\ u[n].got = "runs" /\ \A j \in DOMAIN v \ {n} : u[j] = v[j]
  <2>1. ASSUME n # 0 PROVE n \in DOMAIN v
    BY <1>1, <1>3, <2>1
  <2>2. ASSUME n # 0
        PROVE  /\ GotNow(v, n, "runs") \in Seq(Job) /\ DOMAIN GotNow(v, n, "runs") = DOMAIN v
               /\ \A j \in DOMAIN v : /\ GotNow(v, n, "runs")[j].id = v[j].id
                                      /\ GotNow(v, n, "runs")[j].tool = v[j].tool
               /\ GotNow(v, n, "runs")[n].got = "runs"
               /\ \A j \in DOMAIN v \ {n} : GotNow(v, n, "runs")[j] = v[j]
    <3>1. v \in Seq(Job) /\ n \in DOMAIN v /\ "runs" \in Got
      BY <1>1, <2>1, <2>2 DEF Got
    <3> QED
      BY <3>1, GotChanges
  <2> QED
    BY <1>0, <2>2
<1>6. CASE IsPython(w[k]) /\ n # 0
  BY <1>1, <1>2, <1>3, <1>5, <1>6
<1>7. CASE ~(IsPython(w[k]) /\ n # 0)
  BY <1>1, <1>2, <1>7
<1> QED
  BY <1>6, <1>7

\* Empty and other sequences by their domains.
LEMMA EmptyIs ==
    ASSUME NEW S, NEW s \in Seq(S)
    PROVE  /\ s = <<>> <=> DOMAIN s = {}
           /\ s # <<>> <=> Len(s) \in 1..Len(s)
           /\ DOMAIN s = 1..Len(s) /\ Len(s) \in Nat
  OBVIOUS

\* What a run takes on, with what it knows of refused calls.
LogFits(h, a, logged) ==
    /\ logged \in Log /\ logged.used = log.used /\ logged.lost = log.lost
    /\ \A i \in logged.began \cup logged.refused : i <= LastId(h)
    /\ logged.began \cap logged.refused \subseteq logged.overruled
    /\ Unanswered(h, a) \cap logged.refused \subseteq logged.overruled

\* No kernel is lost between the tools nodes.
KernelNamed == ~log.lost => kernel # 0 \/ log.used = {}

\* The tools node begins with the calls that have no answer yet.
LEMMA BeginKeeps ==
    ASSUME ThreadInv, KernelNamed,
           NEW h \in Seq(Message), Shaped(h), NEW a, OpenLast(h, a),
           NEW logged, LogFits(h, a, logged),
           Pending(h) # <<>>, BeginTools(Pending(h), logged),
           hist' = h, at' = "tools", phase' = "running", answers' \in Nat,
           UNCHANGED <<kernel, auto, turns>>
    PROVE  ThreadInv'
<1>1. PICK calls : calls = Pending(h)
  OBVIOUS
<1>2. calls \in Seq(Call) /\ Ids(calls) = Unanswered(h, a) /\ calls # <<>>
  BY <1>1, PendingIs
<1>3. PICK w : w = Begun(calls)
  OBVIOUS
<1>4. work' = w /\ chain' = kernel /\ log' = [logged EXCEPT !.began = @ \cup InHand(w)]
  BY <1>1, <1>3 DEF BeginTools
<1>5. /\ w \in Seq(Job) /\ SameCalls(w, calls) /\ Ids(w) = Ids(calls)
      /\ \A k \in DOMAIN w : w[k].got \in {"waits", "runs"}
  BY <1>2, <1>3, BegunIs
<1>6. InHand(w) \subseteq Ids(calls) /\ Ids(calls) \subseteq Nat
  <2>1. InHand(w) \subseteq Ids(w)
    BY DEF InHand, Ids
  <2>2. \A k \in DOMAIN calls : calls[k] \in Call
    BY <1>2
  <2>3. Ids(calls) \subseteq Nat
    BY <2>2 DEF Ids, Call
  <2> QED
    BY <1>5, <2>1, <2>3
<1>7. /\ log' \in Log /\ log'.began = logged.began \cup InHand(w)
      /\ log'.refused = logged.refused /\ log'.overruled = logged.overruled
      /\ log'.used = log.used /\ log'.lost = log.lost
  BY <1>4, <1>6 DEF LogFits, Log
<1>8. \A i \in Unanswered(h, a) : i <= LastId(h)
  <2>1. a \in 1..Len(h)
    BY DEF OpenLast
  <2>2. \A i \in Ids(h[a].calls) : i <= LastId(h)
    BY <2>1, LastIdIs
  <2> QED
    BY <2>2 DEF Unanswered
<1>9. TurnTypeOK' /\ LogTypes'
  <2>1. w # NoCalls
    <3>1. DOMAIN calls # {}
      BY <1>2, EmptyIs
    <3> QED
      BY <1>5, <3>1, EmptyIs DEF SameCalls, NoCalls
  <2>2. kernel \in Nat /\ auto \in BOOLEAN
    BY DEF ThreadInv, TurnTypeOK
  <2>3. TurnTypeOK'
    BY <1>4, <1>5, <2>1, <2>2 DEF TurnTypeOK, Job, Got
  <2> QED
    BY <1>7, <2>3 DEF ThreadInv, LogTypes
<1>10. Shaped(hist)' /\ Placed' /\ WorkIs'
  <2>1. a \in DOMAIN h
    BY DEF OpenLast
  <2>2. Placed'
    BY <2>1 DEF Placed, ActiveRun
  <2>3. WorkIs'
    BY <1>1, <1>4, <1>5 DEF WorkIs
  <2> QED
    BY <2>2, <2>3
<1>11. LogOK'
  <2>1. \A i \in log'.began \cup log'.refused : i <= LastId(h)
    BY <1>2, <1>6, <1>7, <1>8 DEF LogFits
  <2>2. log'.began \cap log'.refused \subseteq log'.overruled
    BY <1>2, <1>6, <1>7 DEF LogFits
  <2>3. Ids(w) \cap log'.refused \subseteq log'.overruled
    BY <1>2, <1>5, <1>7 DEF LogFits
  <2> QED
    BY <1>4, <2>1, <2>2, <2>3 DEF LogOK
<1>12. KernelOK'
  <2>1. ~PythonOk'
    BY <1>4, <1>5 DEF PythonOk
  <2>2. \A k \in DOMAIN work' : work'[k].got \in {"waits", "runs", "ok"}
    BY <1>4, <1>5
  <2>3. KernelOK
    BY DEF ThreadInv
  <2> QED
    BY <1>4, <1>7, <2>1, <2>2, <2>3 DEF KernelOK, KernelNamed, ActiveRun
<1> QED
  BY <1>9, <1>10, <1>11, <1>12 DEF ThreadInv

\* What holds between the tools nodes.
LEMMA Outside ==
    ASSUME ThreadInv, ~ActiveRun
    PROVE  work = NoCalls /\ ~PythonOk /\ KernelNamed
<1>1. work = NoCalls
  BY DEF ThreadInv, TurnTypeOK, ActiveRun
<1>2. ~PythonOk
  BY <1>1 DEF PythonOk, NoCalls
<1> QED
  BY <1>1, <1>2 DEF KernelNamed, ThreadInv, KernelOK

\* Where a run goes.
LEMMA GoesKeeps ==
    ASSUME ThreadInv, ~ActiveRun,
           NEW h \in Seq(Message), Shaped(h), NEW a, OpenLast(h, a),
           NEW logged, LogFits(h, a, logged),
           Goes(h, logged), UNCHANGED <<kernel, auto, turns>>
    PROVE  ThreadInv'
<1>1. hist' = h /\ answers' = 0
  BY DEF Goes
<1>2. work = NoCalls /\ ~PythonOk /\ KernelNamed
  BY Outside
<1>3. /\ Pending(h) \in Seq(Call) /\ Ids(Pending(h)) = Unanswered(h, a)
      /\ LastOf(h, "ai") = a /\ a \in DOMAIN h
  BY PendingIs DEF OpenLast
<1>4. CASE h[a].calls # <<>> /\ Pending(h) # <<>>
  <2>1. at' = "tools" /\ phase' = "running" /\ BeginTools(Pending(h), logged)
    BY <1>3, <1>4 DEF Goes
  <2> QED
    BY <1>1, <1>2, <1>4, <2>1, BeginKeeps
<1>5. CASE h[a].calls = <<>> \/ Pending(h) = <<>>
  <2>1. /\ \/ at' = "before_agent" /\ phase' = "done"
           \/ at' = "model" /\ phase' = "running"
        /\ log' = logged /\ UNCHANGED <<work, chain>>
    BY <1>3, <1>5 DEF Goes
  <2>2. AllClosed(h)
    <3>1. Unanswered(h, a) = {}
      <4>1. Ids(<<>>) = {}
        BY DEF Ids
      <4>2. Unanswered(h, a) \subseteq Ids(h[a].calls)
        BY DEF Unanswered
      <4> QED
        BY <1>3, <1>5, <4>1, <4>2
    <3> QED
      BY <3>1, OpenCloses
  <2>3. TurnTypeOK' /\ LogTypes'
    BY <1>1, <1>2, <2>1 DEF ThreadInv, TurnTypeOK, LogTypes, LogFits
  <2>4. Placed' /\ WorkIs' /\ ~ActiveRun'
    BY <1>1, <2>1, <2>2 DEF Placed, WorkIs, ActiveRun
  <2>5. LogOK'
    BY <1>1, <2>1, <2>4 DEF LogOK, LogFits
  <2>6. ~PythonOk' /\ \A k \in DOMAIN work' : ~IsPython(work'[k])
    BY <1>2, <2>1 DEF PythonOk, NoCalls
  <2>7. KernelOK'
    BY <1>2, <2>1, <2>4, <2>6 DEF ThreadInv, KernelOK, KernelNamed, LogFits
  <2> QED
    BY <1>1, <2>3, <2>4, <2>5, <2>7 DEF ThreadInv
<1> QED
  BY <1>4, <1>5

-----------------------------------------------------------------------------
(* The steps *)

\* The calls that results answer, and results that answer different calls.
Given(r) == {r[k].to : k \in 1..Len(r)}
Results(r) ==
    /\ r \in Seq(Message)
    /\ \A k \in 1..Len(r) : r[k].who = "tool" /\ r[k].calls = <<>>
    /\ \A k, l \in 1..Len(r) : r[k].to = r[l].to => k = l

\* Results to calls of the message at a go with the history, and leave those calls
\* open that they do not answer.
LEMMA ResultsJoin ==
    ASSUME NEW h \in Seq(Message), Shaped(h), NEW a, OpenLast(h, a),
           NEW r, Results(r), Given(r) \subseteq Unanswered(h, a)
    PROVE  /\ h \o r \in Seq(Message) /\ Shaped(h \o r) /\ OpenLast(h \o r, a)
           /\ Unanswered(h \o r, a) = Unanswered(h, a) \ Given(r)
           /\ LastId(h) \in Nat /\ LastId(h \o r) \in Nat /\ LastId(h) <= LastId(h \o r)
<1>0. PICK g : g = h \o r
  OBVIOUS
<1>1. r \in Seq(Message) /\ Len(r) \in Nat /\ Len(h) \in Nat
  BY DEF Results
<1>2. \A k \in 1..Len(r) : /\ r[k].who = "tool" /\ r[k].calls = <<>>
                           /\ r[k].to \in Unanswered(h, a)
  BY DEF Results, Given
<1>3. \A k, l \in 1..Len(r) : r[k].to = r[l].to => k = l
  BY DEF Results
<1>4. /\ h \o r \in Seq(Message) /\ Shaped(h \o r) /\ OpenLast(h \o r, a)
      /\ Len(h \o r) = Len(h) + Len(r)
      /\ \A i \in 1..Len(h) : (h \o r)[i] = h[i]
      /\ Unanswered(h \o r, a) = Unanswered(h, a) \ {r[k].to : k \in 1..Len(r)}
  BY <1>1, <1>2, <1>3, ResultsKeep
<1>5. /\ g \in Seq(Message) /\ Shaped(g) /\ OpenLast(g, a)
      /\ Unanswered(g, a) = Unanswered(h, a) \ Given(r)
      /\ Len(g) = Len(h) + Len(r) /\ \A i \in 1..Len(h) : g[i] = h[i]
  BY <1>0, <1>4 DEF Given
<1>6. \A i \in 1..Len(h) : i \in DOMAIN g /\ g[i] = h[i]
  BY <1>1, <1>5
<1>7. LastId(h) \in Nat /\ LastId(g) \in Nat /\ LastId(h) <= LastId(g)
  BY <1>5, <1>6, LastIdGrows
<1> QED
  BY <1>0, <1>5, <1>7

\* What after_model finds: a history that ends with calls nobody has answered.
LEMMA AfterModel ==
    ASSUME ThreadInv, at = "after_model"
    PROVE  \E h \in Seq(Message), a \in Nat :
              /\ h = hist /\ a = Len(h) /\ a \in 1..Len(h) /\ Shaped(h) /\ OpenLast(h, a)
              /\ Asked = h[a].calls /\ Asked \in Seq(Call) /\ OneEach(Asked)
              /\ Unanswered(h, a) = Ids(Asked) /\ ~ActiveRun
              /\ \A i \in Ids(Asked) : i <= LastId(h)
              /\ Ids(Asked) \cap (log.began \cup log.refused) = {}
<1>1. PICK h : h = hist
  OBVIOUS
<1>2. PICK a : a = Len(h)
  OBVIOUS
<1>3. h \in Seq(Message) /\ Shaped(h) /\ h # <<>> /\ OpenLast(h, a)
  BY <1>1, <1>2 DEF ThreadInv, TurnTypeOK, Placed
<1>4. a \in 1..Len(h) /\ a \in DOMAIN h /\ Last(hist) = h[a] /\ h[a] \in Message /\ Plain(h[a])
  BY <1>1, <1>2, <1>3, EmptyIs DEF Last, Shaped
<1>5. Asked = h[a].calls /\ Asked \in Seq(Call) /\ OneEach(Asked)
  BY <1>4 DEF Asked, Message, Call, Plain
<1>6. Unanswered(h, a) = Ids(Asked)
  <2>1. (a + 1)..Len(h) = {}
    BY <1>2, <1>4
  <2> QED
    BY <1>5, <2>1 DEF Unanswered
<1>7. \A i \in Ids(Asked) : i <= LastId(h)
  BY <1>3, <1>4, <1>5, LastIdIs
<1>8. ~ActiveRun /\ Ids(Asked) \cap (log.began \cup log.refused) = {}
  BY DEF ActiveRun, ThreadInv, LogOK, Asked
<1> QED
  BY <1>1, <1>2, <1>3, <1>4, <1>5, <1>6, <1>7, <1>8

\* The run goes on with the history it has.
LEMMA GoesOn ==
    ASSUME ThreadInv, at = "after_model", Goes(hist, log), UNCHANGED <<kernel, auto, turns>>
    PROVE  ThreadInv'
<1>1. PICK h \in Seq(Message), a \in Nat :
         /\ h = hist /\ Shaped(h) /\ OpenLast(h, a) /\ ~ActiveRun
         /\ Unanswered(h, a) = Ids(Asked)
         /\ Ids(Asked) \cap (log.began \cup log.refused) = {}
  BY AfterModel
<1>2. PICK logged : logged = log
  OBVIOUS
<1>3. LogFits(h, a, logged)
  BY <1>1, <1>2 DEF LogFits, ThreadInv, LogTypes, LogOK
<1>4. Goes(h, logged)
  BY <1>1, <1>2
<1> QED
  BY <1>1, <1>3, <1>4, GoesKeeps

\* Results for some of the calls the user was asked about.
LEMMA GoesAnswered ==
    ASSUME ThreadInv, at = "after_model",
           NEW calls \in Seq(Call), OneEach(calls), Ids(calls) \subseteq Ids(Asked),
           NEW logged \in Log, logged.used = log.used, logged.lost = log.lost,
           logged.began = log.began, logged.overruled = log.overruled,
           logged.refused \subseteq log.refused \cup Ids(calls),
           Goes(hist \o [k \in DOMAIN calls |-> Stub(calls[k])], logged),
           UNCHANGED <<kernel, auto, turns>>
    PROVE  ThreadInv'
<1>1. PICK h \in Seq(Message), a \in Nat :
         /\ h = hist /\ Shaped(h) /\ OpenLast(h, a) /\ ~ActiveRun
         /\ Unanswered(h, a) = Ids(Asked)
         /\ \A i \in Ids(Asked) : i <= LastId(h)
         /\ Ids(Asked) \cap (log.began \cup log.refused) = {}
  BY AfterModel
<1>2. PICK r : r = StubsOf(calls)
  OBVIOUS
<1>3. Results(r) /\ Given(r) = Ids(calls)
  BY <1>2, StubsFor DEF Results, Given
<1>4. PICK g : g = h \o r
  OBVIOUS
<1>5. /\ g \in Seq(Message) /\ Shaped(g) /\ OpenLast(g, a)
      /\ Unanswered(g, a) = Unanswered(h, a) \ Ids(calls)
      /\ LastId(h) \in Nat /\ LastId(g) \in Nat /\ LastId(h) <= LastId(g)
  <2>1. Shaped(h) /\ OpenLast(h, a) /\ Given(r) \subseteq Unanswered(h, a)
    BY <1>1, <1>3
  <2>2. Results(r)
    BY <1>3
  <2>3. /\ h \o r \in Seq(Message) /\ Shaped(h \o r) /\ OpenLast(h \o r, a)
        /\ Unanswered(h \o r, a) = Unanswered(h, a) \ Given(r)
        /\ LastId(h) \in Nat /\ LastId(h \o r) \in Nat /\ LastId(h) <= LastId(h \o r)
    BY <2>1, <2>2, ResultsJoin
  <2> QED
    BY <1>3, <1>4, <2>3
<1>7. LogFits(g, a, logged)
  <2>1. LogOK /\ log \in Log
    BY DEF ThreadInv, LogTypes
  <2>2. \A i \in log.began \cup log.refused \cup Ids(Asked) : i \in Nat /\ i <= LastId(h)
    <3>1. \A i \in Ids(Asked) : i \in Nat
      <4>1. Asked \in Seq(Call)
        BY AfterModel
      <4>2. \A k \in DOMAIN Asked : Asked[k] \in Call
        BY <4>1
      <4> QED
        BY <4>2 DEF Ids, Call
    <3> QED
      BY <1>1, <2>1, <3>1 DEF LogOK, Log
  <2>3. \A i \in logged.began \cup logged.refused : i <= LastId(g)
    BY <1>5, <2>2
  <2>4. logged.began \cap logged.refused \subseteq logged.overruled
    BY <1>1, <2>1 DEF LogOK
  <2>5. Unanswered(g, a) \cap logged.refused = {}
    BY <1>1, <1>5
  <2> QED
    BY <2>3, <2>4, <2>5 DEF LogFits
<1>8. Goes(g, logged)
  BY <1>1, <1>2, <1>4 DEF StubsOf
<1> QED
  BY <1>1, <1>5, <1>7, <1>8, GoesKeeps

\* A comment refuses all calls, or is lost.
LEMMA UserRejectsKeeps ==
    ASSUME ThreadInv, UserRejects
    PROVE  ThreadInv'
<1>1. at = "after_model" /\ UNCHANGED <<kernel, auto, turns>>
  BY DEF UserRejects, Interrupted
<1>2. PICK h \in Seq(Message), a \in Nat :
         /\ h = hist /\ Shaped(h) /\ OpenLast(h, a) /\ ~ActiveRun
         /\ Asked \in Seq(Call) /\ OneEach(Asked)
         /\ Unanswered(h, a) = Ids(Asked)
         /\ \A i \in Ids(Asked) : i <= LastId(h)
         /\ Ids(Asked) \cap (log.began \cup log.refused) = {}
  BY <1>1, AfterModel
<1>3. PICK calls : calls = Asked
  OBVIOUS
<1>4. log \in Log /\ LogOK
  BY DEF ThreadInv, LogTypes
<1>5. Ids(calls) \subseteq Nat
  <2>1. \A k \in DOMAIN calls : calls[k] \in Call
    BY <1>2, <1>3
  <2> QED
    BY <2>1 DEF Ids, Call
<1>6. CASE NeedsUser
  <2>1. PICK logged : logged = [log EXCEPT !.refused = @ \cup Ids(calls)]
    OBVIOUS
  <2>2. Goes(hist \o [k \in DOMAIN calls |-> Stub(calls[k])], logged)
    BY <1>3, <1>6, <2>1 DEF UserRejects, Cancelled
  <2>3. /\ logged \in Log /\ logged.used = log.used /\ logged.lost = log.lost
        /\ logged.began = log.began /\ logged.overruled = log.overruled
        /\ logged.refused = log.refused \cup Ids(calls)
    BY <1>4, <1>5, <2>1 DEF Log
  <2>4. calls \in Seq(Call) /\ OneEach(calls) /\ Ids(calls) \subseteq Ids(Asked)
    BY <1>2, <1>3
  <2> HIDE <1>2
  <2> QED
    BY <1>1, <2>2, <2>3, <2>4, GoesAnswered
<1>7. CASE ~NeedsUser
  <2>1. PICK logged : logged = [log EXCEPT !.refused = @ \cup Ids(calls),
                                           !.overruled = @ \cup Ids(calls)]
    OBVIOUS
  <2>2. Goes(h, logged)
    BY <1>2, <1>3, <1>7, <2>1 DEF UserRejects
  <2>3. /\ logged \in Log /\ logged.used = log.used /\ logged.lost = log.lost
        /\ logged.began = log.began /\ logged.overruled = log.overruled \cup Ids(calls)
        /\ logged.refused = log.refused \cup Ids(calls)
    BY <1>4, <1>5, <2>1 DEF Log
  <2>4. LogFits(h, a, logged)
    BY <1>2, <1>3, <1>4, <2>3 DEF LogFits, LogOK
  <2> QED
    BY <1>1, <1>2, <2>2, <2>4, GoesKeeps
<1> QED
  BY <1>6, <1>7

\* The client answers its own calls, all or some.
LEMMA ClientReturnsKeeps ==
    ASSUME ThreadInv, ClientReturns
    PROVE  ThreadInv'
<1>1. at = "after_model" /\ UNCHANGED <<kernel, auto, turns>>
  BY DEF ClientReturns, Interrupted
<1>2. Asked \in Seq(Call) /\ OneEach(Asked)
  BY <1>1, AfterModel
<1>3. Frontend \in Seq(Call) /\ OneEach(Frontend) /\ Ids(Frontend) \subseteq Ids(Asked)
  BY <1>2, ThoseIs DEF Frontend
<1>4. PICK returned \in SUBSET Ids(Frontend) :
         Goes(hist \o [k \in DOMAIN Those(Frontend, returned)
                         |-> Stub(Those(Frontend, returned)[k])], log)
  BY DEF ClientReturns
<1>5. PICK calls : calls = Those(Frontend, returned)
  OBVIOUS
<1>6. calls \in Seq(Call) /\ OneEach(calls) /\ Ids(calls) \subseteq Ids(Asked)
  BY <1>3, <1>5, ThoseIs
<1>7. PICK logged : logged = log
  OBVIOUS
<1>8. logged \in Log
  BY <1>7 DEF ThreadInv, LogTypes
<1>9. Goes(hist \o [k \in DOMAIN calls |-> Stub(calls[k])], logged)
  BY <1>4, <1>5, <1>7
<1> QED
  BY <1>1, <1>6, <1>7, <1>8, <1>9, GoesAnswered

\* Only what the run is doing changes, outside the tools node.
LEMMA PhaseKeeps ==
    ASSUME ThreadInv, ~ActiveRun,
           \/ at = "model" /\ phase' \in {"failed", "running"}
           \/ at = "after_model" /\ phase' = "interrupted",
           UNCHANGED <<hist, at, work, answers, kernel, chain, auto, log>>,
           turns' \in [humans : Nat, upsets : Nat]
    PROVE  ThreadInv'
<1>1. work = NoCalls /\ ~PythonOk /\ KernelNamed
  BY Outside
<1>2. TurnTypeOK' /\ LogTypes' /\ ~ActiveRun'
  BY <1>1 DEF ThreadInv, TurnTypeOK, LogTypes, ActiveRun
<1>3. Placed' /\ WorkIs' /\ LogOK'
  BY <1>2 DEF ThreadInv, Placed, WorkIs, LogOK
<1>4. KernelOK'
  <2>1. PythonOk' = PythonOk /\ \A k \in DOMAIN work : ~IsPython(work[k])
    BY <1>1 DEF PythonOk, NoCalls
  <2> QED
    BY <1>1, <1>2, <2>1 DEF ThreadInv, KernelOK
<1> QED
  BY <1>2, <1>3, <1>4 DEF ThreadInv

\* Upsets are counted.
LEMMA UpsetIs ==
    ASSUME LogTypes, Upset
    PROVE  turns' \in [humans : Nat, upsets : Nat]
  BY DEF LogTypes, Upset

\* Autonomy is switched.
LEMMA ToggleAutoKeeps ==
    ASSUME ThreadInv, ToggleAuto
    PROVE  ThreadInv'
<1>1. turns' \in [humans : Nat, upsets : Nat]
  BY UpsetIs DEF ThreadInv, ToggleAuto
<1>2. UNCHANGED <<hist, at, phase, work, answers, kernel, chain, log>> /\ auto' \in BOOLEAN
  BY DEF ToggleAuto, ThreadInv, TurnTypeOK
<1>3. TurnTypeOK' /\ LogTypes' /\ ActiveRun' = ActiveRun /\ PythonOk' = PythonOk
  BY <1>1, <1>2 DEF ThreadInv, TurnTypeOK, LogTypes, ActiveRun, PythonOk
<1>4. Placed' /\ WorkIs' /\ LogOK'
  BY <1>2, <1>3 DEF ThreadInv, Placed, WorkIs, LogOK
<1>5. KernelOK'
  BY <1>2, <1>3 DEF ThreadInv, KernelOK
<1> QED
  BY <1>2, <1>3, <1>4, <1>5 DEF ThreadInv

\* A stop takes the work of the tools node with it.
LEMMA StopKeeps ==
    ASSUME ThreadInv, Stop
    PROVE  ThreadInv'
<1>1. turns' \in [humans : Nat, upsets : Nat]
  BY UpsetIs DEF ThreadInv, Stop
<1>2. /\ phase' = "stopped" /\ work' = NoCalls /\ chain' = 0
      /\ log' = [log EXCEPT !.lost = @ \/ \E k \in DOMAIN work : IsPython(work[k])]
      /\ UNCHANGED <<hist, at, answers, kernel, auto>>
  BY DEF Stop
<1>3. log \in Log
  BY DEF ThreadInv, LogTypes
<1>4. /\ log' \in Log
      /\ log'.began = log.began /\ log'.refused = log.refused
      /\ log'.overruled = log.overruled /\ log'.used = log.used
      /\ ~log'.lost => ~log.lost /\ \A k \in DOMAIN work : ~IsPython(work[k])
  <2>1. PICK python \in BOOLEAN : python = \E k \in DOMAIN work : IsPython(work[k])
    OBVIOUS
  <2>2. log' = [log EXCEPT !.lost = @ \/ python]
    BY <1>2, <2>1
  <2>3. /\ log' \in Log
        /\ log'.began = log.began /\ log'.refused = log.refused
        /\ log'.overruled = log.overruled /\ log'.used = log.used
        /\ log'.lost = (log.lost \/ python)
    BY <1>3, <2>2 DEF Log
  <2> QED
    BY <2>1, <2>3
<1>5. ~ActiveRun' /\ ~PythonOk'
  BY <1>2 DEF ActiveRun, PythonOk, NoCalls
<1>6. TurnTypeOK' /\ LogTypes'
  BY <1>1, <1>2, <1>4, <1>5 DEF ThreadInv, TurnTypeOK, LogTypes, ActiveRun, NoCalls
<1>7. Placed' /\ WorkIs' /\ LogOK'
  BY <1>2, <1>4, <1>5 DEF ThreadInv, Placed, WorkIs, LogOK
<1>8. KernelOK'
  <2>1. (\A k \in DOMAIN work : ~IsPython(work[k])) => ~PythonOk
    BY DEF PythonOk
  <2>2. DOMAIN work' = {}
    BY <1>2 DEF NoCalls
  <2> QED
    BY <1>2, <1>4, <1>5, <2>1, <2>2 DEF ThreadInv, KernelOK
<1> QED
  BY <1>2, <1>6, <1>7, <1>8 DEF ThreadInv

-----------------------------------------------------------------------------
(* The tools node *)

\* What the tools node has.
LEMMA InTools ==
    ASSUME ThreadInv, ActiveRun
    PROVE  \E h \in Seq(Message), a \in Nat :
              /\ h = hist /\ a \in DOMAIN h /\ Shaped(h) /\ OpenLast(h, a)
              /\ Pending(h) \in Seq(Call) /\ OneEach(Pending(h))
              /\ Ids(Pending(h)) = Unanswered(h, a)
              /\ SameCalls(work, Pending(h)) /\ Ids(work) = Unanswered(h, a)
              /\ work \in Seq(Job) /\ work # NoCalls /\ Pending(h) # <<>>
              /\ \A i \in Ids(work) : i \in Nat /\ i <= LastId(h)
              /\ Ids(work) \cap log.refused \subseteq log.overruled
<1>1. PICK h : h = hist
  OBVIOUS
<1>2. h \in Seq(Message) /\ Shaped(h)
  BY <1>1 DEF ThreadInv, TurnTypeOK
<1>3. PICK a \in DOMAIN h : OpenLast(h, a)
  BY <1>1 DEF ThreadInv, Placed
<1>4. a \in Nat /\ a \in 1..Len(h)
  BY <1>2
<1>5. /\ Pending(h) \in Seq(Call) /\ OneEach(Pending(h))
      /\ Ids(Pending(h)) = Unanswered(h, a)
  BY <1>2, <1>3, PendingIs
<1>6. SameCalls(work, Pending(h)) /\ work \in Seq(Job) /\ work # NoCalls
  BY <1>1 DEF ThreadInv, TurnTypeOK, WorkIs, Job, Got, ActiveRun
<1>7. Ids(work) = Ids(Pending(h))
  BY <1>6 DEF SameCalls, Ids
<1>8. Pending(h) # <<>>
  <2>1. DOMAIN work # {}
    BY <1>6, EmptyIs DEF NoCalls
  <2> QED
    BY <1>6, <2>1 DEF SameCalls
<1>9. \A i \in Ids(work) : i \in Nat /\ i <= LastId(h)
  <2>1. \A i \in Ids(h[a].calls) : i \in Nat /\ i <= LastId(h)
    BY <1>2, <1>4, LastIdIs
  <2> QED
    BY <1>5, <1>7, <2>1 DEF Unanswered
<1>10. Ids(work) \cap log.refused \subseteq log.overruled
  BY DEF ThreadInv, LogOK
<1> QED
  BY <1>1, <1>2, <1>3, <1>4, <1>5, <1>6, <1>7, <1>8, <1>9, <1>10

\* A question interrupts the tools node.
LEMMA AskInterruptsKeeps ==
    ASSUME ThreadInv, NEW k \in DOMAIN work, AskInterrupts(k)
    PROVE  ThreadInv'
<1>1. /\ phase' = "interrupted" /\ at = "tools" /\ phase = "running"
      /\ log' = [log EXCEPT !.lost = @ \/ \E j \in DOMAIN work : IsPython(work[j])]
      /\ UNCHANGED <<hist, at, work, answers, kernel, chain, auto, turns>>
  BY DEF AskInterrupts, At
<1>2. log \in Log
  BY DEF ThreadInv, LogTypes
<1>3. /\ log' \in Log
      /\ log'.began = log.began /\ log'.refused = log.refused
      /\ log'.overruled = log.overruled /\ log'.used = log.used
      /\ ~log'.lost => ~log.lost /\ \A j \in DOMAIN work : ~IsPython(work[j])
  <2>1. PICK python \in BOOLEAN : python = \E j \in DOMAIN work : IsPython(work[j])
    OBVIOUS
  <2>2. log' = [log EXCEPT !.lost = @ \/ python]
    BY <1>1, <2>1
  <2>3. /\ log' \in Log
        /\ log'.began = log.began /\ log'.refused = log.refused
        /\ log'.overruled = log.overruled /\ log'.used = log.used
        /\ log'.lost = (log.lost \/ python)
    BY <1>2, <2>2 DEF Log
  <2> QED
    BY <2>1, <2>3
<1>4. ActiveRun /\ ActiveRun' /\ PythonOk' = PythonOk
  BY <1>1 DEF ActiveRun, PythonOk
<1>5. TurnTypeOK' /\ LogTypes'
  BY <1>1, <1>3, <1>4 DEF ThreadInv, TurnTypeOK, LogTypes, ActiveRun
<1>6. Placed' /\ WorkIs' /\ LogOK'
  BY <1>1, <1>3, <1>4 DEF ThreadInv, Placed, WorkIs, LogOK
<1>7. KernelOK'
  BY <1>1, <1>3, <1>4 DEF ThreadInv, KernelOK
<1> QED
  BY <1>1, <1>5, <1>6, <1>7 DEF ThreadInv

\* An answered question ends.
LEMMA AskEndsKeeps ==
    ASSUME ThreadInv, NEW k \in DOMAIN work, AskEnds(k)
    PROVE  ThreadInv'
<1>1. /\ at = "tools" /\ phase = "running" /\ work[k].tool = "ask"
      /\ work' = [work EXCEPT ![k].got = "ok"]
      /\ UNCHANGED <<hist, at, phase, answers, kernel, chain, auto, log, turns>>
  BY DEF AskEnds, At
<1>2. ActiveRun /\ ActiveRun'
  BY <1>1 DEF ActiveRun
<1>3. PICK w : w = work
  OBVIOUS
<1>4. w \in Seq(Job) /\ w # NoCalls /\ SameCalls(w, Pending(hist))
  BY <1>2, <1>3, InTools
<1>5. PICK v : v = GotNow(w, k, "ok")
  OBVIOUS
<1>6. work' = v
  BY <1>1, <1>3, <1>5 DEF GotNow
<1>7. /\ v \in Seq(Job) /\ DOMAIN v = DOMAIN w
      /\ \A j \in DOMAIN w : v[j].id = w[j].id /\ v[j].tool = w[j].tool
      /\ v[k].got = "ok" /\ \A j \in DOMAIN w \ {k} : v[j] = w[j]
  <2>1. k \in DOMAIN w /\ "ok" \in Got
    BY <1>3 DEF Got
  <2> QED
    BY <1>4, <1>5, <2>1, GotChanges
<1>8. TurnTypeOK' /\ LogTypes'
  <2>1. v # NoCalls
    BY <1>4, <1>7, EmptyIs DEF NoCalls
  <2> QED
    BY <1>1, <1>2, <1>6, <1>7, <2>1 DEF ThreadInv, TurnTypeOK, LogTypes, ActiveRun, Job, Got
<1>9. Placed' /\ WorkIs' /\ LogOK'
  <2>1. SameCalls(v, Pending(hist)) /\ Ids(v) = Ids(w)
    BY <1>4, <1>7 DEF SameCalls, Ids
  <2> QED
    BY <1>1, <1>2, <1>3, <1>6, <2>1 DEF ThreadInv, Placed, WorkIs, LogOK
<1>10. KernelOK'
  <2>1. ~IsPython(w[k]) /\ ~IsPython(v[k])
    BY <1>1, <1>3, <1>7 DEF IsPython
  <2>2. \A j \in DOMAIN v : IsPython(v[j]) => j # k /\ v[j] = w[j]
    BY <1>7, <2>1
  <2>3. \A j \in DOMAIN w : IsPython(w[j]) => j # k /\ v[j] = w[j]
    BY <1>7, <2>1
  <2>4. PythonOk' = PythonOk
    BY <1>3, <1>6, <1>7, <2>2, <2>3 DEF PythonOk
  <2> QED
    BY <1>1, <1>2, <1>3, <1>6, <1>7, <2>2, <2>4 DEF ThreadInv, KernelOK
<1> QED
  BY <1>1, <1>8, <1>9, <1>10 DEF ThreadInv

\* The kernel a python call gets is the first, as long as none is lost.
LEMMA KernelIs ==
    ASSUME ThreadInv, ActiveRun
    PROVE  Kernel \in Nat /\ Kernel # 0 /\ (~log.lost => Kernel = 1)
<1>1. /\ log.used \in SUBSET Nat /\ IsFiniteSet(log.used) /\ chain \in Nat
  BY DEF ThreadInv, TurnTypeOK, LogTypes, Log
<1>2. Cardinality(log.used) \in Nat /\ Cardinality({}) = 0
  BY <1>1, FS_CardinalityType, FS_EmptySet
<1>3. ~log.lost => chain = 1 \/ (chain = 0 /\ log.used = {})
  BY DEF ThreadInv, KernelOK
<1> QED
  BY <1>1, <1>2, <1>3 DEF Kernel

\* A tool call ends; a python call may have begun the next, and named the kernel.
LEMMA ToolEndsKeeps ==
    ASSUME ThreadInv, NEW k \in DOMAIN work, NEW got \in {"ok", "raised", "error"},
           ToolEnds(k, got)
    PROVE  ThreadInv'
<1>1. /\ at = "tools" /\ phase = "running" /\ work[k].got = "runs"
      /\ work' = Finish(work, k, got)
      /\ chain' = IF IsPython(work[k]) /\ got = "ok" THEN Kernel ELSE chain
      /\ log' = [log EXCEPT !.began = @ \cup InHand(work'),
                            !.used = IF IsPython(work[k]) THEN @ \cup {Kernel} ELSE @,
                            !.lost = @ \/ (IsPython(work[k]) /\ got # "ok")]
      /\ UNCHANGED <<hist, at, phase, answers, kernel, auto, turns>>
  BY DEF ToolEnds, At, Chained
<1>2. ActiveRun /\ ActiveRun'
  BY <1>1 DEF ActiveRun
<1>3. PICK w : w = work
  OBVIOUS
<1>4. /\ w \in Seq(Job) /\ w # NoCalls /\ SameCalls(w, Pending(hist))
      /\ \A i \in Ids(w) : i \in Nat /\ i <= LastId(hist)
      /\ Ids(w) \cap log.refused \subseteq log.overruled
  BY <1>2, <1>3, InTools
<1>5. PICK v : v = Finish(w, k, got)
  OBVIOUS
<1>6. got \in Got /\ k \in DOMAIN w /\ w[k].got = "runs"
  BY <1>1, <1>3 DEF Got
<1>7. /\ v \in Seq(Job) /\ DOMAIN v = DOMAIN w
      /\ \A j \in DOMAIN w : /\ v[j].id = w[j].id /\ v[j].tool = w[j].tool
                             /\ \/ v[j].got = w[j].got \/ v[j].got = "runs"
                                \/ j = k /\ v[j].got = got
      /\ v[k].got = got
      /\ ~IsPython(w[k]) => \A j \in DOMAIN w \ {k} : v[j] = w[j]
  <2>1. /\ Finish(w, k, got) \in Seq(Job) /\ DOMAIN Finish(w, k, got) = DOMAIN w
        /\ \A j \in DOMAIN w : /\ Finish(w, k, got)[j].id = w[j].id
                               /\ Finish(w, k, got)[j].tool = w[j].tool
                               /\ \/ Finish(w, k, got)[j].got = w[j].got
                                  \/ Finish(w, k, got)[j].got = "runs"
                                  \/ j = k /\ Finish(w, k, got)[j].got = got
        /\ w[k].got # "waits" => Finish(w, k, got)[k].got = got
        /\ ~IsPython(w[k]) => \A j \in DOMAIN w \ {k} : Finish(w, k, got)[j] = w[j]
    BY <1>4, <1>6, FinishIs
  <2> QED
    BY <1>5, <1>6, <2>1
<1>8. work' = v /\ SameCalls(v, Pending(hist)) /\ Ids(v) = Ids(w)
  BY <1>1, <1>3, <1>4, <1>5, <1>7 DEF SameCalls, Ids
<1>9. InHand(v) \subseteq Ids(w)
  BY <1>8 DEF InHand, Ids
<1>10. PICK python \in BOOLEAN : python <=> IsPython(w[k])
  OBVIOUS
<1>11. log \in Log /\ IsFiniteSet(log.used)
  BY DEF ThreadInv, LogTypes
<1>12. Kernel \in Nat /\ Kernel # 0 /\ (~log.lost => Kernel = 1)
  BY <1>2, KernelIs
<1>13. /\ log' \in Log /\ IsFiniteSet(log'.used)
       /\ log'.began = log.began \cup InHand(v)
       /\ log'.refused = log.refused /\ log'.overruled = log.overruled
       /\ log'.used = IF python THEN log.used \cup {Kernel} ELSE log.used
       /\ log'.lost = (log.lost \/ (python /\ got # "ok"))
  <2>1. PICK spoilt \in BOOLEAN : spoilt <=> python /\ got # "ok"
    OBVIOUS
  <2>2. PICK used : used = IF python THEN log.used \cup {Kernel} ELSE log.used
    OBVIOUS
  <2>3. PICK hand : hand = InHand(v)
    OBVIOUS
  <2>4. used \in SUBSET Nat /\ IsFiniteSet(used) /\ hand \in SUBSET Nat
    <3>1. IsFiniteSet(log.used \cup {Kernel})
      BY <1>11, FS_AddElement
    <3> QED
      BY <1>4, <1>9, <1>11, <1>12, <2>2, <2>3, <3>1 DEF Log
  <2>5. log' = [log EXCEPT !.began = @ \cup hand, !.used = used, !.lost = @ \/ spoilt]
    BY <1>1, <1>3, <1>8, <1>10, <2>1, <2>2, <2>3
  <2>6. /\ log' \in Log /\ log'.began = log.began \cup hand
        /\ log'.refused = log.refused /\ log'.overruled = log.overruled
        /\ log'.used = used /\ log'.lost = (log.lost \/ spoilt)
    BY <1>11, <2>4, <2>5 DEF Log
  <2> QED
    BY <2>1, <2>2, <2>3, <2>4, <2>6
<1>14. TurnTypeOK' /\ LogTypes'
  <2>1. v # NoCalls
    BY <1>4, <1>7, EmptyIs DEF NoCalls
  <2>2. chain' \in Nat
    BY <1>1, <1>12 DEF ThreadInv, TurnTypeOK
  <2> QED
    BY <1>1, <1>2, <1>7, <1>8, <1>13, <2>1, <2>2
       DEF ThreadInv, TurnTypeOK, LogTypes, ActiveRun, Job, Got
<1>15. Placed' /\ WorkIs' /\ LogOK'
  <2>1. LogOK /\ Ids(w) \cap log.refused \subseteq log.overruled
    BY <1>4 DEF ThreadInv
  <2>2. \A i \in log'.began \cup log'.refused : i <= LastId(hist)
    BY <1>4, <1>9, <1>13, <2>1 DEF LogOK
  <2>3. log'.began \cap log'.refused \subseteq log'.overruled
    BY <1>4, <1>9, <1>13, <2>1 DEF LogOK
  <2>4. Ids(work') \cap log'.refused \subseteq log'.overruled
    BY <1>8, <1>13, <2>1
  <2>5. LogOK'
    BY <1>1, <1>2, <2>2, <2>3, <2>4 DEF LogOK
  <2>6. Placed' /\ WorkIs'
    BY <1>1, <1>2, <1>8 DEF ThreadInv, Placed, WorkIs
  <2> QED
    BY <2>5, <2>6
<1>16. KernelOK'
  <2>1. SUFFICES ASSUME ~log'.lost PROVE KernelOK'
    BY DEF KernelOK
  <2>2. ~log.lost /\ (python => got = "ok")
    BY <1>13, <2>1
  <2>3. /\ log.used \subseteq {1} /\ Kernel = 1
        /\ kernel # 0 => kernel = 1 /\ log.used = {1}
        /\ chain # 0 => chain = 1 /\ log.used = {1}
        /\ chain = 0 => log.used = {}
        /\ kernel = 0 /\ log.used # {} => PythonOk
        /\ PythonOk => chain # 0
        /\ \A j \in DOMAIN w : IsPython(w[j]) => w[j].got \in {"waits", "runs", "ok"}
    BY <1>2, <1>3, <1>12, <2>2 DEF ThreadInv, KernelOK
  <2>4. \A j \in DOMAIN w : IsPython(v[j]) <=> IsPython(w[j])
    BY <1>7 DEF IsPython
  <2>5. \A j \in DOMAIN v : IsPython(v[j]) => v[j].got \in {"waits", "runs", "ok"}
    <3> SUFFICES ASSUME NEW j \in DOMAIN w, IsPython(w[j])
                 PROVE  v[j].got \in {"waits", "runs", "ok"}
      BY <1>7, <2>4
    <3>1. \/ v[j].got = w[j].got \/ v[j].got = "runs"
          \/ j = k /\ v[j].got = got
      BY <1>7
    <3> QED
      BY <1>10, <2>2, <2>3, <3>1
  <2>6. CASE python
    <3>1. chain' = 1 /\ log'.used = {1}
      BY <1>1, <1>3, <1>10, <1>13, <2>2, <2>3, <2>6
    <3>2. PythonOk'
      BY <1>6, <1>7, <1>8, <1>10, <2>2, <2>4, <2>6 DEF PythonOk
    <3> QED
      BY <1>1, <1>7, <1>8, <2>3, <2>5, <3>1, <3>2 DEF KernelOK
  <2>7. CASE ~python
    <3>1. chain' = chain /\ log'.used = log.used
      BY <1>1, <1>3, <1>10, <1>13, <2>7
    <3>2. PythonOk' = PythonOk
      <4>1. \A j \in DOMAIN v : IsPython(v[j]) => j # k /\ v[j] = w[j]
        BY <1>7, <1>10, <2>4, <2>7
      <4>2. \A j \in DOMAIN w : IsPython(w[j]) => j # k /\ v[j] = w[j]
        BY <1>7, <1>10, <2>4, <2>7
      <4> QED
        BY <1>3, <1>7, <1>8, <4>1, <4>2 DEF PythonOk
    <3> QED
      BY <1>1, <1>7, <1>8, <2>3, <2>5, <3>1, <3>2 DEF KernelOK
  <2> QED
    BY <2>6, <2>7
<1> QED
  BY <1>1, <1>14, <1>15, <1>16 DEF ThreadInv

\* An answer begins the tools node again, with all its calls.
LEMMA UserAnswersKeeps ==
    ASSUME ThreadInv, UserAnswers
    PROVE  ThreadInv'
<1>1. /\ phase = "interrupted" /\ at = "tools" /\ phase' = "running"
      /\ answers' = answers + 1 /\ BeginTools(Pending(hist), log)
      /\ UNCHANGED <<hist, at, kernel, auto, turns>>
  BY DEF UserAnswers, Interrupted
<1>2. ActiveRun
  BY <1>1 DEF ActiveRun
<1>3. PICK h \in Seq(Message), a \in Nat :
         /\ h = hist /\ Shaped(h) /\ OpenLast(h, a)
         /\ Ids(work) = Unanswered(h, a) /\ Pending(h) # <<>>
         /\ Ids(work) \cap log.refused \subseteq log.overruled
  BY <1>2, InTools
<1>4. PICK logged : logged = log
  OBVIOUS
<1>5. LogFits(h, a, logged)
  BY <1>3, <1>4 DEF LogFits, ThreadInv, LogTypes, LogOK
<1>6. KernelNamed
  <2>1. ~log.lost => ~PythonOk
    BY <1>1 DEF ThreadInv, KernelOK, PythonOk
  <2> QED
    BY <2>1 DEF ThreadInv, KernelOK, KernelNamed
<1>7. answers' \in Nat
  BY <1>1 DEF ThreadInv, TurnTypeOK
<1>8. BeginTools(Pending(h), logged) /\ hist' = h /\ at' = "tools"
  BY <1>1, <1>3, <1>4
<1> QED
  BY <1>1, <1>3, <1>5, <1>6, <1>7, <1>8, BeginKeeps

\* The results of the tools node, in the order of its calls.
ResultsOf(w) == [k \in DOMAIN w |-> Result(w[k].id, w[k].got = "error")]

\* They answer all its calls, each one once.
LEMMA ResultsOfIs ==
    ASSUME NEW w \in Seq(Job), NEW calls, SameCalls(w, calls), OneEach(calls)
    PROVE  Results(ResultsOf(w)) /\ Given(ResultsOf(w)) = Ids(w)
<1> DEFINE r == ResultsOf(w)
<1>1. DOMAIN w = 1..Len(w) /\ Len(w) \in Nat /\ \A k \in 1..Len(w) : w[k] \in Job
  OBVIOUS
<1>2. \A k \in 1..Len(w) : w[k].id \in Nat /\ (w[k].got = "error") \in BOOLEAN
  BY <1>1 DEF Job
<1>3. \A k \in 1..Len(w) : LET m == Result(w[k].id, w[k].got = "error") IN
         m \in Message /\ m.who = "tool" /\ m.calls = <<>> /\ m.to = w[k].id
  BY <1>2, ResultIs
<1>4. /\ r \in Seq(Message) /\ Len(r) = Len(w)
      /\ \A k \in 1..Len(w) : r[k] = Result(w[k].id, w[k].got = "error")
  <2>1. r = [k \in 1..Len(w) |-> Result(w[k].id, w[k].got = "error")]
    BY <1>1 DEF ResultsOf
  <2> QED
    BY <1>1, <1>3, <2>1
<1> HIDE DEF r
<1>5. \A k \in 1..Len(r) : r[k].who = "tool" /\ r[k].calls = <<>> /\ r[k].to = w[k].id
  BY <1>3, <1>4
<1>6. \A k, l \in 1..Len(r) : r[k].to = r[l].to => k = l
  BY <1>1, <1>4, <1>5 DEF OneEach, SameCalls
<1>7. {r[k].to : k \in 1..Len(r)} = Ids(w)
  BY <1>1, <1>4, <1>5 DEF Ids
<1>8. Results(r) /\ Given(r) = Ids(w)
  BY <1>4, <1>5, <1>6, <1>7 DEF Results, Given
<1> QED
  BY <1>8 DEF r

\* The results of all calls close the history, and the kernel is stored.
LEMMA CommitToolsKeeps ==
    ASSUME ThreadInv, CommitTools
    PROVE  ThreadInv'
<1>1. /\ at = "tools" /\ phase = "running"
      /\ \A k \in DOMAIN work : work[k].got \notin {"waits", "runs"}
      /\ hist' = hist \o ResultsOf(work)
      /\ kernel' = IF LastPython(work) # 0 /\ work[LastPython(work)].got = "ok"
                   THEN chain ELSE kernel
      /\ at' = "model" /\ work' = NoCalls /\ chain' = 0 /\ answers' = 0
      /\ UNCHANGED <<phase, auto, log, turns>>
  BY DEF CommitTools, At, ResultsOf
<1>2. ActiveRun /\ ~ActiveRun'
  BY <1>1 DEF ActiveRun
<1>3. PICK h \in Seq(Message), a \in Nat :
         /\ h = hist /\ Shaped(h) /\ OpenLast(h, a)
         /\ OneEach(Pending(h)) /\ SameCalls(work, Pending(h))
         /\ Ids(work) = Unanswered(h, a) /\ work \in Seq(Job)
  BY <1>2, InTools
<1>4. PICK w : w = work
  OBVIOUS
<1>5. PICK r : r = ResultsOf(w)
  OBVIOUS
<1>6. Results(r) /\ Given(r) = Unanswered(h, a)
  BY <1>3, <1>4, <1>5, ResultsOfIs
<1>7. PICK g : g = h \o r
  OBVIOUS
<1>8. /\ g \in Seq(Message) /\ Shaped(g) /\ OpenLast(g, a)
      /\ Unanswered(g, a) = {}
      /\ LastId(h) \in Nat /\ LastId(g) \in Nat /\ LastId(h) <= LastId(g)
  <2>1. Shaped(h) /\ OpenLast(h, a) /\ Given(r) \subseteq Unanswered(h, a)
    BY <1>3, <1>6
  <2>2. Results(r)
    BY <1>6
  <2>3. /\ h \o r \in Seq(Message) /\ Shaped(h \o r) /\ OpenLast(h \o r, a)
        /\ Unanswered(h \o r, a) = Unanswered(h, a) \ Given(r)
        /\ LastId(h) \in Nat /\ LastId(h \o r) \in Nat /\ LastId(h) <= LastId(h \o r)
    BY <2>1, <2>2, ResultsJoin
  <2> QED
    BY <1>6, <1>7, <2>3
<1>9. hist' = g /\ AllClosed(g)
  BY <1>1, <1>3, <1>4, <1>5, <1>7, <1>8, OpenCloses
<1>10. TurnTypeOK' /\ LogTypes'
  <2>1. kernel' \in Nat
    BY <1>1 DEF ThreadInv, TurnTypeOK
  <2> QED
    BY <1>1, <1>2, <1>8, <1>9, <2>1 DEF ThreadInv, TurnTypeOK, LogTypes, ActiveRun, NoCalls
<1>11. Placed' /\ WorkIs' /\ LogOK'
  <2>1. Placed' /\ WorkIs'
    BY <1>1, <1>2, <1>9 DEF Placed, WorkIs
  <2>2. \A i \in log.began \cup log.refused : i \in Nat /\ i <= LastId(h)
    BY <1>3 DEF ThreadInv, LogOK, LogTypes, Log
  <2>3. \A i \in log.began \cup log.refused : i <= LastId(g)
    BY <1>8, <2>2
  <2>4. LogOK'
    BY <1>1, <1>2, <1>9, <2>3 DEF ThreadInv, LogOK
  <2> QED
    BY <2>1, <2>4
<1>12. KernelOK'
  <2> SUFFICES ASSUME ~log.lost PROVE KernelOK'
    BY <1>1 DEF KernelOK
  <2>1. ~PythonOk' /\ DOMAIN work' = {}
    BY <1>1 DEF PythonOk, NoCalls
  <2>2. /\ log.used \subseteq {1}
        /\ kernel # 0 => kernel = 1 /\ log.used = {1}
        /\ chain # 0 => chain = 1 /\ log.used = {1}
        /\ kernel = 0 /\ log.used # {} => PythonOk
        /\ PythonOk => chain # 0
        /\ \A k \in DOMAIN w : IsPython(w[k]) => w[k].got \in {"waits", "runs", "ok"}
    BY <1>4 DEF ThreadInv, KernelOK
  <2>3. \A k \in DOMAIN w : IsPython(w[k]) => w[k].got = "ok"
    BY <1>1, <1>4, <2>2
  <2>4. PICK last : last = LastPython(w)
    OBVIOUS
  <2>5. /\ DOMAIN w = 1..Len(w) /\ last \in 0..Len(w) /\ Len(w) \in Nat
        /\ last # 0 => IsPython(w[last])
        /\ \A i \in 1..Len(w) : IsPython(w[i]) => last # 0
    BY <1>3, <1>4, <2>4, LastPythonIs
  <2>6. CASE last # 0
    <3>1. last \in DOMAIN w /\ w[last].got = "ok"
      BY <2>3, <2>5, <2>6
    <3>2. PythonOk
      BY <1>4, <2>5, <2>6, <3>1 DEF PythonOk
    <3>3. kernel' = chain /\ chain # 0
      BY <1>1, <1>4, <2>2, <2>4, <2>6, <3>1, <3>2
    <3> QED
      BY <1>1, <2>1, <2>2, <3>3 DEF KernelOK, ActiveRun
  <2>7. CASE last = 0
    <3>1. ~PythonOk
      BY <1>4, <2>5, <2>7 DEF PythonOk
    <3>2. kernel' = kernel
      BY <1>1, <1>4, <2>4, <2>7
    <3> QED
      BY <1>1, <2>1, <2>2, <3>1, <3>2 DEF KernelOK, ActiveRun
  <2> QED
    BY <2>6, <2>7
<1> QED
  BY <1>8, <1>9, <1>10, <1>11, <1>12 DEF ThreadInv

-----------------------------------------------------------------------------
(* The other nodes *)

\* A new message ends whatever was open; the calls the user was asked about are refused.
LEMMA NewMessageKeeps ==
    ASSUME ThreadInv, NewMessage
    PROVE  ThreadInv'
<1>1. /\ phase # "running" /\ turns' = [turns EXCEPT !.humans = @ + 1]
      /\ hist' = Append(hist, Human)
      /\ at' = "before_agent" /\ phase' = "running"
      /\ work' = NoCalls /\ answers' = 0
      /\ log' = IF phase = "interrupted" /\ at = "after_model"
                THEN [log EXCEPT !.refused = @ \cup Ids(Pending(hist))] ELSE log
      /\ UNCHANGED <<kernel, chain, auto>>
  BY DEF NewMessage
<1>2. PICK h : h = hist
  OBVIOUS
<1>3. h \in Seq(Message) /\ Shaped(h) /\ log \in Log /\ LogOK /\ Len(h) \in Nat
  BY <1>2 DEF ThreadInv, TurnTypeOK, LogTypes
<1>4. PICK g : g = Append(h, Human)
  OBVIOUS
<1>5. /\ g \in Seq(Message) /\ Shaped(g) /\ Len(g) = Len(h) + 1 /\ g[Len(h) + 1] = Human
      /\ \A i \in 1..Len(h) : g[i] = h[i]
  <2>1. Human \in Message /\ Plain(Human) /\ Human.who # "tool"
    BY HumanIs
  <2> QED
    BY <1>3, <1>4, <2>1, AppendKeeps
<1>6. hist' = g /\ g # <<>> /\ Last(g).who = "human"
  <2>1. Last(g) = Human /\ g # <<>>
    BY <1>3, <1>5, EmptyIs DEF Last
  <2> QED
    BY <1>1, <1>2, <1>4, <2>1, HumanIs
<1>7. LastId(h) \in Nat /\ LastId(g) \in Nat /\ LastId(h) <= LastId(g)
  <2>1. \A i \in 1..Len(h) : i \in DOMAIN g /\ g[i] = h[i]
    BY <1>3, <1>5
  <2> QED
    BY <1>3, <1>5, <2>1, LastIdGrows
<1>8. /\ log' \in Log
      /\ log'.began = log.began /\ log'.overruled = log.overruled
      /\ log'.used = log.used /\ log'.lost = log.lost
      /\ \A i \in log'.refused : i \in Nat /\ i <= LastId(h)
      /\ log'.began \cap log'.refused \subseteq log'.overruled
  <2>1. \A i \in log.began \cup log.refused : i \in Nat /\ i <= LastId(h)
    BY <1>2, <1>3 DEF LogOK, Log
  <2>2. CASE phase = "interrupted" /\ at = "after_model"
    <3>1. PICK ids : ids = Ids(Pending(h))
      OBVIOUS
    <3>2. /\ ids \subseteq Nat /\ ids \cap log.began = {}
          /\ \A i \in ids : i <= LastId(h)
      <4>1. PICK f \in Seq(Message), a \in Nat :
               /\ f = hist /\ OpenLast(f, a) /\ Shaped(f)
               /\ Asked \in Seq(Call) /\ Unanswered(f, a) = Ids(Asked)
               /\ \A i \in Ids(Asked) : i <= LastId(f)
               /\ Ids(Asked) \cap (log.began \cup log.refused) = {}
        BY <2>2, AfterModel
      <4>2. ids = Ids(Asked)
        BY <1>2, <3>1, <4>1, PendingIs
      <4>3. \A k \in DOMAIN Asked : Asked[k] \in Call
        BY <4>1
      <4>4. Ids(Asked) \subseteq Nat
        BY <4>3 DEF Ids, Call
      <4> QED
        BY <1>2, <4>1, <4>2, <4>4
    <3>3. log' = [log EXCEPT !.refused = @ \cup ids]
      BY <1>1, <1>2, <2>2, <3>1
    <3>4. /\ log' \in Log
          /\ log'.began = log.began /\ log'.overruled = log.overruled
          /\ log'.used = log.used /\ log'.lost = log.lost
          /\ log'.refused = log.refused \cup ids
      BY <1>3, <3>2, <3>3 DEF Log
    <3> QED
      BY <1>3, <2>1, <3>2, <3>4 DEF LogOK
  <2>3. CASE ~(phase = "interrupted" /\ at = "after_model")
    <3>1. log' = log
      BY <1>1, <2>3
    <3> QED
      BY <1>3, <2>1, <3>1 DEF LogOK
  <2> QED
    BY <2>2, <2>3
<1>9. ~ActiveRun' /\ ~PythonOk' /\ DOMAIN work' = {}
  BY <1>1 DEF ActiveRun, PythonOk, NoCalls
<1>10. TurnTypeOK' /\ LogTypes'
  <2>1. turns' \in [humans : Nat, upsets : Nat] /\ IsFiniteSet(log.used)
    BY <1>1 DEF ThreadInv, LogTypes
  <2> QED
    BY <1>1, <1>5, <1>6, <1>8, <1>9, <2>1 DEF ThreadInv, TurnTypeOK, LogTypes, ActiveRun, NoCalls
<1>11. Placed' /\ WorkIs' /\ LogOK'
  <2>1. Placed' /\ WorkIs'
    BY <1>1, <1>6, <1>9 DEF Placed, WorkIs
  <2>2. \A i \in log'.began \cup log'.refused : i \in Nat /\ i <= LastId(h)
    BY <1>2, <1>3, <1>8 DEF LogOK, Log
  <2>3. \A i \in log'.began \cup log'.refused : i <= LastId(g)
    BY <1>7, <2>2
  <2> QED
    BY <1>1, <1>6, <1>8, <1>9, <2>1, <2>3 DEF LogOK
<1>12. KernelOK'
  <2>1. ~log.lost => ~PythonOk
    BY <1>1, Outside DEF ActiveRun, PythonOk, ThreadInv, KernelOK
  <2> QED
    BY <1>1, <1>8, <1>9, <2>1 DEF ThreadInv, KernelOK
<1> QED
  BY <1>5, <1>6, <1>10, <1>11, <1>12 DEF ThreadInv

\* Between the tools nodes the kernels stay what they are, whatever the history.
LEMMA KernelStays ==
    ASSUME ThreadInv, ~ActiveRun, ~ActiveRun', phase' # "interrupted",
           UNCHANGED <<work, kernel, chain, log>>
    PROVE  KernelOK'
<1>1. work = NoCalls
  BY Outside
<1>2. PythonOk' = PythonOk /\ DOMAIN work' = {}
  BY <1>1 DEF PythonOk, NoCalls
<1> QED
  BY <1>2 DEF ThreadInv, KernelOK

\* The repair closes the history the run begins with.
LEMMA BeforeAgentKeeps ==
    ASSUME ThreadInv, BeforeAgent
    PROVE  ThreadInv'
<1>1. /\ at = "before_agent" /\ phase = "running" /\ hist' = Repaired(hist)
      /\ auto' \in BOOLEAN /\ at' = "model"
      /\ UNCHANGED <<phase, work, answers, kernel, chain, log, turns>>
  BY DEF BeforeAgent, At
<1>2. ~ActiveRun /\ ~ActiveRun'
  BY <1>1 DEF ActiveRun
<1>3. PICK h : h = hist
  OBVIOUS
<1>4. h \in Seq(Message) /\ Shaped(h) /\ h # <<>> /\ Last(h).who = "human" /\ LogOK /\ log \in Log
  BY <1>1, <1>3 DEF ThreadInv, TurnTypeOK, Placed, LogTypes
<1>5. PICK g : g = Repaired(h)
  OBVIOUS
<1>6. /\ g \in Seq(Message) /\ Shaped(g) /\ AllClosed(g)
      /\ \A i \in 1..Len(h) : \E p \in DOMAIN g : g[p] = h[i]
  BY <1>4, <1>5, RepairKeeps
<1>7. hist' = g /\ LastId(h) \in Nat /\ LastId(g) \in Nat /\ LastId(h) <= LastId(g)
  BY <1>1, <1>3, <1>4, <1>5, <1>6, LastIdGrows
<1>8. TurnTypeOK' /\ LogTypes'
  BY <1>1, <1>2, <1>6, <1>7 DEF ThreadInv, TurnTypeOK, LogTypes, ActiveRun
<1>9. Placed' /\ WorkIs' /\ LogOK'
  <2>1. \A i \in log.began \cup log.refused : i \in Nat /\ i <= LastId(h)
    BY <1>3, <1>4 DEF LogOK, Log
  <2>2. \A i \in log.began \cup log.refused : i <= LastId(g)
    BY <1>7, <2>1
  <2>3. LogOK'
    BY <1>1, <1>2, <1>4, <1>7, <2>2 DEF LogOK
  <2> QED
    BY <1>1, <1>2, <1>6, <1>7, <2>3 DEF Placed, WorkIs
<1>10. KernelOK'
  BY <1>1, <1>2, KernelStays
<1> QED
  BY <1>6, <1>7, <1>8, <1>9, <1>10 DEF ThreadInv

\* The model asks for calls with new ids.
LEMMA CallModelKeeps ==
    ASSUME ThreadInv, CallModel
    PROVE  ThreadInv'
<1>1. /\ at = "model" /\ phase = "running" /\ at' = "after_model"
      /\ UNCHANGED <<phase, work, answers, kernel, chain, auto, log, turns>>
  BY DEF CallModel, At
<1>2. ~ActiveRun /\ ~ActiveRun'
  BY <1>1 DEF ActiveRun
<1>3. PICK h : h = hist
  OBVIOUS
<1>4. h \in Seq(Message) /\ Shaped(h) /\ AllClosed(h) /\ LogOK /\ log \in Log /\ Len(h) \in Nat
  BY <1>1, <1>3 DEF ThreadInv, TurnTypeOK, Placed, LogTypes
<1>5. PICK n \in Nat : n = LastId(h)
  BY <1>4, LastIdIs
<1>6. PICK m : /\ hist' = Append(h, m) /\ m \in Message /\ Plain(m) /\ m.who = "ai"
               /\ \A i \in Ids(m.calls) : i > n
  <2>1. ASSUME NEW batch \in Batches \cup {<<>>}
        PROVE  batch \in Seq(STRING)
    <3>1. <<>> \in Seq(STRING)
      OBVIOUS
    <3> QED
      BY <2>1, <3>1, AgentTurnAssumption
  <2>2. CASE Loops(hist)
    <3>1. hist' = Append(h, AI(<<>>))
      BY <1>3, <2>2 DEF CallModel
    <3>2. <<>> \in Seq(Call) /\ Ids(<<>>) = {} /\ OneEach(<<>>)
      BY DEF Ids, OneEach
    <3>3. AI(<<>>) \in Message /\ AI(<<>>).who = "ai" /\ AI(<<>>).calls = <<>>
      BY <3>2, AIIs
    <3> QED
      BY <3>1, <3>2, <3>3 DEF Plain
  <2>3. CASE ~Loops(hist)
    <3>1. PICK batch \in Batches \cup {<<>>} : hist' = Append(h, Asking(n, batch))
      BY <1>3, <1>5, <2>3 DEF CallModel
    <3>2. batch \in Seq(STRING)
      BY <2>1
    <3>3. /\ Asking(n, batch) \in Message /\ Plain(Asking(n, batch))
          /\ Asking(n, batch).who = "ai"
          /\ \A i \in Ids(Asking(n, batch).calls) : i > n
      BY <3>2, AskingIs
    <3> QED
      BY <3>1, <3>3
  <2> QED
    BY <2>2, <2>3
<1>7. PICK g : g = Append(h, m)
  OBVIOUS
<1>8. /\ g \in Seq(Message) /\ Shaped(g) /\ Len(g) = Len(h) + 1 /\ g[Len(h) + 1] = m
      /\ \A i \in 1..Len(h) : g[i] = h[i]
      /\ \A i \in 1..Len(h) : Closed(g, i)
  <2>1. m.who # "tool"
    BY <1>6
  <2> QED
    BY <1>4, <1>6, <1>7, <2>1, AppendKeeps
<1>9. hist' = g /\ LastId(g) \in Nat /\ n <= LastId(g)
  <2>1. \A i \in 1..Len(h) : i \in DOMAIN g /\ g[i] = h[i]
    BY <1>4, <1>8
  <2>2. LastId(h) \in Nat /\ LastId(g) \in Nat /\ LastId(h) <= LastId(g)
    BY <1>4, <1>8, <2>1, LastIdGrows
  <2> QED
    BY <1>5, <1>6, <1>7, <2>2
<1>10. g # <<>> /\ Last(g) = m /\ OpenLast(g, Len(g))
  <2>1. g # <<>> /\ Last(g) = m /\ Len(g) \in DOMAIN g
    BY <1>4, <1>8, EmptyIs DEF Last
  <2>2. (Len(g) + 1)..Len(g) = {} /\ \A i \in 1..(Len(g) - 1) : Closed(g, i)
    BY <1>4, <1>8
  <2> QED
    BY <1>4, <1>6, <1>8, <2>1, <2>2 DEF OpenLast
<1>11. TurnTypeOK' /\ LogTypes'
  BY <1>1, <1>2, <1>8, <1>9 DEF ThreadInv, TurnTypeOK, LogTypes, ActiveRun
<1>12. Placed' /\ WorkIs' /\ LogOK'
  <2>1. \A i \in log.began \cup log.refused : i \in Nat /\ i <= n
    BY <1>3, <1>4, <1>5 DEF LogOK, Log
  <2>2. \A i \in log.began \cup log.refused : i <= LastId(g)
    BY <1>9, <2>1
  <2>3. Ids(Last(g).calls) \cap (log.began \cup log.refused) = {}
    <3>1. \A i \in Ids(m.calls) : ~(i \in Nat /\ i <= n)
      <4>1. m.calls \in Seq(Call)
        BY <1>6 DEF Message, Call
      <4>2. \A k \in DOMAIN m.calls : m.calls[k] \in Call
        BY <4>1
      <4>3. Ids(m.calls) \subseteq Nat
        BY <4>2 DEF Ids, Call
      <4> QED
        BY <1>5, <1>6, <4>3
    <3> QED
      BY <1>10, <2>1, <3>1
  <2>4. LogOK'
    BY <1>1, <1>2, <1>4, <1>9, <2>2, <2>3 DEF LogOK
  <2> QED
    BY <1>1, <1>2, <1>9, <1>10, <2>4 DEF ThreadInv, Placed, WorkIs
<1>13. KernelOK'
  BY <1>1, <1>2, KernelStays
<1> QED
  BY <1>8, <1>9, <1>11, <1>12, <1>13 DEF ThreadInv

-----------------------------------------------------------------------------
(* The theorems *)

\* The invariant holds at first.
LEMMA InitInv == AgentTurnInit => ThreadInv
<1> SUFFICES ASSUME AgentTurnInit PROVE ThreadInv
  OBVIOUS
<1>1. hist \in Seq(Message) /\ work \in Seq(Job) /\ DOMAIN hist = {} /\ DOMAIN work = {}
  BY DEF AgentTurnInit, NoCalls
<1>2. ~ActiveRun /\ ~PythonOk
  BY <1>1 DEF AgentTurnInit, ActiveRun, PythonOk
<1>3. TurnTypeOK
  BY <1>1, <1>2 DEF AgentTurnInit, TurnTypeOK, ActiveRun, Job, Got, NoCalls
<1>4. LogTypes
  <2>1. IsFiniteSet({})
    BY FS_EmptySet
  <2> QED
    BY <2>1 DEF AgentTurnInit, LogTypes, Log
<1>5. Shaped(hist)
  BY <1>1 DEF Shaped
<1>6. Placed /\ WorkIs /\ LogOK
  BY <1>2 DEF AgentTurnInit, Placed, WorkIs, LogOK
<1>7. KernelOK
  BY <1>1, <1>2 DEF AgentTurnInit, KernelOK
<1> QED
  BY <1>3, <1>4, <1>5, <1>6, <1>7 DEF ThreadInv

\* Every step keeps the invariant.
LEMMA StepKeeps == ThreadInv /\ [AgentTurnNext]_turnVars => ThreadInv'
<1> SUFFICES ASSUME ThreadInv, [AgentTurnNext]_turnVars PROVE ThreadInv'
  OBVIOUS
<1>1. CASE BeforeAgent
  BY <1>1, BeforeAgentKeeps
<1>2. CASE CallModel
  BY <1>2, CallModelKeeps
<1>3. CASE ThinksTooLong \/ ModelFails \/ Retry
  <2>1. /\ at = "model" /\ phase' \in {"failed", "running"} /\ ~ActiveRun
        /\ UNCHANGED <<hist, at, work, answers, kernel, chain, auto, log>>
    BY <1>3 DEF ThinksTooLong, ModelFails, Retry, At, ActiveRun, ThreadInv, Placed
  <2>2. turns' \in [humans : Nat, upsets : Nat]
    BY <1>3, UpsetIs DEF ThinksTooLong, ModelFails, Retry, ThreadInv, LogTypes
  <2> QED
    BY <2>1, <2>2, PhaseKeeps
<1>4. CASE AfterModelAsks
  <2>1. /\ at = "after_model" /\ phase' = "interrupted" /\ ~ActiveRun
        /\ UNCHANGED <<hist, at, work, answers, kernel, chain, auto, log>>
    BY <1>4 DEF AfterModelAsks, At, ActiveRun
  <2>2. turns' \in [humans : Nat, upsets : Nat]
    BY <1>4 DEF AfterModelAsks, ThreadInv, LogTypes
  <2> QED
    BY <2>1, <2>2, PhaseKeeps
<1>5. CASE AfterModelGoes \/ UserApproves
  <2>1. at = "after_model" /\ Goes(hist, log) /\ UNCHANGED <<kernel, auto, turns>>
    BY <1>5 DEF AfterModelGoes, UserApproves, At, Interrupted
  <2> QED
    BY <2>1, GoesOn
<1>6. ASSUME NEW k \in DOMAIN work,
             \/ \E got \in {"ok", "raised", "error"} : ToolEnds(k, got)
             \/ AskInterrupts(k) \/ AskEnds(k)
      PROVE  ThreadInv'
  BY <1>6, ToolEndsKeeps, AskInterruptsKeeps, AskEndsKeeps
<1>7. CASE CommitTools
  BY <1>7, CommitToolsKeeps
<1>8. CASE NewMessage
  BY <1>8, NewMessageKeeps
<1>9. CASE Stop
  BY <1>9, StopKeeps
<1>10. CASE ToggleAuto
  BY <1>10, ToggleAutoKeeps
<1>11. CASE UserRejects
  BY <1>11, UserRejectsKeeps
<1>12. CASE ClientReturns
  BY <1>12, ClientReturnsKeeps
<1>13. CASE UserAnswers
  BY <1>13, UserAnswersKeeps
<1>14. CASE UNCHANGED turnVars
  <2>1. UNCHANGED <<hist, at, phase, work, answers, kernel, chain, auto, log, turns>>
    BY <1>14 DEF turnVars
  <2>2. ActiveRun' = ActiveRun /\ PythonOk' = PythonOk
    BY <2>1 DEF ActiveRun, PythonOk
  <2>3. TurnTypeOK' /\ LogTypes'
    BY <2>1 DEF ThreadInv, TurnTypeOK, LogTypes
  <2>4. Placed' /\ WorkIs' /\ LogOK'
    BY <2>1, <2>2 DEF ThreadInv, Placed, WorkIs, LogOK
  <2>5. KernelOK'
    BY <2>1, <2>2 DEF ThreadInv, KernelOK
  <2> QED
    BY <2>1, <2>3, <2>4, <2>5 DEF ThreadInv
<1> QED
  BY <1>1, <1>2, <1>3, <1>4, <1>5, <1>6, <1>7, <1>8, <1>9, <1>10, <1>11, <1>12, <1>13, <1>14
     DEF AgentTurnNext, GraphStep

\* The inductive invariant: the shape of the history at each node, what the tools node
\* works on, which calls may be refused, and where the kernel is named.
THEOREM ThreadInvariant == AgentTurnSpec => []ThreadInv
<1>1. AgentTurnInit => ThreadInv
  BY InitInv
<1>2. ThreadInv /\ [AgentTurnNext]_turnVars => ThreadInv'
  BY StepKeeps
<1> QED
  BY <1>1, <1>2, PTL DEF AgentTurnSpec

\* The thread's state keeps its types, and the tools node has work exactly while it is
\* under way, whatever batches the models ask for and whatever the tools come to.
THEOREM ThreadTypes == AgentTurnSpec => []TurnTypeOK
<1>1. ThreadInv => TurnTypeOK
  BY DEF ThreadInv
<1> QED
  BY <1>1, ThreadInvariant, PTL

\* However a thread was stopped, refused, written into or answered in part, the history
\* the model is shown has every call answered by the next message, one at a time, and
\* no result without its call: the repair, the order of the results and both collapses
\* together keep it so.
THEOREM ModelIsShownAnsweredCalls == AgentTurnSpec => []ModelSeesAnsweredCalls
<1>1. ThreadInv => ModelSeesAnsweredCalls
  <2> SUFFICES ASSUME ThreadInv PROVE ModelSeesAnsweredCalls
    OBVIOUS
  <2>1. ASSUME At("model") PROVE Paired(LlmView(hist))
    <3>1. hist \in Seq(Message) /\ Shaped(hist) /\ AllClosed(hist)
      BY <2>1 DEF ThreadInv, TurnTypeOK, Placed, At
    <3> QED
      BY <3>1, ViewIsPaired
  <2> QED
    BY <2>1 DEF ModelSeesAnsweredCalls, Paired
<1> QED
  BY <1>1, ThreadInvariant, PTL

\* A call the user refused, by a comment or by writing something else, never begins,
\* unless switching autonomy on made the refusal void.
THEOREM RefusedCallsStayUnrun == AgentTurnSpec => []RefusedStayUnrun
<1>1. ThreadInv => RefusedStayUnrun
  BY DEF ThreadInv, LogOK, RefusedStayUnrun
<1> QED
  BY <1>1, ThreadInvariant, PTL

\* All python calls of a thread run in one kernel as long as none raised and no tools
\* node with one was cut short.
THEOREM ThreadHasOneKernel == AgentTurnSpec => []OneKernel
<1>1. ThreadInv => OneKernel
  <2> SUFFICES ASSUME ThreadInv, ~log.lost PROVE Cardinality(log.used) <= 1
    BY DEF OneKernel
  <2>1. log.used \subseteq {1}
    BY DEF ThreadInv, KernelOK
  <2>2. log.used = {} \/ log.used = {1}
    BY <2>1
  <2>3. Cardinality({}) = 0 /\ Cardinality({1}) = 1
    BY FS_EmptySet, FS_Singleton
  <2> QED
    BY <2>2, <2>3
<1> QED
  BY <1>1, ThreadInvariant, PTL
=============================================================================
