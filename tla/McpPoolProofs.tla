---------------------------- MODULE McpPoolProofs ----------------------------
(***************************************************************************)
(* Theorems about McpPool, for any users, servers, requests, workers,       *)
(* limits and bounds.                                                       *)
(***************************************************************************)
EXTENDS McpPool, FiniteSetTheorems, SequenceTheorems, TLAPS

-----------------------------------------------------------------------------
(* The inductive invariant *)

\* A worker identity without a task is not counted, in no deque and in no request's
\* hands: a spawn may take it.
FreeIsGone == \A w \in Worker : wk[w].task = "free" => wk[w].gone /\ ~Referenced(w)

\* What a request that leased a worker holds is a worker.
HeldIsWorker ==
    \A c \in Client : cl[c].pc \in {"looking", "waiting", "caching"} => cl[c].w \in Worker

\* A counted worker was spawned after the last invalidation of its server, and no
\* request resolved its server after invalidations still to come.
Epochs ==
    /\ \A w \in Worker : ~wk[w].gone => wk[w].epoch = epoch[wk[w].key[2]]
    /\ \A c \in Client : cl[c].epoch <= epoch[cl[c].key[2]]

PoolInv ==
    /\ TypeOK
    /\ CountersExact
    /\ ExclusiveCheckout
    /\ LeaseIsFresh
    /\ FreeIsGone
    /\ HeldIsWorker
    /\ Epochs

-----------------------------------------------------------------------------
(* Deques *)

Item == Client \cup {NoClient, Shutdown}
Holding == {"looking", "waiting", "caching"}

\* A non-empty set of naturals has a least element.
LEMMA LeastNumber ==
    ASSUME NEW S \in SUBSET Nat, S # {}
    PROVE  \E m \in S : \A n \in S : m <= n
<1> DEFINE R == OpToRel(<, Nat)
<1>1. \E m \in S : \A n \in S : ~(<<n, m>> \in R)
  <2> HIDE DEF R
  <2>1. IsWellFoundedOn(R, Nat)
    BY NatLessThanWellFounded DEF R
  <2> QED
    BY <2>1, WFMin
<1>2. \A m, n \in Nat : n < m => <<n, m>> \in R
  BY DEF OpToRel
<1> HIDE DEF R
<1>3. PICK m \in S : \A n \in S : ~(<<n, m>> \in R)
  BY <1>1
<1>4. \A n \in S : m <= n
  <2> SUFFICES ASSUME NEW n \in S PROVE m <= n
    OBVIOUS
  <2>1. m \in Nat /\ n \in Nat /\ ~(n < m)
    BY <1>2, <1>3
  <2> QED
    BY <2>1
<1> QED
  BY <1>4

\* e is d with some entries taken out: every entry of e is one of d, at a place of
\* its own.
Thinner(e, d) ==
    \E f \in [DOMAIN e -> DOMAIN d] :
        /\ \A i, j \in DOMAIN e : f[i] = f[j] => i = j
        /\ \A i \in DOMAIN e : e[i] = d[f[i]]

\* A deque is thinner than itself.
LEMMA ThinnerSame == ASSUME NEW d PROVE Thinner(d, d)
<1> DEFINE f == [i \in DOMAIN d |-> i]
<1>1. f \in [DOMAIN d -> DOMAIN d]
  OBVIOUS
<1>2. \A i, j \in DOMAIN d : f[i] = f[j] => i = j
  OBVIOUS
<1>3. \A i \in DOMAIN d : d[i] = d[f[i]]
  OBVIOUS
<1> HIDE DEF f
<1> QED
  BY <1>1, <1>2, <1>3 DEF Thinner

\* The empty deque is thinner than any.
LEMMA ThinnerEmpty == ASSUME NEW d PROVE Thinner(<<>>, d) /\ DOMAIN <<>> = {}
<1>1. DOMAIN <<>> = {}
  OBVIOUS
<1>2. [i \in {} |-> i] \in [{} -> DOMAIN d]
  OBVIOUS
<1> QED
  BY <1>1, <1>2 DEF Thinner

\* What is left after popping the first n entries.
LEMMA PoppedRest ==
    ASSUME NEW S, NEW d \in Seq(S), NEW n \in 1 .. Len(d)
    PROVE  /\ Popped(d, n) \in Seq(S)
           /\ Thinner(Popped(d, n), d)
           /\ \A i \in DOMAIN Popped(d, n) : \E j \in DOMAIN d : j > n /\ Popped(d, n)[i] = d[j]
<1> DEFINE e == Popped(d, n)
           f == [i \in DOMAIN e |-> n + i]
<1>1. Len(d) \in Nat /\ DOMAIN d = 1 .. Len(d)
  BY LenProperties
<1>2. \A i \in n + 1 .. Len(d) : d[i] \in S
  BY <1>1, ElementOfSeq
<1>3. /\ e \in Seq(S)
      /\ Len(e) = IF n + 1 <= Len(d) THEN Len(d) - (n + 1) + 1 ELSE 0
      /\ \A i \in 1 .. Len(d) - (n + 1) + 1 : e[i] = d[n + 1 + i - 1]
  BY <1>1, <1>2, SubSeqProperties DEF Popped
<1>4. DOMAIN e = 1 .. Len(d) - n
  BY <1>1, <1>3, LenProperties
<1>5. \A i \in DOMAIN e : e[i] = d[n + i] /\ n + i \in DOMAIN d /\ n + i > n
  <2>1. n \in Nat /\ n >= 1
    BY <1>1
  <2> HIDE DEF e
  <2> SUFFICES ASSUME NEW i \in DOMAIN e
               PROVE  e[i] = d[n + i] /\ n + i \in DOMAIN d /\ n + i > n
    OBVIOUS
  <2>2. i \in 1 .. Len(d) - n
    BY <1>4
  <2>3. i \in 1 .. Len(d) - (n + 1) + 1 /\ n + 1 + i - 1 = n + i
    BY <1>1, <2>1, <2>2
  <2>4. e[i] = d[n + i]
    BY <1>3, <2>3
  <2> QED
    BY <1>1, <2>1, <2>2, <2>4
<1>6. Thinner(e, d)
  <2>1. f \in [DOMAIN e -> DOMAIN d]
    BY <1>5
  <2>2. \A i, j \in DOMAIN e : f[i] = f[j] => i = j
    BY <1>1, <1>4
  <2>3. \A i \in DOMAIN e : e[i] = d[f[i]]
    BY <1>5
  <2> HIDE DEF e, f
  <2> QED
    BY <2>1, <2>2, <2>3 DEF Thinner
<1> QED
  BY <1>3, <1>5, <1>6

\* What Without leaves: a sequence of d's entries outside S, in places of their own.
LEMMA WithoutRest ==
    ASSUME NEW T, NEW d \in Seq(T), NEW S
    PROVE  /\ Without(d, S) \in Seq(T)
           /\ Thinner(Without(d, S), d)
           /\ \A i \in DOMAIN Without(d, S) : Without(d, S)[i] \notin S
<1> DEFINE kept == {i \in DOMAIN d : d[i] \notin S}
           place == [i \in kept |-> Cardinality({h \in kept : h <= i})]
           n == Cardinality(kept)
           at == [j \in 1 .. n |-> CHOOSE i \in kept : place[i] = j]
           e == Without(d, S)
<1>1. Len(d) \in Nat /\ DOMAIN d = 1 .. Len(d) /\ d \in [1 .. Len(d) -> T]
  BY LenProperties
<1>2. kept \subseteq 1 .. Len(d) /\ IsFiniteSet(kept) /\ n \in Nat
  <2>1. kept \in SUBSET (1 .. Len(d)) /\ IsFiniteSet(1 .. Len(d))
    BY <1>1, FS_Interval
  <2> HIDE DEF kept
  <2> QED
    BY <2>1, FS_Subset, FS_CardinalityType
<1>3. place \in Injection(kept, 1 .. n)
  <2>1. ASSUME NEW i \in kept
        PROVE  place[i] \in 1 .. n
    <3> DEFINE below == {h \in kept : h <= i}
    <3>1. below \in SUBSET kept /\ i \in below
      BY <1>2
    <3>2. IsFiniteSet(below) /\ Cardinality(below) <= n /\ Cardinality(below) \in Nat
      <4> HIDE DEF below, kept
      <4> QED
        BY <1>2, <3>1, FS_Subset, FS_CardinalityType
    <3>3. Cardinality(below) # 0
      <4> HIDE DEF below
      <4> QED
        BY <3>1, <3>2, FS_EmptySet
    <3>4. place[i] = Cardinality(below)
      OBVIOUS
    <3> HIDE DEF below, place, n
    <3> QED
      BY <1>2, <3>2, <3>3, <3>4
  <2>2. ASSUME NEW i \in kept, NEW j \in kept, i < j
        PROVE  place[i] # place[j]
    <3> DEFINE low == {h \in kept : h <= i}
               high == {h \in kept : h <= j}
    <3>1. low \in SUBSET high /\ high \in SUBSET kept /\ j \in high /\ j \notin low
      BY <1>2, <2>2
    <3>2. IsFiniteSet(high)
      <4> HIDE DEF high, kept
      <4> QED
        BY <1>2, <3>1, FS_Subset
    <3>3. Cardinality(low) # Cardinality(high)
      <4> HIDE DEF high, low, kept
      <4> QED
        BY <3>1, <3>2, FS_Subset
    <3>4. place[i] = Cardinality(low) /\ place[j] = Cardinality(high)
      OBVIOUS
    <3> QED
      BY <3>3, <3>4
  <2>3. \A i, j \in kept : i \in Int /\ j \in Int /\ (i = j \/ i < j \/ j < i)
    BY <1>2
  <2>4. place \in [kept -> 1 .. n] /\ \A i, j \in kept : i # j => place[i] # place[j]
    <3>1. place = [i \in kept |-> place[i]]
      OBVIOUS
    <3> HIDE DEF place, kept, n
    <3> QED
      BY <2>1, <2>2, <2>3, <3>1
  <2> HIDE DEF place, kept, n
  <2> QED
    BY <2>4 DEF Injection, IsInjective
<1>4. place \in Surjection(kept, 1 .. n)
  <2>1. IsFiniteSet(1 .. n) /\ Cardinality(1 .. n) = n
    BY <1>2, FS_Interval
  <2>2. Cardinality(kept) = n
    OBVIOUS
  <2> HIDE DEF place, kept, n
  <2> QED
    BY <1>3, <2>1, <2>2, FS_Injection
<1>5. \A j \in 1 .. n : at[j] \in kept /\ place[at[j]] = j
  <2>1. \A j \in 1 .. n : \E i \in kept : place[i] = j
    <3> HIDE DEF place, kept, n
    <3> QED
      BY <1>4 DEF Surjection
  <2>2. \A j \in 1 .. n : at[j] = CHOOSE i \in kept : place[i] = j
    OBVIOUS
  <2> HIDE DEF place, kept, n, at
  <2> QED
    BY <2>1, <2>2
<1>6. /\ DOMAIN e = 1 .. n /\ e = [j \in 1 .. n |-> e[j]]
      /\ \A j \in 1 .. n : e[j] = d[at[j]]
  <2>1. e = [j \in 1 .. n |-> d[CHOOSE i \in kept : place[i] = j]]
    BY DEF Without
  <2>2. \A j \in 1 .. n : at[j] = CHOOSE i \in kept : place[i] = j
    OBVIOUS
  <2>3. DOMAIN e = 1 .. n /\ e = [j \in 1 .. n |-> e[j]]
    <3> HIDE DEF e, kept, n, at, place
    <3> QED
      BY <2>1
  <2>4. \A j \in 1 .. n : e[j] = d[CHOOSE i \in kept : place[i] = j]
    <3> HIDE DEF e, kept, n, at, place
    <3> QED
      BY <2>1
  <2> HIDE DEF e, kept, n, at, place
  <2> QED
    BY <2>2, <2>3, <2>4
<1>7. DOMAIN e = 1 .. n /\ \A j \in 1 .. n : e[j] = d[at[j]] /\ e[j] \in T /\ e[j] \notin S
  <2>1. \A i \in kept : d[i] \in T /\ d[i] \notin S
    BY <1>1
  <2> HIDE DEF e, kept, n, at, place
  <2> QED
    BY <1>5, <1>6, <2>1
<1>8. e \in Seq(T)
  <2>1. e \in [1 .. n -> T]
    <3> HIDE DEF e, n, at, kept
    <3> QED
      BY <1>6, <1>7
  <2> HIDE DEF e, n
  <2> QED
    BY <1>2, <2>1, SeqDef
<1>9. Thinner(e, d)
  <2>1. at \in [DOMAIN e -> DOMAIN d]
    BY <1>5, <1>7
  <2>2. \A i, j \in DOMAIN e : at[i] = at[j] => i = j
    <3> HIDE DEF e, n, at, place, kept
    <3> QED
      BY <1>5, <1>7
  <2>3. \A i \in DOMAIN e : e[i] = d[at[i]]
    BY <1>7
  <2> HIDE DEF e, at
  <2> QED
    BY <2>1, <2>2, <2>3 DEF Thinner
<1> QED
  BY <1>7, <1>8, <1>9

-----------------------------------------------------------------------------
(* Records and counts *)

\* Keys are pairs, and there is a key and a configuration to fill a record with.
LEMMA Choices ==
    /\ (CHOOSE k \in Key : TRUE) \in Key
    /\ (CHOOSE s \in Sig : TRUE) \in Sig
    /\ \A k \in Key : k[1] \in User /\ k[2] \in Server
<1>1. Key # {} /\ Sig # {}
  <2>1. PICK u \in User, s \in Server : TRUE
    BY PoolAssumption
  <2>2. <<u, s>> \in Key
    BY DEF Key
  <2> QED
    BY <2>2, PoolAssumption
<1>2. \A k \in Key : k[1] \in User /\ k[2] \in Server
  BY DEF Key
<1> QED
  BY <1>1, <1>2

\* A worker identity nobody uses.
LEMMA FreeWorkerType ==
    /\ FreeWorker \in WorkerState
    /\ FreeWorker.gone = TRUE /\ FreeWorker.task = "free"
<1>1. <<>> \in Seq(Item)
  BY EmptySeq
<1> QED
  BY <1>1, Choices DEF FreeWorker, WorkerState, Item

\* A request that has not begun.
LEMMA NewClientType ==
    /\ NewClient \in ClientState
    /\ NewClient.pc = "start" /\ NewClient.epoch = 0
BY Choices DEF NewClient, ClientState

\* Taking some members out of a set, and adding one that was not there.
LEMMA SetCounts ==
    ASSUME NEW A, NEW B \in SUBSET A, NEW w, IsFiniteSet(A), w \notin A
    PROVE  /\ Cardinality(A) \in Nat /\ Cardinality(B) \in Nat /\ Cardinality(A \ B) \in Nat
           /\ Cardinality(A \ B) = Cardinality(A) - Cardinality(B)
           /\ Cardinality((A \ B) \cup {w}) = Cardinality(A) - Cardinality(B) + 1
           /\ Cardinality(A \ B) <= Cardinality(A)
<1>1. IsFiniteSet(B) /\ IsFiniteSet(A \ B) /\ A \cap B = B /\ w \notin A \ B
  BY FS_Subset
<1>2. /\ Cardinality(A) \in Nat /\ Cardinality(B) \in Nat /\ Cardinality(A \ B) \in Nat
      /\ Cardinality(A \ B) = Cardinality(A) - Cardinality(B)
  BY <1>1, FS_CardinalityType, FS_Difference
<1>3. Cardinality((A \ B) \cup {w}) = Cardinality(A \ B) + 1
  BY <1>1, FS_AddElement
<1> QED
  BY <1>2, <1>3

\* Taking some members out of a finite set.
LEMMA Subtraction ==
    ASSUME NEW A, NEW B \in SUBSET A, IsFiniteSet(A)
    PROVE  /\ Cardinality(A) \in Nat /\ Cardinality(B) \in Nat /\ Cardinality(A \ B) \in Nat
           /\ Cardinality(A \ B) = Cardinality(A) - Cardinality(B)
           /\ Cardinality(A \ B) <= Cardinality(A)
<1>1. IsFiniteSet(B) /\ IsFiniteSet(A \ B) /\ A \cap B = B
  BY FS_Subset
<1>2. /\ Cardinality(A) \in Nat /\ Cardinality(B) \in Nat /\ Cardinality(A \ B) \in Nat
      /\ Cardinality(A \ B) = Cardinality(A) - Cardinality(B)
  BY <1>1, FS_CardinalityType, FS_Difference
<1> QED
  BY <1>2

\* _all and its parts are finite.
LEMMA FiniteParts ==
    ASSUME NEW S \in SUBSET Worker
    PROVE  /\ IsFiniteSet(S)
           /\ \A k : OfKey(S, k) \in SUBSET S /\ IsFiniteSet(OfKey(S, k))
           /\ \A u : OfUser(S, u) \in SUBSET S /\ IsFiniteSet(OfUser(S, u))
<1>1. IsFiniteSet(S)
  BY PoolAssumption, FS_Subset
<1>2. \A k : OfKey(S, k) \in SUBSET S
  BY DEF OfKey
<1>3. \A u : OfUser(S, u) \in SUBSET S
  BY DEF OfUser
<1> QED
  BY <1>1, <1>2, <1>3, FS_Subset

\* Uncounting the workers of S keeps the counters exact, when S is what becomes dead.
LEMMA Uncounting ==
    ASSUME TypeOK, CountersExact, NEW S \in SUBSET Worker, Uncount(S),
           \A w \in Worker : wk'[w].gone = (wk[w].gone \/ w \in S),
           \A w \in Worker : ~wk'[w].gone => wk'[w].key = wk[w].key
    PROVE  /\ CountersExact'
           /\ all' \in SUBSET Worker
           /\ perKey' \in [Key -> Nat] /\ perUser' \in [User -> Nat] /\ total' \in Nat
<1> DEFINE fresh == Counted(S)
<1>1. /\ all' = all \ fresh
      /\ perKey' = [k \in Key |-> perKey[k] - Cardinality(OfKey(fresh, k))]
      /\ perUser' = [u \in User |-> perUser[u] - Cardinality(OfUser(fresh, u))]
      /\ total' = total - Cardinality(fresh)
  BY DEF Uncount
<1>2. all \in SUBSET Worker /\ all = {w \in Worker : ~wk[w].gone}
  BY DEF TypeOK, CountersExact
<1>3. fresh \in SUBSET all /\ fresh = all \cap S
  BY <1>2 DEF Counted
<1>4. all' = {w \in Worker : ~wk'[w].gone} /\ all' \in SUBSET Worker
  BY <1>1, <1>2, <1>3
<1> HIDE DEF fresh
<1>5. \A w \in all' : wk'[w].key = wk[w].key
  BY <1>4
<1>6. ASSUME NEW k \in Key
      PROVE  perKey'[k] \in Nat /\ perKey'[k] = Cardinality(OfKey(all, k)') /\ perKey'[k] <= PerKey
  <2>1. OfKey(fresh, k) \in SUBSET OfKey(all, k)
    BY <1>3 DEF OfKey
  <2>2. IsFiniteSet(OfKey(all, k))
    BY <1>2, FiniteParts
  <2>3. OfKey(all, k)' = OfKey(all, k) \ OfKey(fresh, k)
    BY <1>1, <1>3, <1>5 DEF OfKey
  <2>4. perKey[k] = Cardinality(OfKey(all, k)) /\ perKey[k] <= PerKey
    BY DEF CountersExact
  <2>5. perKey'[k] = perKey[k] - Cardinality(OfKey(fresh, k))
    BY <1>1
  <2>6. /\ Cardinality(OfKey(all, k)) \in Nat /\ Cardinality(OfKey(fresh, k)) \in Nat
        /\ Cardinality(OfKey(all, k)') \in Nat
        /\ Cardinality(OfKey(all, k)') = Cardinality(OfKey(all, k)) - Cardinality(OfKey(fresh, k))
    BY <2>1, <2>2, <2>3, Subtraction
  <2> QED
    BY <2>4, <2>5, <2>6, PoolAssumption
<1>7. ASSUME NEW u \in User
      PROVE  /\ perUser'[u] \in Nat /\ perUser'[u] = Cardinality(OfUser(all, u)')
             /\ perUser'[u] <= PerUser
  <2>1. OfUser(fresh, u) \in SUBSET OfUser(all, u)
    BY <1>3 DEF OfUser
  <2>2. IsFiniteSet(OfUser(all, u))
    BY <1>2, FiniteParts
  <2>3. OfUser(all, u)' = OfUser(all, u) \ OfUser(fresh, u)
    BY <1>1, <1>3, <1>5 DEF OfUser
  <2>4. perUser[u] = Cardinality(OfUser(all, u)) /\ perUser[u] <= PerUser
    BY DEF CountersExact
  <2>5. perUser'[u] = perUser[u] - Cardinality(OfUser(fresh, u))
    BY <1>1
  <2>6. /\ Cardinality(OfUser(all, u)) \in Nat /\ Cardinality(OfUser(fresh, u)) \in Nat
        /\ Cardinality(OfUser(all, u)') \in Nat
        /\ Cardinality(OfUser(all, u)') = Cardinality(OfUser(all, u)) - Cardinality(OfUser(fresh, u))
    BY <2>1, <2>2, <2>3, Subtraction
  <2> QED
    BY <2>4, <2>5, <2>6, PoolAssumption
<1>8. total' \in Nat /\ total' = Cardinality(all') /\ total' <= MaxTotal
  <2>1. total = Cardinality(all) /\ total <= MaxTotal /\ MaxTotal \in Nat
    BY PoolAssumption DEF CountersExact
  <2>2. IsFiniteSet(all)
    BY <1>2, FiniteParts
  <2>3. /\ Cardinality(all) \in Nat /\ Cardinality(fresh) \in Nat /\ Cardinality(all') \in Nat
        /\ Cardinality(all') = Cardinality(all) - Cardinality(fresh)
    BY <1>1, <1>3, <2>2, Subtraction
  <2> QED
    BY <1>1, <2>1, <2>3
<1>9. perKey' \in [Key -> Nat] /\ perUser' \in [User -> Nat]
  BY <1>1, <1>6, <1>7
<1> QED
  BY <1>4, <1>6, <1>7, <1>8, <1>9 DEF CountersExact

\* A step that leaves the counters alone and lets no worker die.
LEMMA CountersSame ==
    ASSUME TypeOK, CountersExact, UNCHANGED poolVars,
           \A w \in Worker : wk'[w].gone = wk[w].gone,
           \A w \in Worker : ~wk[w].gone => wk'[w].key = wk[w].key
    PROVE  CountersExact'
<1>1. all' = all /\ perKey' = perKey /\ perUser' = perUser /\ total' = total
  BY DEF poolVars
<1>2. all = {w \in Worker : ~wk[w].gone}
  BY DEF CountersExact
<1>3. all' = {w \in Worker : ~wk'[w].gone} /\ \A w \in all : wk'[w].key = wk[w].key
  BY <1>1, <1>2
<1>4. \A k \in Key : OfKey(all, k)' = OfKey(all, k)
  BY <1>1, <1>3 DEF OfKey
<1>5. \A u \in User : OfUser(all, u)' = OfUser(all, u)
  BY <1>1, <1>3 DEF OfUser
<1> QED
  BY <1>1, <1>3, <1>4, <1>5 DEF CountersExact

-----------------------------------------------------------------------------
(* What a step does to workers, deques and leases *)

\* A worker goes on, or its identity is free for another.
Kept(w) ==
    /\ wk'[w].key = wk[w].key /\ wk'[w].sig = wk[w].sig /\ wk'[w].epoch = wk[w].epoch
    /\ wk[w].gone => wk'[w].gone
    /\ wk'[w].task = "free" => wk[w].task = "free"
Freed(w) == wk'[w] = FreeWorker /\ ~Referenced(w)'

\* A request goes on without taking a worker, or ends.
KeepsOn(c) ==
    /\ cl'[c].w = cl[c].w /\ cl'[c].key = cl[c].key
    /\ cl'[c].sig = cl[c].sig /\ cl'[c].epoch = cl[c].epoch
    /\ cl'[c].pc \in Holding => cl[c].pc \in Holding
EndsRequest(c) == cl'[c] = NewClient

\* Entries left in a deque were there before.
LEMMA StillInDeque ==
    ASSUME \A k \in Key : Thinner(idle'[k], idle[k]), NEW w
    PROVE  InDeque(w)' => InDeque(w)
<1> SUFFICES ASSUME NEW k \in Key, NEW i \in DOMAIN idle'[k], w = idle'[k][i]
             PROVE  \E j \in DOMAIN idle[k] : w = idle[k][j]
  BY DEF InDeque, Elements
<1>1. Thinner(idle'[k], idle[k])
  OBVIOUS
<1> QED
  BY <1>1 DEF Thinner

\* The invariant is kept by every step in which workers go on or are freed, deques
\* get thinner, and at most one request, c0, takes a worker, w0, that nobody holds and
\* no deque has any more, and that is as fresh as the request asks.
LEMMA Stepping ==
    ASSUME PoolInv, TypeOK', CountersExact', Epochs', NEW c0, NEW w0,
           \A w \in Worker : \/ Kept(w)
                             \/ Freed(w)
                             \/ w = w0 /\ wk[w].task = "free" /\ wk'[w].task # "free",
           \A k \in Key : Thinner(idle'[k], idle[k]),
           \A c \in Client : cl'[c].pc \in Holding =>
               IF c = c0 THEN cl'[c].w = w0
               ELSE /\ cl[c].pc \in Holding /\ cl'[c].w = cl[c].w
                    /\ cl'[c].sig = cl[c].sig /\ cl'[c].epoch = cl[c].epoch,
           c0 \in Client =>
               /\ w0 \in Worker /\ wk'[w0].task # "free"
               /\ \A c \in Client : ~Holds(c, w0)
               /\ ~InDeque(w0)'
               /\ wk'[w0].sig = cl'[c0].sig /\ wk'[w0].epoch >= cl'[c0].epoch
    PROVE  PoolInv'
<1>1. ASSUME NEW c \in Client, NEW w \in Worker, Holds(c, w)'
      PROVE  \/ /\ c # c0 /\ Holds(c, w) /\ cl'[c].sig = cl[c].sig
                /\ cl'[c].epoch = cl[c].epoch
             \/ c = c0 /\ w = w0
  BY <1>1 DEF Holds, Holding
<1>2. \A w \in Worker : InDeque(w)' => InDeque(w)
  BY StillInDeque
<1>3. ASSUME NEW w \in Worker, InDeque(w)' \/ (\E c \in Client : c # c0 /\ Holds(c, w)'),
             ~(w = w0 /\ wk[w].task = "free" /\ wk'[w].task # "free")
      PROVE  Kept(w)
  BY <1>3 DEF Freed, Referenced
<1>4. \A w \in Worker : Referenced(w) => wk[w].task # "free"
  BY DEF PoolInv, FreeIsGone
<1>5. ExclusiveCheckout'
  <2>1. ASSUME NEW c \in Client, NEW d \in Client, NEW w \in Worker,
               Holds(c, w)', Holds(d, w)'
        PROVE  c = d
    BY <1>1, <2>1 DEF PoolInv, ExclusiveCheckout
  <2>2. ASSUME NEW c \in Client, NEW w \in Worker, Holds(c, w)'
        PROVE  ~InDeque(w)'
    BY <1>1, <1>2, <2>2 DEF PoolInv, ExclusiveCheckout
  <2>3. ASSUME NEW k \in Key, NEW i \in DOMAIN idle'[k], NEW j \in DOMAIN idle'[k]
        PROVE  /\ idle'[k][i] = idle'[k][j] => i = j
               /\ wk'[idle'[k][i]].key = k
    <3>1. PICK f \in [DOMAIN idle'[k] -> DOMAIN idle[k]] :
              /\ \A m, n \in DOMAIN idle'[k] : f[m] = f[n] => m = n
              /\ \A m \in DOMAIN idle'[k] : idle'[k][m] = idle[k][f[m]]
      BY DEF Thinner
    <3>2. f[i] \in DOMAIN idle[k] /\ f[j] \in DOMAIN idle[k]
      BY <3>1
    <3>3. /\ idle[k][f[i]] = idle[k][f[j]] => f[i] = f[j]
          /\ wk[idle[k][f[i]]].key = k
      BY <3>2 DEF PoolInv, ExclusiveCheckout
    <3>4. PICK w \in Worker : w = idle'[k][i]
      <4>1. idle' \in [Key -> Seq(Worker)]
        BY DEF TypeOK
      <4>2. idle'[k] \in Seq(Worker)
        BY <4>1
      <4> QED
        BY <4>2, LenProperties, ElementOfSeq
    <3>5. InDeque(w)'
      BY <3>4 DEF InDeque, Elements
    <3>6. Referenced(w)
      BY <1>2, <3>5 DEF Referenced
    <3>7. Kept(w)
      BY <1>3, <1>4, <3>5, <3>6
    <3> QED
      BY <3>1, <3>3, <3>4, <3>7 DEF Kept
  <2> QED
    BY <2>1, <2>2, <2>3 DEF ExclusiveCheckout
<1>6. LeaseIsFresh'
  <2> SUFFICES ASSUME NEW c \in Client, NEW w \in Worker, Holds(c, w)'
               PROVE  wk'[w].sig = cl'[c].sig /\ wk'[w].epoch >= cl'[c].epoch
    BY DEF LeaseIsFresh
  <2>1. CASE c = c0
    BY <1>1, <2>1
  <2>2. CASE c # c0
    <3>1. Holds(c, w) /\ cl'[c].sig = cl[c].sig /\ cl'[c].epoch = cl[c].epoch
      BY <1>1, <2>2
    <3>2. wk[w].sig = cl[c].sig /\ wk[w].epoch >= cl[c].epoch
      BY <3>1 DEF PoolInv, LeaseIsFresh
    <3>3. Kept(w)
      BY <1>3, <1>4, <2>2, <3>1 DEF Referenced
    <3> QED
      BY <3>1, <3>2, <3>3 DEF Kept
  <2> QED
    BY <2>1, <2>2
<1>7. FreeIsGone'
  <2> SUFFICES ASSUME NEW w \in Worker, wk'[w].task = "free"
               PROVE  wk'[w].gone /\ ~Referenced(w)'
    BY DEF FreeIsGone
  <2>1. CASE Freed(w)
    BY <2>1, FreeWorkerType DEF Freed
  <2>2. CASE Kept(w)
    <3>1. wk[w].task = "free" /\ wk[w].gone /\ ~Referenced(w) /\ wk'[w].gone
      BY <2>2 DEF PoolInv, FreeIsGone, Kept
    <3>2. ~InDeque(w)'
      BY <1>2, <3>1 DEF Referenced
    <3>3. \A c \in Client : ~Holds(c, w)'
      BY <1>1, <3>1 DEF Referenced
    <3> QED
      BY <3>1, <3>2, <3>3 DEF Referenced
  <2> QED
    BY <2>1, <2>2
<1>8. HeldIsWorker'
  BY DEF PoolInv, HeldIsWorker, Holding
<1> QED
  BY <1>5, <1>6, <1>7, <1>8 DEF PoolInv

\* The steps in which no request takes a worker and nothing is invalidated.
LEMMA Calm ==
    ASSUME PoolInv, TypeOK', CountersExact', epoch' = epoch,
           \A w \in Worker : Kept(w) \/ Freed(w),
           \A k \in Key : Thinner(idle'[k], idle[k]),
           \A c \in Client : KeepsOn(c) \/ EndsRequest(c)
    PROVE  PoolInv'
<1>1. Epochs'
  <2>1. ASSUME NEW w \in Worker, ~wk'[w].gone
        PROVE  wk'[w].epoch = epoch'[wk'[w].key[2]]
    <3>1. Kept(w)
      BY <2>1, FreeWorkerType DEF Freed
    <3> QED
      BY <2>1, <3>1 DEF Kept, PoolInv, Epochs
  <2>2. ASSUME NEW c \in Client
        PROVE  cl'[c].epoch <= epoch'[cl'[c].key[2]]
    <3>1. CASE KeepsOn(c)
      BY <3>1 DEF KeepsOn, PoolInv, Epochs
    <3>2. CASE EndsRequest(c)
      <4>1. NewClient.key \in Key /\ NewClient.epoch = 0
        BY NewClientType DEF ClientState
      <4>2. epoch[NewClient.key[2]] \in Nat
        BY <4>1, Choices DEF PoolInv, TypeOK
      <4> QED
        BY <3>2, <4>1, <4>2 DEF EndsRequest
    <3> QED
      BY <3>1, <3>2
  <2> QED
    BY <2>1, <2>2 DEF Epochs
<1>2. \A c \in Client : c # NoClient
  BY PoolAssumption
<1>3. \A c \in Client : cl'[c].pc \in Holding =>
         /\ cl[c].pc \in Holding /\ cl'[c].w = cl[c].w
         /\ cl'[c].sig = cl[c].sig /\ cl'[c].epoch = cl[c].epoch
  BY NewClientType DEF KeepsOn, EndsRequest, Holding
<1> QED
  BY <1>1, <1>2, <1>3, Stepping

-----------------------------------------------------------------------------
(* The steps of a worker *)

\* A step of one worker that neither dies nor moves between deques and requests.
LEMMA WorkerGoesOn ==
    ASSUME PoolInv, NEW w \in Worker, NEW r \in WorkerState,
           wk' = [wk EXCEPT ![w] = r],
           \/ /\ r.key = wk[w].key /\ r.sig = wk[w].sig /\ r.epoch = wk[w].epoch
              /\ r.gone = wk[w].gone /\ r.task # "free"
           \/ r = FreeWorker /\ wk[w].gone /\ ~Referenced(w),
           UNCHANGED <<poolVars, idle, closing, dbVars, tools>>,
           cl' \in [Client -> ClientState], \A c \in Client : KeepsOn(c)
    PROVE  PoolInv'
<1>1. TypeOK /\ CountersExact
  BY DEF PoolInv
<1>2. wk' \in [Worker -> WorkerState] /\ wk'[w] = r /\ \A v \in Worker : v # w => wk'[v] = wk[v]
  BY <1>1 DEF TypeOK
<1>3. TypeOK'
  BY <1>1, <1>2 DEF TypeOK, poolVars, dbVars
<1>4. CountersExact'
  <2>1. \A v \in Worker : wk'[v].gone = wk[v].gone
    BY <1>2, FreeWorkerType DEF WorkerState
  <2>2. \A v \in Worker : ~wk[v].gone => wk'[v].key = wk[v].key
    BY <1>2
  <2> QED
    BY <1>1, <2>1, <2>2, CountersSame
<1>5. \A k \in Key : Thinner(idle'[k], idle[k])
  BY ThinnerSame
<1>6. ~Referenced(w) => ~Referenced(w)'
  <2>1. \A c \in Client : Holds(c, w)' => Holds(c, w)
    BY DEF KeepsOn, Holds, Holding
  <2> QED
    BY <2>1 DEF Referenced, InDeque
<1>7. \A v \in Worker : Kept(v) \/ Freed(v)
  BY <1>2, <1>6, FreeWorkerType DEF Kept, Freed
<1>8. epoch' = epoch
  BY DEF dbVars
<1> QED
  BY <1>3, <1>4, <1>5, <1>7, <1>8, Calm

\* Setting futures is all that workers do to requests.
LEMMA FuturesOnly ==
    ASSUME TypeOK, NEW f \in [Client -> {"none", "pending", "ok", "failed", "cancelled"}],
           cl' = [c \in Client |-> [cl[c] EXCEPT !.fut = f[c]]]
    PROVE  cl' \in [Client -> ClientState] /\ \A c \in Client : KeepsOn(c)
<1> SUFFICES ASSUME NEW c \in Client
             PROVE  cl'[c] \in ClientState /\ KeepsOn(c)
  OBVIOUS
<1>1. cl[c] \in ClientState
  BY DEF TypeOK
<1>2. cl'[c] = [cl[c] EXCEPT !.fut = f[c]]
  OBVIOUS
<1>3. f[c] \in {"none", "pending", "ok", "failed", "cancelled"}
  OBVIOUS
<1>4. [cl[c] EXCEPT !.fut = f[c]] \in ClientState
  BY <1>1, <1>3 DEF ClientState
<1>5. KeepsOn(c)
  BY <1>1, <1>2 DEF KeepsOn, ClientState
<1> QED
  BY <1>2, <1>4, <1>5

\* The outcome of an operation changes only the future of the request that waits for it.
LEMMA ResolvedKeeps ==
    ASSUME TypeOK, NEW w \in Worker, NEW fut \in {"ok", "failed", "cancelled"}, Resolved(w, fut)
    PROVE  cl' \in [Client -> ClientState] /\ \A c \in Client : KeepsOn(c)
<1> DEFINE f == [c \in Client |-> IF c = wk[w].cur THEN fut ELSE cl[c].fut]
<1>1. \A c \in Client : cl[c] \in ClientState
  BY DEF TypeOK
<1>2. f \in [Client -> {"none", "pending", "ok", "failed", "cancelled"}]
  BY <1>1 DEF ClientState
<1>3. cl' = [c \in Client |-> [cl[c] EXCEPT !.fut = f[c]]]
  <2>1. \A c \in Client : cl[c] = [cl[c] EXCEPT !.fut = cl[c].fut]
    BY <1>1 DEF ClientState
  <2> QED
    BY <2>1 DEF Resolved
<1> HIDE DEF f
<1> QED
  BY <1>2, <1>3, FuturesOnly

\* An ending worker rejects futures and changes nothing else of a request.
LEMMA RejectedKeeps ==
    ASSUME TypeOK, NEW w \in Worker, NEW err, cl' = Rejected(w, err)
    PROVE  cl' \in [Client -> ClientState] /\ \A c \in Client : KeepsOn(c)
<1> DEFINE f == [c \in Client |->
                    IF cl[c].fut = "pending" /\ c \in Elements(wk[w].inbox)
                    THEN IF err = "cancelled" THEN "cancelled" ELSE "failed"
                    ELSE cl[c].fut]
<1>1. \A c \in Client : cl[c] \in ClientState
  BY DEF TypeOK
<1>2. f \in [Client -> {"none", "pending", "ok", "failed", "cancelled"}]
  BY <1>1 DEF ClientState
<1>3. cl' = [c \in Client |-> [cl[c] EXCEPT !.fut = f[c]]]
  <2>1. \A c \in Client : cl[c] = [cl[c] EXCEPT !.fut = cl[c].fut]
    BY <1>1 DEF ClientState
  <2> QED
    BY <2>1 DEF Rejected
<1> HIDE DEF f
<1> QED
  BY <1>2, <1>3, FuturesOnly

\* The end of a worker's task: uncounted, its identity free unless it is still referred to.
LEMMA EndsStep ==
    ASSUME PoolInv, NEW w \in Worker, NEW err \in {"none", "error", "cancelled"}, Ends(w, err)
    PROVE  PoolInv'
<1> DEFINE r == [wk[w] EXCEPT !.task = "ended", !.gone = TRUE, !.cancel = FALSE,
                              !.inbox = <<>>, !.cur = NoClient, !.err = err]
           q == IF Referenced(w) THEN r ELSE FreeWorker
<1>1. TypeOK /\ CountersExact
  BY DEF PoolInv
<1>2. wk[w] \in WorkerState
  BY <1>1 DEF TypeOK
<1>3. <<>> \in Seq(Item)
  BY EmptySeq
<1>4. /\ r \in WorkerState /\ r.gone = TRUE /\ r.task = "ended"
      /\ r.key = wk[w].key /\ r.sig = wk[w].sig /\ r.epoch = wk[w].epoch
  BY <1>2, <1>3 DEF WorkerState, Item
<1>5. wk' = [wk EXCEPT ![w] = q]
  BY DEF Ends
<1>6. q \in WorkerState /\ q.gone = TRUE
  BY <1>4, FreeWorkerType
<1>7. wk' \in [Worker -> WorkerState] /\ wk'[w] = q /\ \A v \in Worker : v # w => wk'[v] = wk[v]
  <2> HIDE DEF q
  <2> QED
    BY <1>1, <1>5, <1>6 DEF TypeOK
<1>8. cl' \in [Client -> ClientState] /\ \A c \in Client : KeepsOn(c)
  BY <1>1, RejectedKeeps DEF Ends
<1>9. Uncount({w}) /\ UNCHANGED <<idle, closing, dbVars, tools>>
  BY DEF Ends
<1>10. /\ CountersExact' /\ all' \in SUBSET Worker
       /\ perKey' \in [Key -> Nat] /\ perUser' \in [User -> Nat] /\ total' \in Nat
  <2>1. \A v \in Worker : wk'[v].gone = (wk[v].gone \/ v \in {w})
    <3>1. \A v \in Worker : wk[v].gone \in BOOLEAN
      BY <1>1 DEF TypeOK, WorkerState
    <3> HIDE DEF q
    <3> QED
      BY <1>6, <1>7, <3>1
  <2>2. \A v \in Worker : ~wk'[v].gone => wk'[v].key = wk[v].key
    <3> HIDE DEF q
    <3> QED
      BY <1>6, <1>7
  <2> QED
    BY <1>1, <1>9, <2>1, <2>2, Uncounting
<1>11. TypeOK'
  BY <1>1, <1>7, <1>8, <1>9, <1>10 DEF TypeOK, dbVars
<1>12. \A k \in Key : Thinner(idle'[k], idle[k])
  BY <1>9, ThinnerSame
<1>13. ~Referenced(w) => ~Referenced(w)'
  <2>1. \A c \in Client : Holds(c, w)' => Holds(c, w)
    BY <1>8 DEF KeepsOn, Holds, Holding
  <2> QED
    BY <1>9, <2>1 DEF Referenced, InDeque
<1>14. \A v \in Worker : Kept(v) \/ Freed(v)
  <2>1. \A v \in Worker : v # w => Kept(v)
    BY <1>7 DEF Kept
  <2>2. Referenced(w) => Kept(w)
    <3> HIDE DEF r
    <3> QED
      BY <1>4, <1>7 DEF Kept
  <2>3. ~Referenced(w) => Freed(w)
    BY <1>7, <1>13 DEF Freed
  <2> QED
    BY <2>1, <2>2, <2>3
<1> QED
  BY <1>8, <1>9, <1>10, <1>11, <1>12, <1>14, Calm DEF dbVars

\* The worker steps, one by one: a start, an opened session, an idle worker growing old.
LEMMA StartsStep ==
    ASSUME PoolInv, NEW w \in Worker, Starts(w) \/ Opened(w) \/ Ages(w)
    PROVE  PoolInv'
<1>1. TypeOK
  BY DEF PoolInv
<1>2. wk[w] \in WorkerState /\ \A c \in Client : cl[c] \in ClientState
  BY <1>1 DEF TypeOK
<1>3. cl' = cl
  BY DEF Starts, Opened, Ages
<1>4. cl' \in [Client -> ClientState] /\ \A c \in Client : KeepsOn(c)
  BY <1>1, <1>3 DEF TypeOK, KeepsOn
<1>5. UNCHANGED <<poolVars, idle, closing, dbVars, tools>>
  BY DEF Starts, Opened, Ages
<1>6. CASE Starts(w)
  <2> DEFINE r == [wk[w] EXCEPT !.task = "opening"]
  <2>1. wk' = [wk EXCEPT ![w] = r]
    BY <1>6 DEF Starts
  <2>2. /\ r \in WorkerState /\ r.task # "free" /\ r.key = wk[w].key /\ r.sig = wk[w].sig
        /\ r.epoch = wk[w].epoch /\ r.gone = wk[w].gone
    BY <1>2 DEF WorkerState
  <2> HIDE DEF r
  <2> QED
    BY <1>4, <1>5, <2>1, <2>2, WorkerGoesOn
<1>7. CASE Opened(w)
  <2> DEFINE r == [wk[w] EXCEPT !.task = "waiting"]
  <2>1. wk' = [wk EXCEPT ![w] = r]
    BY <1>7 DEF Opened
  <2>2. /\ r \in WorkerState /\ r.task # "free" /\ r.key = wk[w].key /\ r.sig = wk[w].sig
        /\ r.epoch = wk[w].epoch /\ r.gone = wk[w].gone
    BY <1>2 DEF WorkerState
  <2> HIDE DEF r
  <2> QED
    BY <1>4, <1>5, <2>1, <2>2, WorkerGoesOn
<1>8. CASE Ages(w)
  <2> DEFINE r == [wk[w] EXCEPT !.old = TRUE]
  <2>1. wk' = [wk EXCEPT ![w] = r] /\ ~wk[w].gone
    BY <1>8 DEF Ages
  <2>2. wk[w].task # "free"
    BY <2>1 DEF PoolInv, FreeIsGone
  <2>3. /\ r \in WorkerState /\ r.task # "free" /\ r.key = wk[w].key /\ r.sig = wk[w].sig
        /\ r.epoch = wk[w].epoch /\ r.gone = wk[w].gone
    BY <1>2, <2>2 DEF WorkerState
  <2> HIDE DEF r
  <2> QED
    BY <1>4, <1>5, <2>1, <2>3, WorkerGoesOn
<1> QED
  BY <1>6, <1>7, <1>8

\* A task cancelled before its first step.
LEMMA NeverStartsStep ==
    ASSUME PoolInv, NEW w \in Worker, NeverStarts(w)
    PROVE  PoolInv'
<1> DEFINE r == [wk[w] EXCEPT !.task = "ended", !.cancel = FALSE]
           q == IF wk[w].gone /\ ~Referenced(w) THEN FreeWorker ELSE r
<1>1. TypeOK
  BY DEF PoolInv
<1>2. wk[w] \in WorkerState
  BY <1>1 DEF TypeOK
<1>3. cl' = cl /\ wk' = [wk EXCEPT ![w] = q]
  BY DEF NeverStarts
<1>4. cl' \in [Client -> ClientState] /\ \A c \in Client : KeepsOn(c)
  BY <1>1, <1>3 DEF TypeOK, KeepsOn
<1>5. UNCHANGED <<poolVars, idle, closing, dbVars, tools>>
  BY DEF NeverStarts
<1>6. /\ r \in WorkerState /\ r.task # "free" /\ r.key = wk[w].key /\ r.sig = wk[w].sig
      /\ r.epoch = wk[w].epoch /\ r.gone = wk[w].gone
  BY <1>2 DEF WorkerState
<1>7. CASE wk[w].gone /\ ~Referenced(w)
  BY <1>3, <1>4, <1>5, <1>7, FreeWorkerType, WorkerGoesOn
<1>8. CASE ~(wk[w].gone /\ ~Referenced(w))
  <2>1. wk' = [wk EXCEPT ![w] = r]
    BY <1>3, <1>8
  <2> HIDE DEF r
  <2> QED
    BY <1>4, <1>5, <1>6, <2>1, WorkerGoesOn
<1> QED
  BY <1>7, <1>8

\* A worker takes the next item of its inbox.
LEMMA TakesStep ==
    ASSUME PoolInv, NEW w \in Worker, Takes(w)
    PROVE  PoolInv'
<1> DEFINE item == Head(wk[w].inbox)
           task == IF item = Shutdown THEN "closing" ELSE "op"
           cur == IF item = Shutdown THEN NoClient ELSE item
           rest == Tail(wk[w].inbox)
           r == [wk[w] EXCEPT !.inbox = rest, !.task = task, !.cur = cur]
<1>1. TypeOK
  BY DEF PoolInv
<1>2. wk[w] \in WorkerState
  BY <1>1 DEF TypeOK
<1>3. wk[w].inbox \in Seq(Item) /\ wk[w].inbox # <<>>
  BY <1>2 DEF WorkerState, Item, Takes
<1>4. item \in Item /\ rest \in Seq(Item)
  BY <1>3, HeadTailProperties
<1>5. task \in {"closing", "op"} /\ cur \in Client \cup {NoClient}
  BY <1>4 DEF Item
<1>6. wk' = [wk EXCEPT ![w] = r]
  BY DEF Takes
<1>7. /\ r \in WorkerState /\ r.task # "free" /\ r.key = wk[w].key /\ r.sig = wk[w].sig
      /\ r.epoch = wk[w].epoch /\ r.gone = wk[w].gone
  <2> HIDE DEF task, cur, rest, item
  <2> QED
    BY <1>2, <1>4, <1>5 DEF WorkerState, Item
<1>8. cl' = cl
  BY DEF Takes
<1>9. cl' \in [Client -> ClientState] /\ \A c \in Client : KeepsOn(c)
  BY <1>1, <1>8 DEF TypeOK, KeepsOn
<1>10. UNCHANGED <<poolVars, idle, closing, dbVars, tools>>
  BY DEF Takes
<1> HIDE DEF r
<1> QED
  BY <1>6, <1>7, <1>9, <1>10, WorkerGoesOn

\* An operation ends.
LEMMA OpDoneStep ==
    ASSUME PoolInv, NEW w \in Worker, OpDone(w)
    PROVE  PoolInv'
<1>1. TypeOK
  BY DEF PoolInv
<1>2. wk[w] \in WorkerState
  BY <1>1 DEF TypeOK
<1>3. PICK task \in {"waiting", "closing"}, fut \in {"ok", "failed"} :
          /\ Resolved(w, fut)
          /\ wk' = [wk EXCEPT ![w] = [wk[w] EXCEPT !.task = task, !.cur = NoClient]]
  BY DEF OpDone
<1> DEFINE r == [wk[w] EXCEPT !.task = task, !.cur = NoClient]
<1>4. wk' = [wk EXCEPT ![w] = r]
  BY <1>3
<1>5. /\ r \in WorkerState /\ r.task # "free" /\ r.key = wk[w].key /\ r.sig = wk[w].sig
      /\ r.epoch = wk[w].epoch /\ r.gone = wk[w].gone
  BY <1>2 DEF WorkerState
<1>6. cl' \in [Client -> ClientState] /\ \A c \in Client : KeepsOn(c)
  BY <1>1, <1>3, ResolvedKeeps
<1>7. UNCHANGED <<poolVars, idle, closing, dbVars, tools>>
  BY DEF OpDone
<1> HIDE DEF r
<1> QED
  BY <1>4, <1>5, <1>6, <1>7, WorkerGoesOn

\* A session that could not be opened, and one that is closed.
LEMMA SessionClosedStep ==
    ASSUME PoolInv, NEW w \in Worker, OpenFails(w) \/ SessionClosed(w)
    PROVE  PoolInv'
<1>1. wk[w].err \in {"none", "error", "cancelled"}
  BY DEF PoolInv, TypeOK, WorkerState
<1> QED
  BY <1>1, EndsStep DEF OpenFails, SessionClosed

\* A cancellation reaches the task.
LEMMA CancelledStep ==
    ASSUME PoolInv, NEW w \in Worker, Cancelled(w)
    PROVE  PoolInv'
<1>1. TypeOK
  BY DEF PoolInv
<1>2. wk[w] \in WorkerState
  BY <1>1 DEF TypeOK
<1>3. CASE wk[w].task = "op"
  <2> DEFINE r == [wk[w] EXCEPT !.task = "closing", !.cancel = FALSE, !.cur = NoClient]
  <2>1. /\ Resolved(w, "cancelled") /\ wk' = [wk EXCEPT ![w] = r]
        /\ UNCHANGED <<poolVars, idle, closing, dbVars, tools>>
    BY <1>3 DEF Cancelled
  <2>2. /\ r \in WorkerState /\ r.task # "free" /\ r.key = wk[w].key /\ r.sig = wk[w].sig
        /\ r.epoch = wk[w].epoch /\ r.gone = wk[w].gone
    BY <1>2 DEF WorkerState
  <2>3. cl' \in [Client -> ClientState] /\ \A c \in Client : KeepsOn(c)
    BY <1>1, <2>1, ResolvedKeeps
  <2> HIDE DEF r
  <2> QED
    BY <2>1, <2>2, <2>3, WorkerGoesOn
<1>4. CASE wk[w].task = "waiting"
  <2> DEFINE r == [wk[w] EXCEPT !.task = "closing", !.cancel = FALSE, !.err = "cancelled"]
  <2>1. /\ cl' = cl /\ wk' = [wk EXCEPT ![w] = r]
        /\ UNCHANGED <<poolVars, idle, closing, dbVars, tools>>
    BY <1>4 DEF Cancelled
  <2>2. /\ r \in WorkerState /\ r.task # "free" /\ r.key = wk[w].key /\ r.sig = wk[w].sig
        /\ r.epoch = wk[w].epoch /\ r.gone = wk[w].gone
    BY <1>2 DEF WorkerState
  <2>3. cl' \in [Client -> ClientState] /\ \A c \in Client : KeepsOn(c)
    BY <1>1, <2>1 DEF TypeOK, KeepsOn
  <2> HIDE DEF r
  <2> QED
    BY <2>1, <2>2, <2>3, WorkerGoesOn
<1>5. CASE wk[w].task \in {"opening", "closing"}
  <2>1. Ends(w, "cancelled")
    BY <1>5 DEF Cancelled
  <2> QED
    BY <2>1, EndsStep
<1> QED
  BY <1>3, <1>4, <1>5 DEF Cancelled

\* An idle worker takes itself out of its deque and dies.
LEMMA IdleTooLongStep ==
    ASSUME PoolInv, NEW w \in Worker, IdleTooLong(w)
    PROVE  PoolInv'
<1> DEFINE r == [wk[w] EXCEPT !.task = "closing", !.gone = TRUE]
           key == wk[w].key
<1>1. TypeOK /\ CountersExact
  BY DEF PoolInv
<1>2. wk[w] \in WorkerState /\ key \in Key /\ idle[key] \in Seq(Worker)
  BY <1>1 DEF TypeOK, WorkerState
<1>3. /\ wk' = [wk EXCEPT ![w] = r] /\ idle' = [idle EXCEPT ![key] = Without(idle[key], {w})]
      /\ Uncount({w}) /\ UNCHANGED <<closing, cl, dbVars, tools>>
  BY DEF IdleTooLong
<1>4. /\ r \in WorkerState /\ r.task = "closing" /\ r.key = wk[w].key /\ r.sig = wk[w].sig
      /\ r.epoch = wk[w].epoch /\ r.gone = TRUE
  BY <1>2 DEF WorkerState
<1> HIDE DEF r, key
<1>5. wk' \in [Worker -> WorkerState] /\ wk'[w] = r /\ \A v \in Worker : v # w => wk'[v] = wk[v]
  BY <1>1, <1>3, <1>4 DEF TypeOK
<1>6. Without(idle[key], {w}) \in Seq(Worker) /\ Thinner(Without(idle[key], {w}), idle[key])
  BY <1>2, WithoutRest
<1>7. idle' \in [Key -> Seq(Worker)] /\ \A k \in Key : Thinner(idle'[k], idle[k])
  BY <1>1, <1>2, <1>3, <1>6, ThinnerSame DEF TypeOK
<1>8. /\ CountersExact' /\ all' \in SUBSET Worker
      /\ perKey' \in [Key -> Nat] /\ perUser' \in [User -> Nat] /\ total' \in Nat
  <2>1. \A v \in Worker : wk'[v].gone = (wk[v].gone \/ v \in {w})
    <3>1. \A v \in Worker : wk[v].gone \in BOOLEAN
      BY <1>1 DEF TypeOK, WorkerState
    <3> QED
      BY <1>4, <1>5, <3>1
  <2>2. \A v \in Worker : ~wk'[v].gone => wk'[v].key = wk[v].key
    BY <1>4, <1>5
  <2> QED
    BY <1>1, <1>3, <2>1, <2>2, Uncounting
<1>9. TypeOK'
  BY <1>1, <1>3, <1>5, <1>7, <1>8 DEF TypeOK, dbVars
<1>10. \A v \in Worker : Kept(v)
  BY <1>4, <1>5 DEF Kept
<1>11. \A c \in Client : KeepsOn(c)
  BY <1>3 DEF KeepsOn
<1> QED
  BY <1>3, <1>7, <1>8, <1>9, <1>10, <1>11, Calm DEF dbVars

\* Every step of a worker.
LEMMA WorkStep ==
    ASSUME PoolInv, NEW w \in Worker, Work(w)
    PROVE  PoolInv'
BY StartsStep, NeverStartsStep, TakesStep, OpDoneStep, SessionClosedStep, CancelledStep,
   IdleTooLongStep DEF Work

-----------------------------------------------------------------------------
(* The steps of a request *)

\* A step of one request that takes no worker and touches no worker.
LEMMA RequestGoesOn ==
    ASSUME PoolInv, NEW c \in Client, NEW r \in ClientState,
           cl' = [cl EXCEPT ![c] = r],
           \/ r = NewClient
           \/ /\ r.w = cl[c].w /\ r.key = cl[c].key /\ r.sig = cl[c].sig
              /\ r.epoch = cl[c].epoch
              /\ r.pc \in Holding => cl[c].pc \in Holding,
           UNCHANGED <<wk, poolVars, idle, closing, dbVars>>,
           tools' \in [Server -> Sig \cup {NoTools}]
    PROVE  PoolInv'
<1>1. TypeOK /\ CountersExact
  BY DEF PoolInv
<1>2. cl' \in [Client -> ClientState] /\ cl'[c] = r /\ \A d \in Client : d # c => cl'[d] = cl[d]
  BY <1>1 DEF TypeOK
<1>3. TypeOK'
  BY <1>1, <1>2 DEF TypeOK, poolVars, dbVars
<1>4. CountersExact'
  BY <1>1, CountersSame
<1>5. \A k \in Key : Thinner(idle'[k], idle[k])
  BY ThinnerSame
<1>6. \A w \in Worker : Kept(w)
  BY DEF Kept
<1>7. \A d \in Client : KeepsOn(d) \/ EndsRequest(d)
  BY <1>2 DEF KeepsOn, EndsRequest
<1> QED
  BY <1>3, <1>4, <1>5, <1>6, <1>7, Calm DEF dbVars

\* The settings and the count of invalidations a request resolves are the server's.
LEMMA ResolveStep ==
    ASSUME PoolInv, NEW c \in Client, Resolve(c)
    PROVE  PoolInv'
<1>1. TypeOK /\ CountersExact
  BY DEF PoolInv
<1>2. PICK k \in Key, op \in {"call", "list", "refresh"} :
          cl' = [cl EXCEPT ![c] = [NewClient EXCEPT
                    !.pc = "resolved", !.key = k, !.sig = config[k[2]],
                    !.epoch = epoch[k[2]], !.op = op]]
  BY DEF Resolve
<1> DEFINE r == [NewClient EXCEPT !.pc = "resolved", !.key = k, !.sig = config[k[2]],
                                  !.epoch = epoch[k[2]], !.op = op]
<1>3. k[2] \in Server /\ config[k[2]] \in Sig /\ epoch[k[2]] \in Nat
  BY <1>1, Choices DEF TypeOK
<1>4. /\ r \in ClientState /\ r.pc = "resolved" /\ r.key = k /\ r.epoch = epoch[k[2]]
  BY <1>3, NewClientType DEF ClientState
<1>5. cl' = [cl EXCEPT ![c] = r]
  BY <1>2
<1> HIDE DEF r
<1>6. cl' \in [Client -> ClientState] /\ cl'[c] = r /\ \A d \in Client : d # c => cl'[d] = cl[d]
  BY <1>1, <1>4, <1>5 DEF TypeOK
<1>7. UNCHANGED <<wk, poolVars, idle, closing, dbVars, tools>>
  BY DEF Resolve
<1>8. TypeOK'
  BY <1>1, <1>6, <1>7 DEF TypeOK, poolVars, dbVars
<1>9. CountersExact'
  BY <1>1, <1>7, CountersSame
<1>10. Epochs'
  <2>1. epoch' = epoch /\ wk' = wk
    BY <1>7 DEF dbVars
  <2>2. cl'[c].epoch <= epoch'[cl'[c].key[2]]
    BY <1>3, <1>4, <1>6, <2>1
  <2> QED
    BY <1>6, <2>1, <2>2 DEF PoolInv, Epochs
<1>11. \A x \in Key : Thinner(idle'[x], idle[x])
  BY <1>7, ThinnerSame
<1>12. \A w \in Worker : Kept(w)
  BY <1>7 DEF Kept
<1>13. \A d \in Client : cl'[d].pc \in Holding =>
          d # NoClient /\ cl[d].pc \in Holding /\ cl'[d].w = cl[d].w
          /\ cl'[d].sig = cl[d].sig /\ cl'[d].epoch = cl[d].epoch
  BY <1>4, <1>6, PoolAssumption DEF Holding
<1>14. NoClient \notin Client
  BY PoolAssumption
<1> QED
  BY <1>8, <1>9, <1>10, <1>11, <1>12, <1>13, <1>14, Stepping, ZenonT(30)

\* A request before its lease, and one served without a lease.
LEMMA ServedFromCacheStep ==
    ASSUME PoolInv, NEW c \in Client, CacheHit(c) \/ CacheMiss(c) \/ Listed(c) \/ DirectDone(c)
    PROVE  PoolInv'
<1>1. TypeOK /\ cl[c] \in ClientState
  BY DEF PoolInv, TypeOK
<1>2. CASE CacheHit(c)
  <2>1. tools' \in [Server -> Sig \cup {NoTools}]
    BY <1>1, <1>2 DEF CacheHit, TypeOK
  <2> QED
    BY <1>2, <2>1, NewClientType, RequestGoesOn DEF CacheHit
<1>3. CASE CacheMiss(c) \/ Listed(c)
  <2> DEFINE pc == IF CacheMiss(c) THEN "missed" ELSE "caching"
             r == [cl[c] EXCEPT !.pc = pc]
  <2>1. cl' = [cl EXCEPT ![c] = r]
    BY <1>3 DEF CacheMiss, Listed
  <2>2. pc \in {"missed", "caching"} /\ (pc \in Holding => cl[c].pc \in Holding)
    BY <1>3 DEF CacheMiss, Listed, Holding
  <2> HIDE DEF pc
  <2>3. /\ r \in ClientState /\ r.w = cl[c].w /\ r.key = cl[c].key /\ r.sig = cl[c].sig
        /\ r.epoch = cl[c].epoch /\ r.pc = pc
    BY <1>1, <2>2 DEF ClientState
  <2> HIDE DEF r
  <2>4. UNCHANGED <<wk, poolVars, idle, closing, dbVars, tools>>
    BY <1>3 DEF CacheMiss, Listed
  <2>5. tools' \in [Server -> Sig \cup {NoTools}]
    BY <1>1, <2>4 DEF TypeOK
  <2> QED
    BY <2>1, <2>2, <2>3, <2>4, <2>5, RequestGoesOn
<1>4. CASE DirectDone(c)
  <2>1. cl[c].sig \in Sig
    BY <1>1 DEF ClientState
  <2>2. tools' \in [Server -> Sig \cup {NoTools}]
    BY <1>1, <1>4, <2>1 DEF DirectDone, TypeOK
  <2> QED
    BY <1>4, <2>2, NewClientType, RequestGoesOn DEF DirectDone
<1> QED
  BY <1>2, <1>3, <1>4

\* Submitting appends the request to the inbox of the worker it holds.
LEMMA SubmitStep ==
    ASSUME PoolInv, NEW c \in Client, Submit(c)
    PROVE  PoolInv'
<1> DEFINE w == cl[c].w
           inbox == Append(wk[w].inbox, c)
           r == [wk[w] EXCEPT !.inbox = inbox]
           q == [cl[c] EXCEPT !.pc = "waiting", !.fut = "pending"]
<1>1. TypeOK
  BY DEF PoolInv
<1>2. cl[c] \in ClientState /\ w \in Worker /\ Holds(c, w)
  BY DEF PoolInv, TypeOK, HeldIsWorker, Submit, Holds
<1>3. wk[w] \in WorkerState /\ wk[w].inbox \in Seq(Item) /\ wk[w].task # "free"
  BY <1>1, <1>2 DEF TypeOK, WorkerState, Item, PoolInv, FreeIsGone, Referenced
<1>4. inbox \in Seq(Item)
  BY <1>3, AppendProperties DEF Item
<1>5. /\ r \in WorkerState /\ r.task # "free" /\ r.key = wk[w].key /\ r.sig = wk[w].sig
      /\ r.epoch = wk[w].epoch /\ r.gone = wk[w].gone
  <2> HIDE DEF inbox, w
  <2> QED
    BY <1>3, <1>4 DEF WorkerState, Item
<1>6. wk' = [wk EXCEPT ![w] = r] /\ cl' = [cl EXCEPT ![c] = q]
  BY DEF Submit
<1>7. q \in ClientState /\ q.w = cl[c].w /\ q.key = cl[c].key /\ q.sig = cl[c].sig
      /\ q.epoch = cl[c].epoch /\ cl[c].pc \in Holding
  BY <1>2 DEF ClientState, Submit, Holding
<1> HIDE DEF r, q, inbox
<1>8. cl' \in [Client -> ClientState] /\ \A d \in Client : KeepsOn(d)
  BY <1>1, <1>6, <1>7 DEF TypeOK, KeepsOn
<1>9. UNCHANGED <<poolVars, idle, closing, dbVars, tools>>
  BY DEF Submit
<1> QED
  BY <1>2, <1>5, <1>6, <1>8, <1>9, WorkerGoesOn

\* An operation nobody waits for any more leaves the rest of its worker alone.
LEMMA OrphanedType ==
    ASSUME NEW r \in WorkerState, NEW c
    PROVE  /\ Orphaned(r, c) \in WorkerState
           /\ Orphaned(r, c).key = r.key /\ Orphaned(r, c).sig = r.sig
           /\ Orphaned(r, c).epoch = r.epoch /\ Orphaned(r, c).gone = r.gone
           /\ Orphaned(r, c).task = r.task
<1> DEFINE cur == IF r.cur = c THEN NoClient ELSE r.cur
           inbox == [i \in DOMAIN r.inbox |-> IF r.inbox[i] = c THEN NoClient ELSE r.inbox[i]]
<1>1. Orphaned(r, c) = [r EXCEPT !.cur = cur, !.inbox = inbox]
  BY DEF Orphaned
<1>2. cur \in Client \cup {NoClient}
  BY DEF WorkerState
<1>3. inbox \in Seq(Item)
  <2>1. r.inbox \in Seq(Item)
    BY DEF WorkerState, Item
  <2>2. Len(r.inbox) \in Nat /\ DOMAIN r.inbox = 1 .. Len(r.inbox)
        /\ \A i \in DOMAIN r.inbox : r.inbox[i] \in Item
    BY <2>1, LenProperties, ElementOfSeq
  <2>3. \A i \in DOMAIN r.inbox : (IF r.inbox[i] = c THEN NoClient ELSE r.inbox[i]) \in Item
    BY <2>2 DEF Item
  <2>4. inbox \in [1 .. Len(r.inbox) -> Item]
    BY <2>2, <2>3
  <2> HIDE DEF inbox
  <2> QED
    BY <2>2, <2>4, SeqDef
<1> HIDE DEF cur, inbox
<1> QED
  BY <1>1, <1>2, <1>3 DEF WorkerState, Item

\* Appending one entry to a deque.
LEMMA Appended ==
    ASSUME NEW S, NEW d \in Seq(S), NEW x \in S
    PROVE  /\ Append(d, x) \in Seq(S)
           /\ DOMAIN d \subseteq DOMAIN Append(d, x)
           /\ \A i \in DOMAIN Append(d, x) :
                 \/ i \in DOMAIN d /\ Append(d, x)[i] = d[i]
                 \/ i = Len(d) + 1 /\ i \notin DOMAIN d /\ Append(d, x)[i] = x
<1>1. Len(d) \in Nat /\ DOMAIN d = 1 .. Len(d)
  BY LenProperties
<1>2. /\ Append(d, x) \in Seq(S) /\ Len(Append(d, x)) = Len(d) + 1
      /\ \A i \in 1 .. Len(d) : Append(d, x)[i] = d[i]
      /\ Append(d, x)[Len(d) + 1] = x
  BY AppendProperties
<1>3. DOMAIN Append(d, x) = 1 .. Len(d) + 1
  BY <1>2, LenProperties
<1> QED
  BY <1>1, <1>2, <1>3

\* A released worker is killed ...
LEMMA ReleasedDead ==
    ASSUME PoolInv, NEW c \in Client, NEW w \in Worker, Holds(c, w), NEW broken \in BOOLEAN,
           Release(c, broken), KillOnRelease(w, broken),
           tools' \in [Server -> Sig \cup {NoTools}], cancels' \in Nat
    PROVE  PoolInv'
<1> DEFINE r == Orphaned(wk[w], c)
           dead == Killed(r)
           q == Recycled(dead)
<1>1. TypeOK /\ CountersExact
  BY DEF PoolInv
<1>2. cl[c].w = w
  BY DEF Holds
<1>3. wk[w] \in WorkerState /\ wk[w].task # "free"
  BY <1>1 DEF TypeOK, PoolInv, FreeIsGone, Referenced
<1>4. /\ wk' = [wk EXCEPT ![w] = q] /\ Uncount({w})
      /\ cl' = [cl EXCEPT ![c] = NewClient]
      /\ UNCHANGED <<idle, closing, config, stale, epoch, edits>>
  BY <1>2 DEF Release
<1>5. /\ r \in WorkerState /\ r.key = wk[w].key /\ r.sig = wk[w].sig
      /\ r.epoch = wk[w].epoch /\ r.task = wk[w].task
  BY <1>3, OrphanedType
<1> HIDE DEF r
<1>6. /\ dead \in WorkerState /\ dead.key = r.key /\ dead.sig = r.sig
      /\ dead.epoch = r.epoch /\ dead.task = r.task /\ dead.gone = TRUE
  <2> DEFINE cancel == r.cancel \/ r.task \notin {"free", "ended"}
  <2>1. dead = [r EXCEPT !.gone = TRUE, !.cancel = cancel] /\ cancel \in BOOLEAN
    BY <1>5 DEF Killed, WorkerState
  <2> HIDE DEF cancel, dead
  <2> QED
    BY <1>5, <2>1 DEF WorkerState
<1> HIDE DEF dead
<1>7. q \in WorkerState /\ q.gone = TRUE /\ (q = dead \/ q = FreeWorker)
  BY <1>6, FreeWorkerType DEF Recycled
<1> HIDE DEF q
<1>8. wk' \in [Worker -> WorkerState] /\ wk'[w] = q /\ \A v \in Worker : v # w => wk'[v] = wk[v]
  BY <1>1, <1>4, <1>7 DEF TypeOK
<1>9. /\ cl' \in [Client -> ClientState] /\ cl'[c] = NewClient
      /\ \A d \in Client : d # c => cl'[d] = cl[d]
  BY <1>1, <1>4, NewClientType DEF TypeOK
<1>10. /\ CountersExact' /\ all' \in SUBSET Worker
       /\ perKey' \in [Key -> Nat] /\ perUser' \in [User -> Nat] /\ total' \in Nat
  <2>1. \A v \in Worker : wk'[v].gone = (wk[v].gone \/ v \in {w})
    <3>1. \A v \in Worker : wk[v].gone \in BOOLEAN
      BY <1>1 DEF TypeOK, WorkerState
    <3> QED
      BY <1>7, <1>8, <3>1
  <2>2. \A v \in Worker : ~wk'[v].gone => wk'[v].key = wk[v].key
    BY <1>7, <1>8
  <2> QED
    BY <1>1, <1>4, <2>1, <2>2, Uncounting
<1>11. TypeOK'
  BY <1>1, <1>4, <1>8, <1>9, <1>10 DEF TypeOK
<1>12. ~Referenced(w)'
  <2>1. ~InDeque(w)'
    BY <1>4 DEF PoolInv, ExclusiveCheckout, InDeque
  <2>2. ASSUME NEW d \in Client, Holds(d, w)'
        PROVE  FALSE
    <3>1. d # c
      BY <1>9, <2>2, NewClientType DEF Holds
    <3>2. Holds(d, w)
      BY <1>9, <2>2, <3>1 DEF Holds
    <3> QED
      BY <3>1, <3>2 DEF PoolInv, ExclusiveCheckout
  <2> QED
    BY <2>1, <2>2 DEF Referenced
<1>13. \A v \in Worker : Kept(v) \/ Freed(v)
  BY <1>3, <1>5, <1>6, <1>7, <1>8, <1>12 DEF Kept, Freed
<1>14. \A k \in Key : Thinner(idle'[k], idle[k])
  BY <1>4, ThinnerSame
<1>15. \A d \in Client : KeepsOn(d) \/ EndsRequest(d)
  BY <1>9 DEF KeepsOn, EndsRequest
<1> QED
  BY <1>4, <1>10, <1>11, <1>13, <1>14, <1>15, Calm

\* ... or goes back to the end of its deque.
LEMMA ReleasedIdle ==
    ASSUME PoolInv, NEW c \in Client, NEW w \in Worker, Holds(c, w), NEW broken \in BOOLEAN,
           Release(c, broken), ~KillOnRelease(w, broken),
           tools' \in [Server -> Sig \cup {NoTools}], cancels' \in Nat
    PROVE  PoolInv'
<1> DEFINE r == Orphaned(wk[w], c)
           key == wk[w].key
           e == Append(idle[key], w)
<1>1. TypeOK /\ CountersExact
  BY DEF PoolInv
<1>2. cl[c].w = w /\ ~InDeque(w)
  BY DEF PoolInv, Holds, ExclusiveCheckout
<1>3. wk[w] \in WorkerState /\ wk[w].task # "free" /\ ~wk[w].gone /\ key \in Key
  BY <1>1, <1>2 DEF TypeOK, PoolInv, FreeIsGone, Referenced, KillOnRelease, WorkerState
<1>4. /\ r \in WorkerState /\ r.key = key /\ r.sig = wk[w].sig
      /\ r.epoch = wk[w].epoch /\ r.task = wk[w].task /\ r.gone = wk[w].gone
  BY <1>3, OrphanedType
<1>5. /\ wk' = [wk EXCEPT ![w] = r] /\ idle' = [idle EXCEPT ![key] = e]
      /\ cl' = [cl EXCEPT ![c] = NewClient]
      /\ UNCHANGED <<poolVars, closing, config, stale, epoch, edits>>
  BY <1>2, <1>4 DEF Release
<1> HIDE DEF r
<1>6. /\ e \in Seq(Worker) /\ DOMAIN idle[key] \subseteq DOMAIN e
      /\ \A i \in DOMAIN e : \/ i \in DOMAIN idle[key] /\ e[i] = idle[key][i]
                             \/ i = Len(idle[key]) + 1 /\ i \notin DOMAIN idle[key] /\ e[i] = w
  <2>1. idle[key] \in Seq(Worker)
    BY <1>1, <1>3 DEF TypeOK
  <2> QED
    BY <1>2, <2>1, Appended
<1> HIDE DEF e, key
<1>7. wk' \in [Worker -> WorkerState] /\ wk'[w] = r /\ \A v \in Worker : v # w => wk'[v] = wk[v]
  BY <1>1, <1>2, <1>4, <1>5 DEF TypeOK
<1>8. /\ cl' \in [Client -> ClientState] /\ cl'[c] = NewClient
      /\ \A d \in Client : d # c => cl'[d] = cl[d]
  BY <1>1, <1>5, NewClientType DEF TypeOK
<1>9. /\ idle' \in [Key -> Seq(Worker)] /\ idle'[key] = e
      /\ \A k \in Key : k # key => idle'[k] = idle[k]
  BY <1>1, <1>3, <1>5, <1>6 DEF TypeOK
<1>10. \A v \in Worker : /\ wk'[v].key = wk[v].key /\ wk'[v].sig = wk[v].sig
                         /\ wk'[v].epoch = wk[v].epoch /\ wk'[v].gone = wk[v].gone
                         /\ wk'[v].task = wk[v].task
  BY <1>4, <1>7 DEF key
<1>11. TypeOK'
  BY <1>1, <1>5, <1>7, <1>8, <1>9 DEF TypeOK, poolVars
<1>12. CountersExact'
  BY <1>1, <1>5, <1>10, CountersSame
<1>13. \A d \in Client, v \in Worker : Holds(d, v)' => Holds(d, v) /\ d # c /\ cl'[d] = cl[d]
  BY <1>8, NewClientType DEF Holds
<1>14. \A v \in Worker : InDeque(v)' => InDeque(v) \/ v = w
  BY <1>6, <1>9 DEF InDeque, Elements
<1>15. ExclusiveCheckout'
  <2>1. ASSUME NEW d \in Client, NEW f \in Client, NEW v \in Worker, Holds(d, v)', Holds(f, v)'
        PROVE  d = f
    BY <1>13, <2>1 DEF PoolInv, ExclusiveCheckout
  <2>2. ASSUME NEW d \in Client, NEW v \in Worker, Holds(d, v)'
        PROVE  ~InDeque(v)'
    BY <1>2, <1>13, <1>14, <2>2 DEF PoolInv, ExclusiveCheckout
  <2>3. ASSUME NEW k \in Key, NEW i \in DOMAIN idle'[k], NEW j \in DOMAIN idle'[k]
        PROVE  /\ idle'[k][i] = idle'[k][j] => i = j
               /\ wk'[idle'[k][i]].key = k
    <3>1. \A m, n \in DOMAIN idle[k] : /\ idle[k][m] = idle[k][n] => m = n
                                       /\ wk[idle[k][m]].key = k
      BY DEF PoolInv, ExclusiveCheckout
    <3>2. \A m \in DOMAIN idle[k] : idle[k][m] \in Worker /\ idle[k][m] # w
      <4>1. idle[k] \in Seq(Worker)
        BY <1>1 DEF TypeOK
      <4>2. \A m \in DOMAIN idle[k] : idle[k][m] \in Worker
        BY <4>1, LenProperties, ElementOfSeq
      <4> QED
        BY <1>2, <4>2 DEF InDeque, Elements
    <3>3. CASE k # key
      BY <1>9, <1>10, <3>1, <3>2, <3>3
    <3>4. CASE k = key
      <4>1. \/ i \in DOMAIN idle[k] /\ e[i] = idle[k][i]
            \/ i = Len(idle[k]) + 1 /\ e[i] = w
        BY <1>6, <1>9, <3>4
      <4>2. \/ j \in DOMAIN idle[k] /\ e[j] = idle[k][j]
            \/ j = Len(idle[k]) + 1 /\ e[j] = w
        BY <1>6, <1>9, <3>4
      <4>3. wk'[w].key = k
        BY <1>2, <1>10, <3>4 DEF key
      <4> QED
        BY <1>9, <1>10, <3>1, <3>2, <3>4, <4>1, <4>2, <4>3
    <3> QED
      BY <3>3, <3>4
  <2> QED
    BY <2>1, <2>2, <2>3 DEF ExclusiveCheckout
<1>16. LeaseIsFresh'
  BY <1>10, <1>13 DEF PoolInv, LeaseIsFresh
<1>17. FreeIsGone'
  <2> SUFFICES ASSUME NEW v \in Worker, wk'[v].task = "free"
               PROVE  wk'[v].gone /\ ~Referenced(v)'
    BY DEF FreeIsGone
  <2>1. wk[v].task = "free" /\ wk'[v].gone /\ ~Referenced(v) /\ v # w
    BY <1>3, <1>10 DEF PoolInv, FreeIsGone
  <2> QED
    BY <1>13, <1>14, <2>1 DEF Referenced
<1>18. HeldIsWorker'
  BY <1>8, NewClientType DEF PoolInv, HeldIsWorker
<1>19. Epochs'
  <2>1. \A d \in Client : cl'[d].epoch <= epoch'[cl'[d].key[2]]
    <3>1. NewClient.key \in Key /\ NewClient.epoch = 0
      BY NewClientType DEF ClientState
    <3>2. epoch[NewClient.key[2]] \in Nat
      BY <1>1, <3>1, Choices DEF TypeOK
    <3> QED
      BY <1>5, <1>8, <3>1, <3>2 DEF PoolInv, Epochs
  <2> QED
    BY <1>5, <1>10, <2>1 DEF PoolInv, Epochs
<1> QED
  BY <1>11, <1>12, <1>15, <1>16, <1>17, <1>18, <1>19 DEF PoolInv

\* Every way a request gives its worker back.
LEMMA ReleaseStep ==
    ASSUME PoolInv, NEW c \in Client,
           \/ FoundInCache(c) \/ Answer(c) \/ SetCache(c) \/ Failed(c) \/ Timeout(c)
           \/ CancelRequest(c)
    PROVE  PoolInv'
<1>1. TypeOK /\ cl[c].pc \in Holding
  BY DEF PoolInv, FoundInCache, Answer, SetCache, Failed, Timeout, CancelRequest, Holding
<1>2. PICK broken \in BOOLEAN : Release(c, broken)
  BY DEF FoundInCache, Answer, SetCache, Failed, Timeout, CancelRequest
<1>3. tools' \in [Server -> Sig \cup {NoTools}]
  <2>1. cl[c].w \in Worker
    BY <1>1 DEF PoolInv, HeldIsWorker, Holding
  <2>2. wk[cl[c].w].sig \in Sig
    BY <1>1, <2>1 DEF TypeOK, WorkerState
  <2> QED
    BY <1>1, <2>2 DEF TypeOK, FoundInCache, Answer, SetCache, Failed, Timeout, CancelRequest
<1>4. cancels' \in Nat
  <2>1. cancels \in Nat
    BY <1>1 DEF TypeOK
  <2>2. cancels' = cancels \/ cancels' = cancels + 1
    BY DEF FoundInCache, Answer, SetCache, Failed, Timeout, CancelRequest
  <2> QED
    BY <2>1, <2>2
<1>5. PICK w \in Worker : Holds(c, w)
  BY <1>1 DEF PoolInv, HeldIsWorker, Holds, Holding
<1> QED
  BY <1>2, <1>3, <1>4, <1>5, ReleasedDead, ReleasedIdle

-----------------------------------------------------------------------------
(* Taking a worker *)

\* The parts of Acquire, as operators of the state.
UsableAt(c) == {i \in DOMAIN idle[cl[c].key] : Usable(idle[cl[c].key][i], cl[c].sig)}
FirstAt(c) == CHOOSE i \in UsableAt(c) : \A j \in UsableAt(c) : i <= j
Skipped(c) == IF UsableAt(c) = {} THEN Elements(idle[cl[c].key])
              ELSE {idle[cl[c].key][i] : i \in 1 .. (FirstAt(c) - 1)}

\* The usable entry a request finds is in its deque; those it skips are workers.
LEMMA SkippedType ==
    ASSUME TypeOK, NEW c \in Client
    PROVE  /\ cl[c] \in ClientState /\ cl[c].key \in Key /\ cl[c].sig \in Sig
           /\ idle[cl[c].key] \in Seq(Worker)
           /\ DOMAIN idle[cl[c].key] = 1 .. Len(idle[cl[c].key])
           /\ Len(idle[cl[c].key]) \in Nat
           /\ \A i \in DOMAIN idle[cl[c].key] : idle[cl[c].key][i] \in Worker
           /\ UsableAt(c) # {} => FirstAt(c) \in UsableAt(c)
           /\ Skipped(c) \in SUBSET Worker
<1> DEFINE d == idle[cl[c].key]
<1>1. cl[c] \in ClientState /\ cl[c].key \in Key /\ cl[c].sig \in Sig
  BY DEF TypeOK, ClientState
<1>2. d \in Seq(Worker)
  BY <1>1 DEF TypeOK
<1>3. /\ Len(d) \in Nat /\ DOMAIN d = 1 .. Len(d)
      /\ \A i \in DOMAIN d : d[i] \in Worker
  BY <1>2, LenProperties, ElementOfSeq
<1>4. UsableAt(c) # {} => FirstAt(c) \in UsableAt(c)
  <2>1. UsableAt(c) \in SUBSET Nat
    BY <1>3 DEF UsableAt
  <2>2. UsableAt(c) # {} => \E i \in UsableAt(c) : \A j \in UsableAt(c) : i <= j
    BY <2>1, LeastNumber
  <2> QED
    BY <2>2 DEF FirstAt
<1>5. Skipped(c) \in SUBSET Worker
  <2>1. CASE UsableAt(c) = {}
    BY <1>3, <2>1 DEF Skipped, Elements
  <2>2. CASE UsableAt(c) # {}
    <3>1. FirstAt(c) \in DOMAIN d
      BY <1>4, <2>2 DEF UsableAt
    <3>2. \A i \in 1 .. (FirstAt(c) - 1) : i \in DOMAIN d
      BY <1>3, <3>1
    <3> QED
      BY <1>3, <2>2, <3>2 DEF Skipped
  <2> QED
    BY <2>1, <2>2
<1> QED
  BY <1>1, <1>2, <1>3, <1>4, <1>5

\* The workers on the way are told to shut down and stop counting.
LEMMA RetiredType ==
    ASSUME TypeOK, NEW S \in SUBSET Worker
    PROVE  /\ Retired(S) \in [Worker -> WorkerState]
           /\ \A w \in Worker \ S : Retired(S)[w] = wk[w]
           /\ \A w \in S : /\ Retired(S)[w].gone = TRUE
                           /\ \/ Retired(S)[w] = FreeWorker
                              \/ /\ Retired(S)[w].key = wk[w].key
                                 /\ Retired(S)[w].sig = wk[w].sig
                                 /\ Retired(S)[w].epoch = wk[w].epoch
                                 /\ Retired(S)[w].task = wk[w].task
<1>1. ASSUME NEW w \in S
      PROVE  /\ Retired(S)[w] \in WorkerState /\ Retired(S)[w].gone = TRUE
             /\ \/ Retired(S)[w] = FreeWorker
                \/ /\ Retired(S)[w].key = wk[w].key /\ Retired(S)[w].sig = wk[w].sig
                   /\ Retired(S)[w].epoch = wk[w].epoch /\ Retired(S)[w].task = wk[w].task
  <2> DEFINE inbox == Append(wk[w].inbox, Shutdown)
             r == [wk[w] EXCEPT !.gone = TRUE, !.inbox = inbox]
  <2>1. wk[w] \in WorkerState
    BY DEF TypeOK
  <2>2. inbox \in Seq(Item)
    <3>1. wk[w].inbox \in Seq(Item) /\ Shutdown \in Item
      BY <2>1 DEF WorkerState, Item
    <3> QED
      BY <3>1, AppendProperties
  <2>3. Retired(S)[w] = Recycled(r)
    BY DEF Retired
  <2> HIDE DEF inbox
  <2>4. /\ r \in WorkerState /\ r.gone = TRUE /\ r.key = wk[w].key /\ r.sig = wk[w].sig
        /\ r.epoch = wk[w].epoch /\ r.task = wk[w].task
    BY <2>1, <2>2 DEF WorkerState, Item
  <2> HIDE DEF r
  <2> QED
    BY <2>3, <2>4, FreeWorkerType DEF Recycled
<1>2. \A w \in Worker \ S : Retired(S)[w] = wk[w] /\ wk[w] \in WorkerState
  BY DEF Retired, TypeOK
<1>3. Retired(S) = [w \in Worker |-> Retired(S)[w]]
  BY DEF Retired
<1>4. \A w \in Worker : Retired(S)[w] \in WorkerState
  BY <1>1, <1>2
<1>5. Retired(S) \in [Worker -> WorkerState]
  BY <1>3, <1>4
<1> QED
  BY <1>1, <1>2, <1>5

\* A popped worker is in no deque any more.
LEMMA Popping ==
    ASSUME PoolInv, NEW k \in Key, NEW n \in Nat, NEW e \in Seq(Worker),
           Thinner(e, idle[k]),
           \A i \in DOMAIN e : \E j \in DOMAIN idle[k] : j > n /\ e[i] = idle[k][j],
           idle' = [idle EXCEPT ![k] = e]
    PROVE  /\ idle' \in [Key -> Seq(Worker)]
           /\ \A x \in Key : Thinner(idle'[x], idle[x])
           /\ \A w \in Worker, i \in DOMAIN idle[k] :
                 i <= n /\ w = idle[k][i] => InDeque(w) /\ ~InDeque(w)'
<1>1. idle' \in [Key -> Seq(Worker)] /\ idle'[k] = e /\ \A x \in Key : x # k => idle'[x] = idle[x]
  BY DEF PoolInv, TypeOK
<1>2. \A x \in Key : Thinner(idle'[x], idle[x])
  BY <1>1, ThinnerSame
<1>3. ASSUME NEW w \in Worker, NEW i \in DOMAIN idle[k], i <= n, w = idle[k][i]
      PROVE  InDeque(w) /\ ~InDeque(w)'
  <2>1. InDeque(w)
    BY <1>3 DEF InDeque, Elements
  <2>2. ASSUME NEW x \in Key, NEW m \in DOMAIN idle'[x], w = idle'[x][m]
        PROVE  FALSE
    <3>1. CASE x = k
      <4>1. PICK j \in DOMAIN idle[k] : j > n /\ w = idle[k][j]
        BY <1>1, <2>2, <3>1
      <4>2. i = j
        <5>1. \A a, b \in DOMAIN idle[k] : idle[k][a] = idle[k][b] => a = b
          BY DEF PoolInv, ExclusiveCheckout
        <5> QED
          BY <1>3, <4>1, <5>1
      <4>3. i \in Nat
        <5>1. idle[k] \in Seq(Worker)
          BY DEF PoolInv, TypeOK
        <5>2. DOMAIN idle[k] = 1 .. Len(idle[k]) /\ Len(idle[k]) \in Nat
          BY <5>1, LenProperties
        <5> QED
          BY <5>2
      <4> QED
        BY <1>3, <4>1, <4>2, <4>3
    <3>2. CASE x # k
      <4>1. m \in DOMAIN idle[x] /\ w = idle[x][m]
        BY <1>1, <2>2, <3>2
      <4>2. wk[w].key = x /\ wk[w].key = k
        BY <1>3, <4>1 DEF PoolInv, ExclusiveCheckout
      <4> QED
        BY <3>2, <4>2
    <3> QED
      BY <3>1, <3>2
  <2>3. ~InDeque(w)'
    BY <2>2 DEF InDeque, Elements
  <2> QED
    BY <2>1, <2>3
<1> QED
  BY <1>1, <1>2, <1>3

\* What the request becomes, and what it hands to the worker at once.
LEMMA LeaseType ==
    ASSUME TypeOK, NEW c \in Client, NEW w \in Worker, Lease(c, w)
    PROVE  /\ cl' \in [Client -> ClientState] /\ \A d \in Client : d # c => cl'[d] = cl[d]
           /\ cl'[c].w = w /\ cl'[c].pc \in Holding
           /\ cl'[c].key = cl[c].key /\ cl'[c].sig = cl[c].sig /\ cl'[c].epoch = cl[c].epoch
<1> DEFINE pc == IF Lists(c) THEN "looking" ELSE "waiting"
           fut == IF Lists(c) THEN "none" ELSE "pending"
           r == [cl[c] EXCEPT !.w = w, !.pc = pc, !.fut = fut]
<1>1. cl[c] \in ClientState
  BY DEF TypeOK
<1>2. cl' = [cl EXCEPT ![c] = r]
  BY DEF Lease
<1>3. pc \in Holding /\ pc \in {"looking", "waiting"} /\ fut \in {"none", "pending"}
  BY DEF Holding
<1> HIDE DEF pc, fut
<1>4. /\ r \in ClientState /\ r.w = w /\ r.pc = pc /\ r.key = cl[c].key
      /\ r.sig = cl[c].sig /\ r.epoch = cl[c].epoch
  BY <1>1, <1>3 DEF ClientState
<1> HIDE DEF r
<1> QED
  BY <1>2, <1>3, <1>4 DEF TypeOK

\* A worker given an operation stays what it was.
LEMMA GivenType ==
    ASSUME NEW r \in WorkerState, NEW c \in Client
    PROVE  /\ Given(r, c) \in WorkerState
           /\ Given(r, c).key = r.key /\ Given(r, c).sig = r.sig
           /\ Given(r, c).epoch = r.epoch /\ Given(r, c).gone = r.gone
           /\ Given(r, c).task = r.task
<1> DEFINE inbox == Append(r.inbox, c)
<1>1. inbox \in Seq(Item)
  <2>1. r.inbox \in Seq(Item) /\ c \in Item
    BY DEF WorkerState, Item
  <2> QED
    BY <2>1, AppendProperties
<1>2. Given(r, c) = IF Lists(c) THEN r ELSE [r EXCEPT !.inbox = inbox]
  BY DEF Given
<1> HIDE DEF inbox
<1> QED
  BY <1>1, <1>2 DEF WorkerState, Item

\* A spawned worker has the key, the signature and the epoch of its request.
LEMMA SpawnedType ==
    ASSUME TypeOK, NEW c \in Client
    PROVE  /\ Spawned(c) \in WorkerState
           /\ Spawned(c).task = "new" /\ Spawned(c).gone = FALSE
           /\ Spawned(c).key = cl[c].key /\ Spawned(c).sig = cl[c].sig
           /\ Spawned(c).epoch = epoch[cl[c].key[2]]
<1>1. cl[c].key \in Key /\ cl[c].sig \in Sig
  BY DEF TypeOK, ClientState
<1>2. epoch[cl[c].key[2]] \in Nat
  BY <1>1, Choices DEF TypeOK
<1> QED
  BY <1>1, <1>2, FreeWorkerType DEF Spawned, WorkerState

\* Requests keep what they resolved, workers are as old as they were: Epochs.
LEMMA EpochsAfterLease ==
    ASSUME PoolInv, epoch' = epoch,
           \A w \in Worker : \/ wk'[w].gone
                             \/ Kept(w)
                             \/ wk'[w].epoch = epoch[wk'[w].key[2]],
           \A c \in Client : cl'[c].key = cl[c].key /\ cl'[c].epoch = cl[c].epoch
    PROVE  Epochs'
BY DEF PoolInv, Epochs, Kept

\* The cases of Acquire: the pool closes, a worker of the deque serves, a new one
\* does, or there is no room for one.
Closes(c) == GoDirect(c) /\ UNCHANGED <<wk, poolVars, idle>>
TakesIdle(c) ==
    /\ UsableAt(c) # {}
    /\ Lease(c, idle[cl[c].key][FirstAt(c)])
    /\ idle' = [idle EXCEPT ![cl[c].key] = Popped(idle[cl[c].key], FirstAt(c))]
    /\ wk' = [Retired(Skipped(c)) EXCEPT ![idle[cl[c].key][FirstAt(c)]] = Given(@, c)]
    /\ Uncount(Skipped(c))
Counts(w, S, key) ==
    /\ Room(key, Counted(S))
    /\ all' = (all \ Counted(S)) \cup {w}
    /\ perKey' = [j \in Key |-> perKey[j] - Cardinality(OfKey(Counted(S), j))
                                   + IF j = key THEN 1 ELSE 0]
    /\ perUser' = [u \in User |-> perUser[u] - Cardinality(OfUser(Counted(S), u))
                                     + IF u = key[1] THEN 1 ELSE 0]
    /\ total' = total - Cardinality(Counted(S)) + 1
TakesNew(c, w) ==
    /\ UsableAt(c) = {}
    /\ idle' = [idle EXCEPT ![cl[c].key] = <<>>]
    /\ wk[w].task = "free"
    /\ Lease(c, w)
    /\ wk' = [Retired(Skipped(c)) EXCEPT ![w] = Given(Spawned(c), c)]
    /\ Counts(w, Skipped(c), cl[c].key)
HasNoRoom(c) ==
    /\ UsableAt(c) = {}
    /\ GoDirect(c)
    /\ idle' = [idle EXCEPT ![cl[c].key] = <<>>]
    /\ wk' = Retired(Skipped(c))
    /\ Uncount(Skipped(c))

\* acquire closes, takes an idle worker, finds no room or spawns a worker.
LEMMA AcquireCases ==
    ASSUME NEW c \in Client, Acquire(c)
    PROVE  /\ cl[c].pc \in {"missed", "resolved"} /\ UNCHANGED <<closing, dbVars, tools>>
           /\ \/ Closes(c) \/ TakesIdle(c) \/ HasNoRoom(c)
              \/ \E w \in Worker : TakesNew(c, w)
BY DEF Acquire, UsableAt, FirstAt, Skipped, Closes, TakesIdle, TakesNew, Counts,
       HasNoRoom

\* A request without a pooled worker connects directly.
LEMMA DirectType ==
    ASSUME TypeOK, NEW c \in Client, GoDirect(c)
    PROVE  /\ cl' \in [Client -> ClientState] /\ \A d \in Client : d # c => cl'[d] = cl[d]
           /\ cl'[c] \in ClientState /\ cl'[c].pc = "direct" /\ cl'[c].w = cl[c].w
           /\ cl'[c].key = cl[c].key /\ cl'[c].sig = cl[c].sig /\ cl'[c].epoch = cl[c].epoch
<1> DEFINE r == [cl[c] EXCEPT !.pc = "direct"]
<1>1. cl[c] \in ClientState
  BY DEF TypeOK
<1>2. /\ r \in ClientState /\ r.pc = "direct" /\ r.w = cl[c].w /\ r.key = cl[c].key
      /\ r.sig = cl[c].sig /\ r.epoch = cl[c].epoch
  BY <1>1 DEF ClientState
<1>3. cl' = [cl EXCEPT ![c] = r]
  BY DEF GoDirect
<1> HIDE DEF r
<1> QED
  BY <1>2, <1>3 DEF TypeOK

\* acquire on a pool that is shutting down.
LEMMA AcquireClosing ==
    ASSUME PoolInv, NEW c \in Client, Closes(c), UNCHANGED <<closing, dbVars, tools>>
    PROVE  PoolInv'
<1>1. TypeOK /\ GoDirect(c) /\ UNCHANGED <<wk, poolVars, idle>>
  BY DEF PoolInv, Closes
<1>2. /\ cl'[c] \in ClientState /\ cl'[c].pc = "direct" /\ cl'[c].w = cl[c].w
      /\ cl'[c].key = cl[c].key /\ cl'[c].sig = cl[c].sig /\ cl'[c].epoch = cl[c].epoch
  BY <1>1, DirectType
<1>3. PICK r \in ClientState : r = cl'[c]
  BY <1>2
<1>4. cl' = [cl EXCEPT ![c] = r]
  BY <1>1, <1>3 DEF GoDirect, TypeOK
<1>5. tools' \in [Server -> Sig \cup {NoTools}]
  BY <1>1 DEF TypeOK
<1> QED
  BY <1>1, <1>2, <1>3, <1>4, <1>5, RequestGoesOn DEF Holding

\* The workers that were on the way, whether the deque is emptied or not.
LEMMA SkippedLeave ==
    ASSUME PoolInv, NEW c \in Client,
           TakesIdle(c) \/ HasNoRoom(c) \/ \E w \in Worker : TakesNew(c, w)
    PROVE  /\ idle' \in [Key -> Seq(Worker)]
           /\ \A x \in Key : Thinner(idle'[x], idle[x])
           /\ \A w \in Skipped(c) : InDeque(w) /\ ~InDeque(w)'
           /\ UsableAt(c) # {} => \A w \in Worker : w = idle[cl[c].key][FirstAt(c)] =>
                                     InDeque(w) /\ ~InDeque(w)' /\ w \notin Skipped(c)
<1>1. PICK k \in Key : k = cl[c].key
  BY SkippedType DEF PoolInv
<1>2. PICK d \in Seq(Worker) : d = idle[k]
  BY <1>1, SkippedType DEF PoolInv
<1>3. DOMAIN d = 1 .. Len(d) /\ Len(d) \in Nat /\ \A i \in DOMAIN d : d[i] \in Worker
  BY <1>2, LenProperties, ElementOfSeq
<1>4. CASE UsableAt(c) # {}
  <2>0. idle' = [idle EXCEPT ![k] = Popped(idle[k], FirstAt(c))]
    BY <1>1, <1>4 DEF TakesIdle, HasNoRoom, TakesNew
  <2>1. PICK n \in 1 .. Len(d) : n = FirstAt(c)
    BY <1>1, <1>2, <1>3, <1>4, SkippedType DEF PoolInv, UsableAt
  <2>2. PICK e \in Seq(Worker) :
            /\ e = Popped(d, n) /\ Thinner(e, d)
            /\ \A i \in DOMAIN e : \E j \in DOMAIN d : j > n /\ e[i] = d[j]
    BY PoppedRest
  <2>3. idle' = [idle EXCEPT ![k] = e] /\ n \in Nat
    BY <1>2, <1>3, <2>0, <2>1, <2>2
  <2>4. /\ idle' \in [Key -> Seq(Worker)]
        /\ \A x \in Key : Thinner(idle'[x], idle[x])
        /\ \A w \in Worker, i \in DOMAIN d : i <= n /\ w = d[i] => InDeque(w) /\ ~InDeque(w)'
    <3>1. /\ Thinner(e, idle[k])
          /\ \A i \in DOMAIN e : \E j \in DOMAIN idle[k] : j > n /\ e[i] = idle[k][j]
      BY <1>2, <2>2
    <3>2. /\ idle' \in [Key -> Seq(Worker)]
          /\ \A x \in Key : Thinner(idle'[x], idle[x])
          /\ \A w \in Worker, i \in DOMAIN idle[k] :
                i <= n /\ w = idle[k][i] => InDeque(w) /\ ~InDeque(w)'
      BY <2>3, <3>1, Popping
    <3> QED
      BY <1>2, <3>2
  <2>5. Skipped(c) = {d[i] : i \in 1 .. (n - 1)}
    BY <1>1, <1>2, <1>4, <2>1 DEF Skipped
  <2>6. ASSUME NEW w \in Skipped(c)
        PROVE  InDeque(w) /\ ~InDeque(w)'
    <3>1. PICK i \in 1 .. (n - 1) : w = d[i]
      BY <2>5
    <3>2. i \in DOMAIN d /\ i <= n
      BY <1>3, <2>1
    <3> QED
      BY <1>3, <2>4, <3>1, <3>2
  <2>7. ASSUME NEW w \in Worker, w = idle[cl[c].key][FirstAt(c)]
        PROVE  InDeque(w) /\ ~InDeque(w)' /\ w \notin Skipped(c)
    <3>1. w = d[n] /\ n \in DOMAIN d /\ n <= n
      BY <1>1, <1>2, <1>3, <2>1, <2>7
    <3>2. InDeque(w) /\ ~InDeque(w)'
      BY <2>4, <3>1
    <3>3. \A i, j \in DOMAIN d : d[i] = d[j] => i = j
      BY <1>2 DEF PoolInv, ExclusiveCheckout
    <3>4. \A i \in 1 .. (n - 1) : i \in DOMAIN d /\ i # n
      BY <1>3, <2>1
    <3> QED
      BY <2>5, <3>1, <3>2, <3>3, <3>4
  <2> QED
    BY <1>4, <2>4, <2>6, <2>7
<1>5. CASE UsableAt(c) = {}
  <2>1. idle' = [idle EXCEPT ![k] = <<>>]
    BY <1>1, <1>5 DEF TakesIdle, HasNoRoom, TakesNew
  <2>2. <<>> \in Seq(Worker) /\ Thinner(<<>>, d) /\ DOMAIN <<>> = {}
    BY ThinnerEmpty, EmptySeq
  <2>3. /\ idle' \in [Key -> Seq(Worker)]
        /\ \A x \in Key : Thinner(idle'[x], idle[x])
        /\ \A w \in Worker, i \in DOMAIN d :
              i <= Len(d) /\ w = d[i] => InDeque(w) /\ ~InDeque(w)'
    BY <1>2, <1>3, <2>1, <2>2, Popping
  <2>4. Skipped(c) = {d[i] : i \in DOMAIN d}
    BY <1>1, <1>2, <1>5 DEF Skipped, Elements
  <2>5. \A w \in Skipped(c) : InDeque(w) /\ ~InDeque(w)'
    BY <1>3, <2>3, <2>4
  <2> QED
    BY <1>5, <2>3, <2>5
<1> QED
  BY <1>4, <1>5

\* The limits are reached: the deque is emptied, a one-shot session serves.
LEMMA AcquireFull ==
    ASSUME PoolInv, NEW c \in Client, HasNoRoom(c), UNCHANGED <<closing, dbVars, tools>>
    PROVE  PoolInv'
<1>1. TypeOK /\ CountersExact
  BY DEF PoolInv
<1>2. Skipped(c) \in SUBSET Worker
  BY <1>1, SkippedType
<1>3. PICK S \in SUBSET Worker : S = Skipped(c)
  BY <1>2
<1>4. /\ idle' \in [Key -> Seq(Worker)]
      /\ \A x \in Key : Thinner(idle'[x], idle[x])
      /\ \A w \in S : InDeque(w) /\ ~InDeque(w)'
  BY <1>3, SkippedLeave
<1>5. /\ wk' \in [Worker -> WorkerState]
      /\ \A w \in Worker \ S : wk'[w] = wk[w]
      /\ \A w \in S : /\ wk'[w].gone = TRUE
                      /\ \/ wk'[w] = FreeWorker
                         \/ /\ wk'[w].key = wk[w].key /\ wk'[w].sig = wk[w].sig
                            /\ wk'[w].epoch = wk[w].epoch /\ wk'[w].task = wk[w].task
  BY <1>1, <1>3, RetiredType DEF HasNoRoom
<1>6. /\ cl' \in [Client -> ClientState] /\ \A d \in Client : d # c => cl'[d] = cl[d]
      /\ cl'[c].pc = "direct" /\ cl'[c].w = cl[c].w
      /\ cl'[c].key = cl[c].key /\ cl'[c].sig = cl[c].sig /\ cl'[c].epoch = cl[c].epoch
  BY <1>1, DirectType DEF HasNoRoom
<1>7. \A d \in Client : KeepsOn(d)
  BY <1>6 DEF KeepsOn, Holding
<1>8. /\ CountersExact' /\ all' \in SUBSET Worker
      /\ perKey' \in [Key -> Nat] /\ perUser' \in [User -> Nat] /\ total' \in Nat
  <2>1. \A w \in Worker : wk'[w].gone = (wk[w].gone \/ w \in S)
    <3>1. \A w \in Worker : wk[w].gone \in BOOLEAN
      BY <1>1 DEF TypeOK, WorkerState
    <3> QED
      BY <1>5, <3>1
  <2>2. \A w \in Worker : ~wk'[w].gone => wk'[w].key = wk[w].key
    BY <1>5
  <2>3. Uncount(S)
    BY <1>3 DEF HasNoRoom
  <2> QED
    BY <1>1, <2>1, <2>2, <2>3, Uncounting
<1>9. TypeOK'
  BY <1>1, <1>4, <1>5, <1>6, <1>8 DEF TypeOK, dbVars
<1>10. \A w \in S : ~Referenced(w)'
  <2>1. \A w \in S, d \in Client : ~Holds(d, w)
    BY <1>4 DEF PoolInv, ExclusiveCheckout
  <2>2. \A d \in Client, w \in Worker : Holds(d, w)' => Holds(d, w)
    BY <1>7 DEF KeepsOn, Holds, Holding
  <2> QED
    BY <1>4, <2>1, <2>2 DEF Referenced
<1>11. \A w \in Worker : Kept(w) \/ Freed(w)
  BY <1>5, <1>10 DEF Kept, Freed
<1> QED
  BY <1>4, <1>7, <1>8, <1>9, <1>11, Calm DEF dbVars

\* The first usable worker of the deque is leased.
LEMMA AcquireIdle ==
    ASSUME PoolInv, NEW c \in Client, cl[c].pc \in {"missed", "resolved"}, TakesIdle(c),
           UNCHANGED <<closing, dbVars, tools>>
    PROVE  PoolInv'
<1>1. TypeOK /\ CountersExact
  BY DEF PoolInv
<1>2. PICK S \in SUBSET Worker : S = Skipped(c)
  BY <1>1, SkippedType
<1>3. PICK w0 \in Worker : w0 = idle[cl[c].key][FirstAt(c)]
  BY <1>1, SkippedType DEF UsableAt, TakesIdle
<1>4. /\ idle' \in [Key -> Seq(Worker)]
      /\ \A x \in Key : Thinner(idle'[x], idle[x])
      /\ \A w \in S : InDeque(w) /\ ~InDeque(w)'
      /\ InDeque(w0) /\ ~InDeque(w0)' /\ w0 \notin S
  BY <1>2, <1>3, SkippedLeave DEF TakesIdle
<1> DEFINE retired == Retired(S)
<1>5. /\ retired \in [Worker -> WorkerState]
      /\ \A w \in Worker \ S : retired[w] = wk[w]
      /\ \A w \in S : /\ retired[w].gone = TRUE
                      /\ \/ retired[w] = FreeWorker
                         \/ /\ retired[w].key = wk[w].key /\ retired[w].sig = wk[w].sig
                            /\ retired[w].epoch = wk[w].epoch /\ retired[w].task = wk[w].task
  BY <1>1, RetiredType
<1>6. wk[w0] \in WorkerState /\ wk' = [retired EXCEPT ![w0] = Given(retired[w0], c)]
  BY <1>1, <1>2, <1>3 DEF TypeOK, TakesIdle
<1> HIDE DEF retired
<1>7. /\ Given(wk[w0], c) \in WorkerState
      /\ Given(wk[w0], c).key = wk[w0].key /\ Given(wk[w0], c).sig = wk[w0].sig
      /\ Given(wk[w0], c).epoch = wk[w0].epoch /\ Given(wk[w0], c).gone = wk[w0].gone
      /\ Given(wk[w0], c).task = wk[w0].task
  BY <1>6, GivenType
<1>8. /\ wk' \in [Worker -> WorkerState]
      /\ wk'[w0] = Given(wk[w0], c)
      /\ \A w \in Worker : w # w0 => wk'[w] = retired[w]
  <2>1. retired[w0] = wk[w0]
    BY <1>4, <1>5
  <2>2. wk' = [retired EXCEPT ![w0] = Given(wk[w0], c)]
    BY <1>6, <2>1
  <2> QED
    BY <1>5, <1>7, <2>2
<1>9. /\ cl' \in [Client -> ClientState] /\ \A d \in Client : d # c => cl'[d] = cl[d]
      /\ cl'[c].w = w0 /\ cl'[c].pc \in Holding
      /\ cl'[c].key = cl[c].key /\ cl'[c].sig = cl[c].sig /\ cl'[c].epoch = cl[c].epoch
  BY <1>1, <1>3, LeaseType DEF TakesIdle
<1>10. /\ CountersExact' /\ all' \in SUBSET Worker
       /\ perKey' \in [Key -> Nat] /\ perUser' \in [User -> Nat] /\ total' \in Nat
  <2>1. \A w \in Worker : wk'[w].gone = (wk[w].gone \/ w \in S)
    <3>1. \A w \in Worker : wk[w].gone \in BOOLEAN
      BY <1>1 DEF TypeOK, WorkerState
    <3>2. wk'[w0].gone = wk[w0].gone /\ w0 \notin S
      BY <1>4, <1>7, <1>8
    <3>3. \A w \in S : wk'[w].gone = TRUE
      BY <1>4, <1>5, <1>8
    <3>4. \A w \in Worker \ S : w # w0 => wk'[w].gone = wk[w].gone
      BY <1>5, <1>8
    <3> QED
      BY <3>1, <3>2, <3>3, <3>4
  <2>2. \A w \in Worker : ~wk'[w].gone => wk'[w].key = wk[w].key
    BY <1>5, <1>7, <1>8
  <2>3. Uncount(S)
    BY <1>2 DEF TakesIdle
  <2> QED
    BY <1>1, <2>1, <2>2, <2>3, Uncounting
<1>11. TypeOK'
  BY <1>1, <1>4, <1>8, <1>9, <1>10 DEF TypeOK, dbVars
<1>12. \A w \in S : ~Referenced(w)'
  <2>1. \A w \in S, d \in Client : ~Holds(d, w)
    BY <1>4 DEF PoolInv, ExclusiveCheckout
  <2>2. \A d \in Client, w \in Worker : Holds(d, w)' => Holds(d, w) \/ w = w0
    BY <1>9 DEF Holds
  <2> QED
    BY <1>4, <2>1, <2>2 DEF Referenced
<1>13. \A w \in Worker : Kept(w) \/ Freed(w)
  BY <1>4, <1>5, <1>7, <1>8, <1>12 DEF Kept, Freed
<1>14. Epochs'
  <2>1. \A d \in Client : cl'[d].key = cl[d].key /\ cl'[d].epoch = cl[d].epoch
    BY <1>9
  <2>2. \A w \in Worker : wk'[w].gone \/ Kept(w)
    BY <1>13, FreeWorkerType DEF Freed
  <2> QED
    BY <2>1, <2>2, EpochsAfterLease DEF dbVars
<1>15. wk'[w0].task # "free" /\ \A d \in Client : ~Holds(d, w0)
  BY <1>4, <1>7, <1>8 DEF PoolInv, FreeIsGone, Referenced, ExclusiveCheckout
<1>16. wk'[w0].sig = cl'[c].sig /\ wk'[w0].epoch >= cl'[c].epoch
  <2>1. Usable(w0, cl[c].sig)
    BY <1>1, <1>3, SkippedType DEF UsableAt, TakesIdle
  <2>2. wk[w0].key = cl[c].key
    <3>1. FirstAt(c) \in DOMAIN idle[cl[c].key] /\ cl[c].key \in Key
      BY <1>1, SkippedType DEF UsableAt, TakesIdle
    <3> QED
      BY <1>3, <3>1 DEF PoolInv, ExclusiveCheckout
  <2>3. wk[w0].epoch = epoch[wk[w0].key[2]] /\ cl[c].epoch <= epoch[cl[c].key[2]]
    BY <2>1 DEF Usable, PoolInv, Epochs
  <2>4. cl[c].epoch \in Nat /\ wk[w0].epoch \in Nat
    BY <1>1 DEF TypeOK, ClientState, WorkerState
  <2> QED
    BY <1>7, <1>8, <1>9, <2>1, <2>2, <2>3, <2>4 DEF Usable
<1>17. \A d \in Client : cl'[d].pc \in Holding =>
          IF d = c THEN cl'[d].w = w0
          ELSE /\ cl[d].pc \in Holding /\ cl'[d].w = cl[d].w
               /\ cl'[d].sig = cl[d].sig /\ cl'[d].epoch = cl[d].epoch
  BY <1>9
<1>18. c \in Client =>
          /\ w0 \in Worker /\ wk'[w0].task # "free"
          /\ \A d \in Client : ~Holds(d, w0)
          /\ ~InDeque(w0)'
          /\ wk'[w0].sig = cl'[c].sig /\ wk'[w0].epoch >= cl'[c].epoch
  BY <1>4, <1>15, <1>16
<1> QED
  BY <1>4, <1>10, <1>11, <1>13, <1>14, <1>17, <1>18, Stepping

\* A spawn keeps the counters exact and within the limits: Room leaves one free place.
LEMMA Spawning ==
    ASSUME TypeOK, CountersExact, NEW w \in Worker, wk[w].gone,
           NEW S \in SUBSET Worker, NEW key \in Key, Counts(w, S, key),
           wk'[w].key = key, wk'[w].gone = FALSE,
           \A v \in Worker : v # w => wk'[v].gone = (wk[v].gone \/ v \in S),
           \A v \in Worker : v # w /\ ~wk'[v].gone => wk'[v].key = wk[v].key
    PROVE  /\ CountersExact'
           /\ all' \in SUBSET Worker
           /\ perKey' \in [Key -> Nat] /\ perUser' \in [User -> Nat] /\ total' \in Nat
<1>1. PICK fresh \in SUBSET Worker : fresh = Counted(S)
  BY DEF Counted
<1>0. all' = (all \ fresh) \cup {w}
  BY <1>1 DEF Counts
<1>2. all \in SUBSET Worker /\ all = {v \in Worker : ~wk[v].gone} /\ w \notin all
  BY DEF TypeOK, CountersExact
<1>3. fresh \in SUBSET all /\ fresh = all \cap S
  BY <1>1, <1>2 DEF Counted
<1>4. all' = (all \ fresh) \cup {w} /\ all' = {v \in Worker : ~wk'[v].gone}
      /\ all' \in SUBSET Worker
  BY <1>0, <1>2, <1>3
<1>5. \A v \in all \ fresh : v # w /\ wk'[v].key = wk[v].key
  BY <1>2, <1>4
<1>6. ASSUME NEW k \in Key
      PROVE  perKey'[k] \in Nat /\ perKey'[k] = Cardinality(OfKey(all, k)') /\ perKey'[k] <= PerKey
  <2>1. OfKey(fresh, k) \in SUBSET OfKey(all, k) /\ w \notin OfKey(all, k)
    BY <1>2, <1>3 DEF OfKey
  <2>2. IsFiniteSet(OfKey(all, k))
    BY <1>2, FiniteParts
  <2>3. OfKey(all, k)' = IF k = key THEN (OfKey(all, k) \ OfKey(fresh, k)) \cup {w}
                         ELSE OfKey(all, k) \ OfKey(fresh, k)
    BY <1>3, <1>4, <1>5 DEF OfKey
  <2>4. perKey[k] = Cardinality(OfKey(all, k)) /\ perKey[k] <= PerKey
    BY DEF CountersExact
  <2>5. perKey'[k] = perKey[k] - Cardinality(OfKey(fresh, k)) + IF k = key THEN 1 ELSE 0
    BY <1>1 DEF Counts
  <2>6. /\ Cardinality(OfKey(all, k)) \in Nat /\ Cardinality(OfKey(fresh, k)) \in Nat
        /\ Cardinality(OfKey(all, k) \ OfKey(fresh, k)) \in Nat
        /\ Cardinality(OfKey(all, k) \ OfKey(fresh, k))
              = Cardinality(OfKey(all, k)) - Cardinality(OfKey(fresh, k))
        /\ Cardinality((OfKey(all, k) \ OfKey(fresh, k)) \cup {w})
              = Cardinality(OfKey(all, k)) - Cardinality(OfKey(fresh, k)) + 1
    BY <2>1, <2>2, SetCounts
  <2>7. k = key => perKey[k] - Cardinality(OfKey(fresh, k)) < PerKey
    BY <1>1 DEF Counts, Room
  <2>8. PerKey \in Nat
    BY PoolAssumption
  <2> QED
    BY <2>3, <2>4, <2>5, <2>6, <2>7, <2>8
<1>7. ASSUME NEW u \in User
      PROVE  /\ perUser'[u] \in Nat /\ perUser'[u] = Cardinality(OfUser(all, u)')
             /\ perUser'[u] <= PerUser
  <2>1. OfUser(fresh, u) \in SUBSET OfUser(all, u) /\ w \notin OfUser(all, u)
    BY <1>2, <1>3 DEF OfUser
  <2>2. IsFiniteSet(OfUser(all, u))
    BY <1>2, FiniteParts
  <2>3. OfUser(all, u)' = IF u = key[1] THEN (OfUser(all, u) \ OfUser(fresh, u)) \cup {w}
                          ELSE OfUser(all, u) \ OfUser(fresh, u)
    BY <1>3, <1>4, <1>5 DEF OfUser
  <2>4. perUser[u] = Cardinality(OfUser(all, u)) /\ perUser[u] <= PerUser
    BY DEF CountersExact
  <2>5. perUser'[u] = perUser[u] - Cardinality(OfUser(fresh, u)) + IF u = key[1] THEN 1 ELSE 0
    BY <1>1 DEF Counts
  <2>6. /\ Cardinality(OfUser(all, u)) \in Nat /\ Cardinality(OfUser(fresh, u)) \in Nat
        /\ Cardinality(OfUser(all, u) \ OfUser(fresh, u)) \in Nat
        /\ Cardinality(OfUser(all, u) \ OfUser(fresh, u))
              = Cardinality(OfUser(all, u)) - Cardinality(OfUser(fresh, u))
        /\ Cardinality((OfUser(all, u) \ OfUser(fresh, u)) \cup {w})
              = Cardinality(OfUser(all, u)) - Cardinality(OfUser(fresh, u)) + 1
    BY <2>1, <2>2, SetCounts
  <2>7. u = key[1] => perUser[u] - Cardinality(OfUser(fresh, u)) < PerUser
    BY <1>1 DEF Counts, Room
  <2>8. PerUser \in Nat
    BY PoolAssumption
  <2> QED
    BY <2>3, <2>4, <2>5, <2>6, <2>7, <2>8
<1>8. total' \in Nat /\ total' = Cardinality(all') /\ total' <= MaxTotal
  <2>1. total = Cardinality(all) /\ MaxTotal \in Nat
    BY PoolAssumption DEF CountersExact
  <2>2. IsFiniteSet(all)
    BY <1>2, FiniteParts
  <2>3. /\ Cardinality(all) \in Nat /\ Cardinality(fresh) \in Nat
        /\ Cardinality(all \ fresh) \in Nat
        /\ Cardinality(all \ fresh) = Cardinality(all) - Cardinality(fresh)
        /\ Cardinality((all \ fresh) \cup {w}) = Cardinality(all) - Cardinality(fresh) + 1
    BY <1>2, <1>3, <2>2, SetCounts
  <2>4. total - Cardinality(fresh) < MaxTotal /\ total' = total - Cardinality(fresh) + 1
    BY <1>1 DEF Counts, Room
  <2>5. Cardinality(all') = Cardinality(all) - Cardinality(fresh) + 1
    BY <1>4, <2>3
  <2> QED
    BY <2>1, <2>3, <2>4, <2>5
<1>9. perKey' \in [Key -> Nat] /\ perUser' \in [User -> Nat]
  <2>1. /\ perKey' = [j \in Key |-> perKey'[j]] /\ perUser' = [u \in User |-> perUser'[u]]
    BY DEF Counts
  <2> QED
    BY <1>6, <1>7, <2>1
<1> QED
  BY <1>4, <1>6, <1>7, <1>8, <1>9 DEF CountersExact

\* There is room, and a free identity: a worker is spawned and leased.
LEMMA AcquireNew ==
    ASSUME PoolInv, NEW c \in Client, cl[c].pc \in {"missed", "resolved"},
           NEW w \in Worker, TakesNew(c, w), UNCHANGED <<closing, dbVars, tools>>
    PROVE  PoolInv'
<1>1. TypeOK /\ CountersExact
  BY DEF PoolInv
<1>2. PICK S \in SUBSET Worker : S = Skipped(c)
  BY <1>1, SkippedType
<1>3. PICK key \in Key : key = cl[c].key
  BY <1>1, SkippedType
<1>4. /\ idle' \in [Key -> Seq(Worker)]
      /\ \A x \in Key : Thinner(idle'[x], idle[x])
      /\ \A v \in S : InDeque(v) /\ ~InDeque(v)'
  BY <1>2, SkippedLeave
<1>5. wk[w].gone /\ ~Referenced(w) /\ w \notin S /\ ~InDeque(w)'
  <2>1. wk[w].task = "free"
    BY DEF TakesNew
  <2>2. wk[w].gone /\ ~Referenced(w)
    BY <2>1 DEF PoolInv, FreeIsGone
  <2>3. ~InDeque(w)
    BY <2>2 DEF Referenced
  <2> QED
    BY <1>4, <2>2, <2>3, StillInDeque
<1> DEFINE retired == Retired(S)
           new == Given(Spawned(c), c)
<1>6. /\ retired \in [Worker -> WorkerState]
      /\ \A v \in Worker \ S : retired[v] = wk[v]
      /\ \A v \in S : /\ retired[v].gone = TRUE
                      /\ \/ retired[v] = FreeWorker
                         \/ /\ retired[v].key = wk[v].key /\ retired[v].sig = wk[v].sig
                            /\ retired[v].epoch = wk[v].epoch /\ retired[v].task = wk[v].task
  BY <1>1, RetiredType
<1>7. /\ new \in WorkerState /\ new.task = "new" /\ new.gone = FALSE
      /\ new.key = key /\ new.sig = cl[c].sig /\ new.epoch = epoch[key[2]]
  BY <1>1, <1>3, SpawnedType, GivenType
<1>8. wk' = [retired EXCEPT ![w] = new]
  BY <1>2 DEF TakesNew
<1> HIDE DEF retired, new
<1>9. wk' \in [Worker -> WorkerState] /\ wk'[w] = new /\ \A v \in Worker : v # w => wk'[v] = retired[v]
  BY <1>6, <1>7, <1>8
<1>10. /\ cl' \in [Client -> ClientState] /\ \A d \in Client : d # c => cl'[d] = cl[d]
       /\ cl'[c].w = w /\ cl'[c].pc \in Holding
       /\ cl'[c].key = cl[c].key /\ cl'[c].sig = cl[c].sig /\ cl'[c].epoch = cl[c].epoch
  BY <1>1, LeaseType DEF TakesNew
<1>11. /\ CountersExact' /\ all' \in SUBSET Worker
       /\ perKey' \in [Key -> Nat] /\ perUser' \in [User -> Nat] /\ total' \in Nat
  <2>1. \A v \in Worker : v # w => wk'[v].gone = (wk[v].gone \/ v \in S)
    <3>1. \A v \in Worker : wk[v].gone \in BOOLEAN
      BY <1>1 DEF TypeOK, WorkerState
    <3>2. \A v \in S : v # w => wk'[v].gone = TRUE
      BY <1>6, <1>9
    <3>3. \A v \in Worker \ S : v # w => wk'[v].gone = wk[v].gone
      BY <1>6, <1>9
    <3> QED
      BY <3>1, <3>2, <3>3
  <2>2. \A v \in Worker : v # w /\ ~wk'[v].gone => wk'[v].key = wk[v].key
    BY <1>6, <1>9
  <2>3. wk'[w].key = key /\ wk'[w].gone = FALSE
    BY <1>7, <1>9
  <2>4. Counts(w, S, key)
    BY <1>2, <1>3 DEF TakesNew
  <2> QED
    BY <1>1, <1>5, <2>1, <2>2, <2>3, <2>4, Spawning
<1>12. TypeOK'
  BY <1>1, <1>4, <1>9, <1>10, <1>11 DEF TypeOK, dbVars
<1>13. \A v \in S : ~Referenced(v)'
  <2>1. \A v \in S, d \in Client : ~Holds(d, v)
    BY <1>4 DEF PoolInv, ExclusiveCheckout
  <2>2. \A d \in Client, v \in Worker : Holds(d, v)' => Holds(d, v) \/ v = w
    BY <1>10 DEF Holds
  <2> QED
    BY <1>4, <1>5, <2>1, <2>2 DEF Referenced
<1>14. \A v \in Worker : \/ Kept(v)
                         \/ Freed(v)
                         \/ v = w /\ wk[v].task = "free" /\ wk'[v].task # "free"
  <2>1. wk[w].task = "free" /\ wk'[w].task # "free"
    BY <1>7, <1>9 DEF TakesNew
  <2> QED
    BY <1>6, <1>9, <1>13, <2>1 DEF Kept, Freed
<1>15. Epochs'
  <2>1. \A d \in Client : cl'[d].key = cl[d].key /\ cl'[d].epoch = cl[d].epoch
    BY <1>10
  <2>2. \A v \in Worker : wk'[v].gone \/ Kept(v) \/ wk'[v].epoch = epoch[wk'[v].key[2]]
    BY <1>7, <1>9, <1>14, FreeWorkerType DEF Freed
  <2> QED
    BY <2>1, <2>2, EpochsAfterLease DEF dbVars
<1>16. wk'[w].sig = cl'[c].sig /\ wk'[w].epoch >= cl'[c].epoch
  <2>1. cl[c].epoch <= epoch[key[2]]
    BY <1>3 DEF PoolInv, Epochs
  <2>2. cl[c].epoch \in Nat /\ epoch[key[2]] \in Nat
    BY <1>1, <1>7 DEF TypeOK, ClientState, WorkerState
  <2> QED
    BY <1>7, <1>9, <1>10, <2>1, <2>2
<1>17. \A d \in Client : cl'[d].pc \in Holding =>
          IF d = c THEN cl'[d].w = w
          ELSE /\ cl[d].pc \in Holding /\ cl'[d].w = cl[d].w
               /\ cl'[d].sig = cl[d].sig /\ cl'[d].epoch = cl[d].epoch
  BY <1>10
<1>18. c \in Client =>
          /\ w \in Worker /\ wk'[w].task # "free"
          /\ \A d \in Client : ~Holds(d, w)
          /\ ~InDeque(w)'
          /\ wk'[w].sig = cl'[c].sig /\ wk'[w].epoch >= cl'[c].epoch
  BY <1>5, <1>7, <1>9, <1>16 DEF Referenced
<1>19. CountersExact' /\ \A x \in Key : Thinner(idle'[x], idle[x])
  BY <1>4, <1>11
<1> QED
  BY <1>12, <1>14, <1>15, <1>17, <1>18, <1>19, Stepping

\* Every outcome of acquire.
LEMMA AcquireStep ==
    ASSUME PoolInv, NEW c \in Client, Acquire(c)
    PROVE  PoolInv'
BY AcquireCases, AcquireClosing, AcquireIdle, AcquireNew, AcquireFull

-----------------------------------------------------------------------------
(* Settings, cache and shutdown *)

\* The steps that touch neither workers, nor deques, nor requests.
LEMMA SettingsStep ==
    ASSUME PoolInv, NEW s \in Server, Edit(s) \/ DropTools(s) \/ ToolsExpire(s)
    PROVE  PoolInv'
<1>1. TypeOK /\ CountersExact
  BY DEF PoolInv
<1>2. UNCHANGED <<wk, poolVars, idle, closing, cl, epoch, cancels>>
  BY DEF Edit, DropTools, ToolsExpire, dbVars
<1>3. TypeOK'
  <2>1. CASE Edit(s)
    <3>1. /\ config' \in [Server -> Sig] /\ edits' \in Nat
          /\ stale' \in [Server -> {"edited", "dropped", "done"}] /\ tools' = tools
      BY <1>1, <2>1 DEF Edit, TypeOK
    <3> QED
      BY <1>1, <1>2, <3>1 DEF TypeOK, poolVars
  <2>2. CASE DropTools(s)
    <3>1. /\ config' = config /\ edits' = edits
          /\ stale' \in [Server -> {"edited", "dropped", "done"}]
          /\ tools' \in [Server -> Sig \cup {NoTools}]
      BY <1>1, <2>2 DEF DropTools, TypeOK
    <3> QED
      BY <1>1, <1>2, <3>1 DEF TypeOK, poolVars
  <2>3. CASE ToolsExpire(s)
    <3>1. /\ config' = config /\ edits' = edits /\ stale' = stale
          /\ tools' \in [Server -> Sig \cup {NoTools}]
      BY <1>1, <2>3 DEF ToolsExpire, TypeOK, dbVars
    <3> QED
      BY <1>1, <1>2, <3>1 DEF TypeOK, poolVars
  <2> QED
    BY <2>1, <2>2, <2>3
<1>4. CountersExact'
  BY <1>1, <1>2, CountersSame
<1>5. \A k \in Key : Thinner(idle'[k], idle[k])
  BY <1>2, ThinnerSame
<1>6. \A w \in Worker : Kept(w)
  BY <1>2 DEF Kept
<1>7. \A c \in Client : KeepsOn(c)
  BY <1>2 DEF KeepsOn
<1> QED
  BY <1>2, <1>3, <1>4, <1>5, <1>6, <1>7, Calm

\* Shutting down cancels tasks and takes nothing from anybody.
LEMMA ShutdownStep ==
    ASSUME PoolInv, ShutdownPool
    PROVE  PoolInv'
<1>1. TypeOK /\ CountersExact
  BY DEF PoolInv
<1>2. UNCHANGED <<poolVars, idle, cl, dbVars, tools>> /\ closing' = TRUE
  BY DEF ShutdownPool
<1>3. ASSUME NEW w \in Worker
      PROVE  /\ wk'[w] \in WorkerState
             /\ wk'[w].key = wk[w].key /\ wk'[w].sig = wk[w].sig /\ wk'[w].epoch = wk[w].epoch
             /\ wk'[w].gone = wk[w].gone /\ wk'[w].task = wk[w].task
  <2>1. wk[w] \in WorkerState
    BY <1>1 DEF TypeOK
  <2>2. wk'[w] = wk[w] \/ wk'[w] = [wk[w] EXCEPT !.cancel = TRUE]
    BY DEF ShutdownPool
  <2> QED
    BY <2>1, <2>2 DEF WorkerState
<1>4. wk' \in [Worker -> WorkerState]
  <2>1. wk' = [w \in Worker |-> wk'[w]]
    BY DEF ShutdownPool
  <2> QED
    BY <1>3, <2>1
<1>5. TypeOK'
  BY <1>1, <1>2, <1>4 DEF TypeOK, poolVars, dbVars
<1>6. CountersExact'
  BY <1>1, <1>2, <1>3, CountersSame
<1>7. \A k \in Key : Thinner(idle'[k], idle[k])
  BY <1>2, ThinnerSame
<1>8. \A w \in Worker : Kept(w)
  BY <1>3 DEF Kept
<1>9. \A c \in Client : KeepsOn(c)
  BY <1>2 DEF KeepsOn
<1> QED
  BY <1>2, <1>5, <1>6, <1>7, <1>8, <1>9, Calm DEF dbVars

\* An invalidation leaves no counted worker of the server, so those that stay are as
\* old as the count of invalidations of theirs.
LEMMA InvalidateStep ==
    ASSUME PoolInv, NEW s \in Server, Invalidate(s)
    PROVE  PoolInv'
<1>1. TypeOK /\ CountersExact
  BY DEF PoolInv
<1>2. PICK S \in SUBSET Worker : S = Victims(s)
  BY <1>1 DEF Victims, TypeOK
<1>3. /\ stale' = [stale EXCEPT ![s] = "done"]
      /\ epoch' = [epoch EXCEPT ![s] = epoch[s] + 1]
      /\ idle' = [k \in Key |-> Without(idle[k], S)]
      /\ wk' = [w \in Worker |-> IF w \in S THEN Killed(wk[w]) ELSE wk[w]]
      /\ Uncount(S)
      /\ UNCHANGED <<closing, cl, config, edits, cancels, tools>>
  BY <1>2 DEF Invalidate
<1>4. \A w \in Worker : w \in S <=> ~wk[w].gone /\ wk[w].key[2] = s
  BY <1>1, <1>2 DEF Victims, CountersExact
<1>5. ASSUME NEW w \in Worker
      PROVE  /\ wk'[w] \in WorkerState
             /\ wk'[w].key = wk[w].key /\ wk'[w].sig = wk[w].sig /\ wk'[w].epoch = wk[w].epoch
             /\ wk'[w].gone = (wk[w].gone \/ w \in S) /\ wk'[w].task = wk[w].task
  <2>1. wk[w] \in WorkerState
    BY <1>1 DEF TypeOK
  <2>2. CASE w \in S
    <3> DEFINE cancel == wk[w].cancel \/ wk[w].task \notin {"free", "ended"}
    <3>1. wk'[w] = [wk[w] EXCEPT !.gone = TRUE, !.cancel = cancel]
      BY <1>3, <2>2 DEF Killed
    <3>2. cancel \in BOOLEAN
      BY <2>1 DEF WorkerState
    <3> HIDE DEF cancel
    <3> QED
      BY <2>1, <2>2, <3>1, <3>2 DEF WorkerState
  <2>3. CASE w \notin S
    BY <1>3, <2>1, <2>3 DEF WorkerState
  <2> QED
    BY <2>2, <2>3
<1>6. wk' \in [Worker -> WorkerState]
  <2>1. wk' = [w \in Worker |-> wk'[w]]
    BY <1>3
  <2> QED
    BY <1>5, <2>1
<1>7. idle' \in [Key -> Seq(Worker)] /\ \A k \in Key : Thinner(idle'[k], idle[k])
  <2>1. ASSUME NEW k \in Key
        PROVE  idle'[k] \in Seq(Worker) /\ Thinner(idle'[k], idle[k])
    <3>1. idle[k] \in Seq(Worker)
      BY <1>1 DEF TypeOK
    <3>2. idle'[k] = Without(idle[k], S)
      BY <1>3
    <3>3. Without(idle[k], S) \in Seq(Worker) /\ Thinner(Without(idle[k], S), idle[k])
      BY <3>1, WithoutRest
    <3> QED
      BY <3>2, <3>3
  <2>2. idle' = [k \in Key |-> idle'[k]]
    BY <1>3
  <2> QED
    BY <2>1, <2>2
<1>8. /\ CountersExact' /\ all' \in SUBSET Worker
      /\ perKey' \in [Key -> Nat] /\ perUser' \in [User -> Nat] /\ total' \in Nat
  BY <1>1, <1>3, <1>5, Uncounting
<1>9. epoch' \in [Server -> Nat] /\ epoch'[s] = epoch[s] + 1
      /\ \A x \in Server : x # s => epoch'[x] = epoch[x]
  BY <1>1, <1>3 DEF TypeOK
<1>10. TypeOK'
  BY <1>1, <1>3, <1>6, <1>7, <1>8, <1>9 DEF TypeOK
<1>11. Epochs'
  <2>1. ASSUME NEW w \in Worker, ~wk'[w].gone
        PROVE  wk'[w].epoch = epoch'[wk'[w].key[2]]
    <3>1. ~wk[w].gone /\ wk[w].key[2] # s /\ wk[w].key[2] \in Server
      <4>1. wk[w].key \in Key
        BY <1>1 DEF TypeOK, WorkerState
      <4> QED
        BY <1>4, <1>5, <2>1, <4>1, Choices
    <3>2. wk[w].epoch = epoch[wk[w].key[2]]
      BY <3>1 DEF PoolInv, Epochs
    <3> QED
      BY <1>5, <1>9, <3>1, <3>2
  <2>2. ASSUME NEW c \in Client
        PROVE  cl'[c].epoch <= epoch'[cl'[c].key[2]]
    <3>1. cl'[c] = cl[c] /\ cl[c].epoch \in Nat /\ cl[c].key[2] \in Server
      <4>1. cl[c].epoch \in Nat /\ cl[c].key \in Key
        BY <1>1 DEF TypeOK, ClientState
      <4> QED
        BY <1>3, <4>1, Choices
    <3>2. cl[c].epoch <= epoch[cl[c].key[2]]
      BY DEF PoolInv, Epochs
    <3>3. epoch[s] \in Nat
      BY <1>1 DEF TypeOK
    <3> QED
      BY <1>9, <3>1, <3>2, <3>3
  <2> QED
    BY <2>1, <2>2 DEF Epochs
<1>12. \A w \in Worker : Kept(w)
  BY <1>5 DEF Kept
<1>13. \A c \in Client : cl'[c].pc \in Holding =>
          c # NoClient /\ cl[c].pc \in Holding /\ cl'[c].w = cl[c].w
          /\ cl'[c].sig = cl[c].sig /\ cl'[c].epoch = cl[c].epoch
  BY <1>3, PoolAssumption
<1>14. NoClient \notin Client
  BY PoolAssumption
<1> QED
  BY <1>7, <1>8, <1>10, <1>11, <1>12, <1>13, <1>14, Stepping

-----------------------------------------------------------------------------
(* The theorems *)

\* The pool begins with the invariant.
LEMMA PoolInit == Init => PoolInv
<1> SUFFICES ASSUME Init PROVE PoolInv
  OBVIOUS
<1>1. \A k \in Key : idle[k] = <<>> /\ DOMAIN idle[k] = {}
  BY ThinnerEmpty DEF Init
<1>2. /\ \A w \in Worker : wk[w] = FreeWorker
      /\ \A c \in Client : cl[c] = NewClient /\ cl[c].pc = "start"
  BY NewClientType DEF Init
<1>3. TypeOK
  <2>1. wk \in [Worker -> WorkerState] /\ cl \in [Client -> ClientState]
    BY FreeWorkerType, NewClientType DEF Init
  <2>2. idle \in [Key -> Seq(Worker)]
    BY EmptySeq DEF Init
  <2>3. config \in [Server -> Sig]
    BY Choices DEF Init
  <2> QED
    BY <2>1, <2>2, <2>3 DEF Init, TypeOK
<1>4. \A c \in Client, w \in Worker : ~Holds(c, w)
  BY <1>2 DEF Holds
<1>5. \A w \in Worker : ~Referenced(w)
  BY <1>1, <1>4 DEF Referenced, InDeque, Elements
<1>6. CountersExact
  <2>1. all = {} /\ all = {w \in Worker : ~wk[w].gone}
    BY <1>2, FreeWorkerType DEF Init
  <2>2. \A k \in Key : OfKey(all, k) = {}
    BY <2>1 DEF OfKey
  <2>3. \A u \in User : OfUser(all, u) = {}
    BY <2>1 DEF OfUser
  <2>4. Cardinality({}) = 0
    BY FS_EmptySet
  <2>5. PerKey \in Nat /\ PerUser \in Nat /\ MaxTotal \in Nat
    BY PoolAssumption
  <2>6. /\ \A k \in Key : perKey[k] = 0
        /\ \A u \in User : perUser[u] = 0
        /\ total = 0
    BY DEF Init
  <2>7. \A k \in Key : perKey[k] = Cardinality(OfKey(all, k)) /\ perKey[k] <= PerKey
    BY <2>2, <2>4, <2>5, <2>6
  <2>8. \A u \in User : perUser[u] = Cardinality(OfUser(all, u)) /\ perUser[u] <= PerUser
    BY <2>3, <2>4, <2>5, <2>6
  <2>9. total = Cardinality(all) /\ total <= MaxTotal
    BY <2>1, <2>4, <2>5, <2>6
  <2> QED
    BY <2>1, <2>7, <2>8, <2>9 DEF CountersExact
<1>7. ExclusiveCheckout /\ LeaseIsFresh
  BY <1>1, <1>4 DEF ExclusiveCheckout, LeaseIsFresh
<1>8. FreeIsGone /\ HeldIsWorker
  BY <1>2, <1>5, FreeWorkerType DEF FreeIsGone, HeldIsWorker
<1>9. Epochs
  <2>1. NewClient.epoch = 0 /\ NewClient.key[2] \in Server
    BY NewClientType, Choices DEF ClientState
  <2> QED
    BY <1>2, <2>1, FreeWorkerType DEF Init, Epochs
<1> QED
  BY <1>3, <1>6, <1>7, <1>8, <1>9 DEF PoolInv

\* Every step keeps the invariant.
LEMMA PoolNext ==
    ASSUME PoolInv, [Next]_vars
    PROVE  PoolInv'
<1>1. CASE UNCHANGED vars
  <2>1. /\ wk' = wk /\ all' = all /\ perKey' = perKey /\ perUser' = perUser /\ total' = total
        /\ idle' = idle /\ closing' = closing /\ cl' = cl /\ config' = config
        /\ stale' = stale /\ epoch' = epoch /\ edits' = edits /\ cancels' = cancels
        /\ tools' = tools
    BY <1>1 DEF vars, poolVars
  <2>2. TypeOK' /\ CountersExact'
    BY <2>1 DEF PoolInv, TypeOK, CountersExact, OfKey, OfUser
  <2>3. \A k \in Key : Thinner(idle'[k], idle[k])
    BY <2>1, ThinnerSame
  <2> QED
    BY <2>1, <2>2, <2>3, Calm DEF Kept, KeepsOn
<1>2. CASE \E c \in Client : Request(c)
  BY <1>2, ResolveStep, ServedFromCacheStep, AcquireStep, SubmitStep, ReleaseStep DEF Request
<1>3. CASE \E w \in Worker : Work(w)
  BY <1>3, WorkStep
<1>4. CASE \E s \in Server : Edit(s) \/ DropTools(s) \/ Invalidate(s) \/ ToolsExpire(s)
  BY <1>4, SettingsStep, InvalidateStep
<1>5. CASE ShutdownPool
  BY <1>5, ShutdownStep
<1> QED
  BY <1>1, <1>2, <1>3, <1>4, <1>5 DEF Next

\* The inductive invariant holds in every reachable state of the pool.
THEOREM PoolInvariant == Spec => []PoolInv
BY PoolInit, PoolNext, PTL DEF Spec

\* Workers, requests, deques and counters keep their types: no counter gets negative,
\* so the max(0, .) of _uncount_locked never acts.
THEOREM PoolTypes == Spec => []TypeOK
BY PoolInvariant, PTL DEF PoolInv

\* The three counters are the sizes of _all and its parts, and the limits hold, whatever
\* order kills, ends of tasks, idle retirements and releases come in.
THEOREM CountersAreExact == Spec => []CountersExact
BY PoolInvariant, PTL DEF PoolInv

\* A worker is in the hands of one request, or in its own deque once, never both.
THEOREM CheckoutIsExclusive == Spec => []ExclusiveCheckout
BY PoolInvariant, PTL DEF PoolInv

\* No request is served by a session older than an invalidation it came after, nor
\* under other settings than it resolved.
THEOREM LeasesAreFresh == Spec => []LeaseIsFresh
BY PoolInvariant, PTL DEF PoolInv

-----------------------------------------------------------------------------
(* The pool implements SessionPool *)

\* The leases of SessionPool, as Promise reads them off the requests.
Hands == [c \in Client |-> IF cl[c].pc \in {"looking", "waiting", "caching"}
                           THEN cl[c].w ELSE NoWorker]

SameLease(c) ==
    IF cl[c].pc \in Holding THEN cl'[c].pc \in Holding /\ cl'[c].w = cl[c].w
    ELSE cl'[c].pc \notin Holding

\* The promise sees a worker in the hands of the request that holds it.
LEMMA HandsAre ==
    /\ \A c \in Client : Hands[c] = IF cl[c].pc \in Holding THEN cl[c].w ELSE NoWorker
    /\ PoolInv => Hands \in [Client -> Worker \cup {NoWorker}]
    /\ PoolInv => \A c \in Client, w \in Worker : Hands[c] = w <=> Holds(c, w)
<1>1. \A c \in Client : Hands[c] = IF cl[c].pc \in Holding THEN cl[c].w ELSE NoWorker
  BY DEF Hands, Holding
<1>2. ASSUME PoolInv
      PROVE  Hands \in [Client -> Worker \cup {NoWorker}]
  BY <1>2 DEF PoolInv, HeldIsWorker, Hands
<1>3. \A c \in Client, w \in Worker : Hands[c] = w <=> Holds(c, w)
  BY <1>1, PoolAssumption DEF Holds, Holding
<1> QED
  BY <1>1, <1>2, <1>3

\* A step that moves no lease and adds no session.
LEMMA NoLeaseMoves ==
    ASSUME \A c \in Client : SameLease(c), all' \in SUBSET all
    PROVE  Promise!Drop
<1>1. \A c \in Client : (IF cl'[c].pc \in {"looking", "waiting", "caching"}
                         THEN cl'[c].w ELSE NoWorker)
                      = (IF cl[c].pc \in {"looking", "waiting", "caching"}
                         THEN cl[c].w ELSE NoWorker)
  BY DEF SameLease, Holding
<1>2. Hands' = Hands
  BY <1>1 DEF Hands
<1> QED
  BY <1>2 DEF Promise!Drop, Hands

\* Workers that are taken off the counts leave the pool.
LEMMA UncountShrinks ==
    ASSUME NEW S, Uncount(S)
    PROVE  all' \in SUBSET all
BY DEF Uncount

\* Workers, settings and shutdown move no lease.
LEMMA WorkDrops ==
    ASSUME PoolInv, NEW w \in Worker, Work(w)
    PROVE  Promise!Drop
<1>1. \A c \in Client : cl[c] \in ClientState
  BY DEF PoolInv, TypeOK
<1>2. ASSUME NEW err, Ends(w, err)
      PROVE  Promise!Drop
  <2>1. \A c \in Client : cl'[c].pc = cl[c].pc /\ cl'[c].w = cl[c].w
    BY <1>1, <1>2 DEF Ends, Rejected, ClientState
  <2>2. all' \in SUBSET all
    BY <1>2, UncountShrinks DEF Ends
  <2> QED
    BY <2>1, <2>2, NoLeaseMoves DEF SameLease
<1>3. ASSUME NEW fut, Resolved(w, fut), UNCHANGED poolVars
      PROVE  Promise!Drop
  <2>1. \A c \in Client : cl'[c].pc = cl[c].pc /\ cl'[c].w = cl[c].w
    BY <1>1, <1>3 DEF Resolved, ClientState
  <2> QED
    BY <1>3, <2>1, NoLeaseMoves DEF SameLease, poolVars
<1>4. ASSUME cl' = cl, all' \in SUBSET all
      PROVE  Promise!Drop
  BY <1>4, NoLeaseMoves DEF SameLease
<1>5. CASE Starts(w) \/ NeverStarts(w) \/ Opened(w) \/ Takes(w) \/ Ages(w)
  BY <1>4, <1>5 DEF Starts, NeverStarts, Opened, Takes, Ages, poolVars
<1>6. CASE OpenFails(w) \/ SessionClosed(w)
  BY <1>2, <1>6 DEF OpenFails, SessionClosed
<1>7. CASE OpDone(w)
  BY <1>3, <1>7 DEF OpDone
<1>8. CASE IdleTooLong(w)
  BY <1>4, <1>8, UncountShrinks DEF IdleTooLong
<1>9. CASE Cancelled(w)
  <2>1. \/ Resolved(w, "cancelled") /\ UNCHANGED poolVars
        \/ cl' = cl /\ UNCHANGED poolVars
        \/ Ends(w, "cancelled")
    BY <1>9 DEF Cancelled
  <2> QED
    BY <1>2, <1>3, <1>4, <2>1 DEF poolVars
<1> QED
  BY <1>5, <1>6, <1>7, <1>8, <1>9 DEF Work

\* Settings, cache and shutdown give no lease.
LEMMA SettingsDrop ==
    ASSUME ShutdownPool \/ \E s \in Server : Edit(s) \/ DropTools(s) \/ Invalidate(s) \/ ToolsExpire(s)
    PROVE  Promise!Drop
<1>1. cl' = cl /\ all' \in SUBSET all
  BY UncountShrinks DEF ShutdownPool, Edit, DropTools, Invalidate, ToolsExpire, poolVars
<1> QED
  BY <1>1, NoLeaseMoves DEF SameLease

\* Requests that neither take nor give back.
LEMMA RequestDrops ==
    ASSUME PoolInv, NEW c \in Client,
           \/ Resolve(c) \/ CacheHit(c) \/ CacheMiss(c) \/ DirectDone(c) \/ Listed(c) \/ Submit(c)
           \/ /\ cl[c].pc \in {"missed", "resolved"}
              /\ Closes(c) \/ HasNoRoom(c)
    PROVE  Promise!Drop
<1>1. \A d \in Client : cl[d] \in ClientState
  BY DEF PoolInv, TypeOK
<1>2. \A d \in Client : d # c => cl'[d] = cl[d]
  BY <1>1 DEF PoolInv, TypeOK, Resolve, CacheHit, CacheMiss, DirectDone, Listed, Submit, Closes,
              HasNoRoom, GoDirect
<1>3. cl \in [Client -> ClientState]
  BY DEF PoolInv, TypeOK
<1>4. SameLease(c)
  <2>1. CASE Resolve(c)
    <3>1. PICK k \in Key, op \in {"call", "list", "refresh"} :
              cl' = [cl EXCEPT ![c] = [NewClient EXCEPT
                        !.pc = "resolved", !.key = k, !.sig = config[k[2]],
                        !.epoch = epoch[k[2]], !.op = op]]
      BY <2>1 DEF Resolve
    <3>2. cl'[c].pc = "resolved"
      BY <1>3, <3>1, NewClientType DEF ClientState
    <3>3. cl[c].pc = "start"
      BY <2>1 DEF Resolve
    <3> QED
      BY <3>2, <3>3 DEF SameLease, Holding
  <2>2. CASE CacheHit(c) \/ DirectDone(c)
    BY <1>3, <2>2, NewClientType DEF CacheHit, DirectDone, SameLease, Holding
  <2>3. CASE CacheMiss(c)
    BY <1>1, <1>3, <2>3 DEF CacheMiss, SameLease, Holding, ClientState
  <2>4. CASE Listed(c) \/ Submit(c)
    BY <1>1, <1>3, <2>4 DEF Listed, Submit, SameLease, Holding, ClientState
  <2>5. CASE cl[c].pc \in {"missed", "resolved"} /\ GoDirect(c)
    BY <1>1, <1>3, <2>5 DEF GoDirect, SameLease, Holding, ClientState
  <2> QED
    BY <2>1, <2>2, <2>3, <2>4, <2>5 DEF Closes, HasNoRoom
<1>5. all' \in SUBSET all
  BY UncountShrinks DEF Resolve, CacheHit, CacheMiss, DirectDone, Listed, Submit, Closes,
     HasNoRoom, poolVars
<1> QED
  BY <1>2, <1>4, <1>5, NoLeaseMoves DEF SameLease

\* A release, whether the worker is kept or killed, is a return.
LEMMA ReleaseReturns ==
    ASSUME PoolInv, NEW c \in Client, NEW broken \in BOOLEAN, cl[c].pc \in Holding,
           Release(c, broken)
    PROVE  Promise!Return(c)
<1>1. PICK w \in Worker : cl[c].w = w
  BY DEF PoolInv, HeldIsWorker, Holding
<1>2. cl \in [Client -> ClientState] /\ cl' = [cl EXCEPT ![c] = NewClient]
  BY DEF PoolInv, TypeOK, Release
<1>3. Hands[c] = w /\ w # NoWorker
  BY <1>1, HandsAre, PoolAssumption
<1>4. Hands' = [Hands EXCEPT ![c] = NoWorker]
  BY <1>2, NewClientType DEF Hands
<1>5. all' \in {all, all \ {w}}
  <2>1. CASE UNCHANGED poolVars
    BY <2>1 DEF poolVars
  <2>2. CASE Uncount({w})
    BY <2>2 DEF Uncount, Counted
  <2> QED
    BY <1>1, <2>1, <2>2 DEF Release
<1> QED
  BY <1>3, <1>4, <1>5 DEF Promise!Return, Hands

\* The promise counts with the same cardinality as the pool.
LEMMA SameCardinality == \A S : Promise!Cardinality(S) = Cardinality(S)
  BY DEF Promise!Cardinality, Cardinality

\* A lease is of a session that is kept and nobody's, or of a new one for which there
\* is room; what is dropped on the way was nobody's.
LEMMA AcquireTakes ==
    ASSUME PoolInv, PoolInv', NEW c \in Client, cl[c].pc \in {"missed", "resolved"},
           NEW w \in Worker,
           \/ TakesIdle(c) /\ w = idle[cl[c].key][FirstAt(c)]
           \/ TakesNew(c, w)
    PROVE  Promise!Take(c, w)
<1>1. TypeOK /\ cl[c] \in ClientState
  BY DEF PoolInv, TypeOK
<1>2. PICK S \in SUBSET Worker : S = Skipped(c)
  BY <1>1, SkippedType
<1>3. /\ \A v \in S : InDeque(v)
      /\ TakesIdle(c) => InDeque(w) /\ w \notin S
  <2>1. \A v \in Skipped(c) : InDeque(v)
    BY SkippedLeave
  <2>2. ASSUME TakesIdle(c)
        PROVE  InDeque(w) /\ w \notin S
    <3>1. UsableAt(c) # {}
      BY <2>2 DEF TakesIdle
    <3>2. w = idle[cl[c].key][FirstAt(c)]
      BY <2>2, <3>1 DEF TakesNew
    <3> QED
      BY <1>2, <2>2, <3>1, <3>2, SkippedLeave
  <2> QED
    BY <1>2, <2>1, <2>2
<1>4. TakesNew(c, w) => wk[w].gone /\ ~Referenced(w) /\ w \notin S
  <2>1. TakesNew(c, w) => wk[w].task = "free"
    BY DEF TakesNew
  <2>2. wk[w].task = "free" => wk[w].gone /\ ~Referenced(w)
    BY DEF PoolInv, FreeIsGone
  <2> QED
    BY <1>3, <2>1, <2>2 DEF Referenced
<1>5. \A d \in Client : ~Holds(d, w)
  BY <1>3, <1>4 DEF PoolInv, ExclusiveCheckout, Referenced
<1>6. Hands[c] = NoWorker /\ \A d \in Client : Hands[d] # w
  BY <1>5, HandsAre DEF Holding
<1>7. Hands' = [Hands EXCEPT ![c] = w]
  <2>1. Lease(c, w)
    BY DEF TakesIdle, TakesNew
  <2>2. /\ \A d \in Client : d # c => cl'[d] = cl[d]
        /\ cl'[c].w = w /\ cl'[c].pc \in Holding
    BY <1>1, <2>1, LeaseType
  <2> QED
    BY <2>2 DEF Hands, Holding
<1> DEFINE D == Counted(S)
           leased == {Hands[d] : d \in Client} \ {NoWorker}
<1>8. D \in SUBSET (all \ leased) /\ w \notin D
  <2>1. all = {v \in Worker : ~wk[v].gone}
    BY DEF PoolInv, CountersExact
  <2>2. ASSUME NEW v \in S, NEW d \in Client
        PROVE  Hands[d] # v
    BY <1>3, HandsAre DEF PoolInv, ExclusiveCheckout
  <2> QED
    BY <1>3, <1>4, <2>1, <2>2 DEF Counted
<1>9. all' = (all \ D) \cup {w} /\ (w \in all \/ Cardinality(all') <= MaxTotal)
  <2>1. CASE TakesIdle(c)
    <3>1. all' = all \ D
      BY <1>2, <2>1 DEF TakesIdle, Uncount
    <3>2. w \in all
      <4>1. Usable(w, cl[c].sig)
        BY <1>1, <1>3, <2>1, SkippedType DEF TakesIdle, TakesNew, UsableAt
      <4> QED
        BY <4>1 DEF Usable, PoolInv, CountersExact
    <3> QED
      BY <1>8, <3>1, <3>2
  <2>2. CASE TakesNew(c, w)
    <3>1. all' = (all \ D) \cup {w}
      BY <1>2, <2>2 DEF TakesNew, Counts
    <3>2. Cardinality(all') <= MaxTotal
      BY DEF PoolInv, CountersExact
    <3> QED
      BY <3>1, <3>2
  <2> QED
    BY <2>1, <2>2
<1> HIDE DEF D, leased
<1>10. w \notin leased
  BY <1>6 DEF leased
<1>11. \E E \in SUBSET (all \ leased) :
          /\ all' = (all \ E) \cup {w}
          /\ w \notin E
          /\ w \in all \/ Cardinality(all') <= MaxTotal
  BY <1>8, <1>9
<1>12. Promise!Leased = leased
  BY DEF Promise!Leased, Hands, leased
<1>13. \/ ~(Hands[c] = NoWorker /\ w \notin Promise!Leased)
       \/ Hands' # [Hands EXCEPT ![c] = w]
       \/ ~ \E E \in SUBSET (all \ Promise!Leased) :
               /\ all' = (all \ E) \cup {w}
               /\ w \notin E
               /\ w \in all \/ Cardinality(all') <= MaxTotal
       \/ Promise!Take(c, w)
  BY SameCardinality DEF Promise!Take, Hands
<1> QED
  BY <1>6, <1>7, <1>10, <1>11, <1>12, <1>13

\* The initial pool is the promise's initial state.
LEMMA PromiseInit == Init => Promise!Init
<1> SUFFICES ASSUME Init PROVE Promise!Init
  OBVIOUS
<1>1. all = {} /\ \A c \in Client : cl[c].pc = "start"
  BY NewClientType DEF Init
<1>2. Hands = [c \in Client |-> NoWorker]
  BY <1>1 DEF Hands
<1> QED
  BY <1>1, <1>2 DEF Promise!Init, Hands

\* Every step of the pool is a step of the promise or none.
LEMMA PromiseNext ==
    ASSUME PoolInv, PoolInv', [Next]_vars
    PROVE  [Promise!Next]_(Promise!vars)
<1>1. CASE UNCHANGED vars
  BY <1>1 DEF vars, poolVars, Promise!vars
<1>2. ASSUME NEW c \in Client, Request(c)
      PROVE  Promise!Next
  <2>1. CASE \/ Resolve(c) \/ CacheHit(c) \/ CacheMiss(c) \/ DirectDone(c) \/ Listed(c)
             \/ Submit(c)
    BY <2>1, RequestDrops DEF Promise!Next
  <2>2. CASE Acquire(c)
    <3>1. /\ cl[c].pc \in {"missed", "resolved"}
          /\ \/ Closes(c) \/ TakesIdle(c) \/ HasNoRoom(c)
             \/ \E w \in Worker : TakesNew(c, w)
      BY <2>2, AcquireCases
    <3>2. CASE Closes(c) \/ HasNoRoom(c)
      BY <3>1, <3>2, RequestDrops DEF Promise!Next
    <3>3. CASE TakesIdle(c)
      <4>1. PICK w \in Worker : w = idle[cl[c].key][FirstAt(c)]
        BY <3>3, SkippedType DEF PoolInv, UsableAt, TakesIdle
      <4>2. Promise!Take(c, w)
        BY <3>1, <3>3, <4>1, AcquireTakes
      <4> QED
        BY <4>2 DEF Promise!Next
    <3>4. ASSUME NEW w \in Worker, TakesNew(c, w)
          PROVE  Promise!Next
      <4>1. Promise!Take(c, w)
        BY <3>1, <3>4, AcquireTakes
      <4> QED
        BY <4>1 DEF Promise!Next
    <3> QED
      BY <3>1, <3>2, <3>3, <3>4
  <2>3. CASE \/ FoundInCache(c) \/ Answer(c) \/ SetCache(c) \/ Failed(c) \/ Timeout(c)
             \/ CancelRequest(c)
    <3>1. cl[c].pc \in Holding
      BY <2>3 DEF FoundInCache, Answer, SetCache, Failed, Timeout, CancelRequest, Holding
    <3>2. PICK broken \in BOOLEAN : Release(c, broken)
      BY <2>3 DEF FoundInCache, Answer, SetCache, Failed, Timeout, CancelRequest
    <3>3. Promise!Return(c)
      BY <3>1, <3>2, ReleaseReturns
    <3> QED
      BY <3>3 DEF Promise!Next
  <2> QED
    BY <1>2, <2>1, <2>2, <2>3 DEF Request
<1>3. CASE \E w \in Worker : Work(w)
  BY <1>3, WorkDrops DEF Promise!Next
<1>4. CASE \/ ShutdownPool
           \/ \E s \in Server : Edit(s) \/ DropTools(s) \/ Invalidate(s) \/ ToolsExpire(s)
  BY <1>4, SettingsDrop DEF Promise!Next
<1> QED
  BY <1>1, <1>2, <1>3, <1>4 DEF Next

\* The pool keeps its promise: read through the leases, every step of its workers,
\* requests, invalidations and shutdown is a step SessionPool allows.
THEOREM PoolKeepsPromise == Spec => PoolPromise
<1>1. PoolInv /\ PoolInv' /\ [Next]_vars => [Promise!Next]_(Promise!vars)
  BY PromiseNext
<1> QED
  BY <1>1, PromiseInit, PoolInvariant, PTL DEF Spec, PoolPromise, Promise!Spec

-----------------------------------------------------------------------------
(* Operations: a request that waits is served or told *)

\* The request has submitted an operation and has no answer.
Awaits(c) == cl[c].pc = "waiting" /\ cl[c].fut = "pending"

\* What a worker has to do for requests is what requests that hold it await, each once.
OwnAt(w) ==
    /\ \A i \in DOMAIN wk[w].inbox : wk[w].inbox[i] \in Client =>
          Holds(wk[w].inbox[i], w) /\ Awaits(wk[w].inbox[i])
    /\ \A i, j \in DOMAIN wk[w].inbox :
          wk[w].inbox[i] \in Client /\ wk[w].inbox[i] = wk[w].inbox[j] => i = j
    /\ wk[w].cur \in Client =>
          /\ wk[w].task = "op" /\ Holds(wk[w].cur, w) /\ Awaits(wk[w].cur)
          /\ wk[w].cur \notin Elements(wk[w].inbox)

\* The end of a worker is known to the pool before it comes, but for a shutdown.
EndAnnounced(w) == wk[w].cancel \/ wk[w].task = "ended" => wk[w].gone \/ closing

\* A request that waits is being served, is queued for a worker that goes on, or is
\* told by closed that it will not be; a shutdown may forget it.
Served(c) ==
    Awaits(c) => \/ wk[cl[c].w].gone
                 \/ wk[cl[c].w].cur = c
                 \/ c \in Elements(wk[cl[c].w].inbox) /\ (Alive(cl[c].w) \/ closing)

OperationsInv ==
    /\ \A w \in Worker : OwnAt(w) /\ EndAnnounced(w)
    /\ \A c \in Client : Served(c)

\* No operation comes to w.
NoneComes(w) ==
    /\ \A i \in DOMAIN wk'[w].inbox : wk'[w].inbox[i] \in Client =>
          i \in DOMAIN wk[w].inbox /\ wk'[w].inbox[i] = wk[w].inbox[i]
    /\ wk'[w].cur \in Client => wk'[w].cur = wk[w].cur /\ wk'[w].task = "op"

\* A worker to which no operation comes, whose requests go on waiting or are no longer
\* in its inbox.
LEMMA OwnStays ==
    ASSUME NEW w \in Worker, OwnAt(w), NoneComes(w),
           \A d \in Client : /\ Holds(d, w) /\ Awaits(d)
                             /\ d \in Elements(wk'[w].inbox) \/ d = wk'[w].cur
                             => cl'[d] = cl[d]
    PROVE  OwnAt(w)'
<1>1. ASSUME NEW d \in Client, NEW i \in DOMAIN wk'[w].inbox, wk'[w].inbox[i] = d
      PROVE  Holds(d, w)' /\ Awaits(d)'
  <2>1. i \in DOMAIN wk[w].inbox /\ wk[w].inbox[i] = d
    BY <1>1 DEF NoneComes
  <2>2. Holds(d, w) /\ Awaits(d)
    BY <2>1 DEF OwnAt
  <2>3. cl'[d] = cl[d]
    BY <1>1, <2>2 DEF Elements
  <2> QED
    BY <2>2, <2>3 DEF Holds, Awaits
<1>2. \A i, j \in DOMAIN wk'[w].inbox :
          wk'[w].inbox[i] \in Client /\ wk'[w].inbox[i] = wk'[w].inbox[j] => i = j
  BY DEF OwnAt, NoneComes
<1>3. ASSUME NEW d \in Client, d = wk'[w].cur
      PROVE  wk'[w].task = "op" /\ Holds(d, w)' /\ Awaits(d)' /\ d \notin Elements(wk'[w].inbox)
  <2>1. wk[w].cur = d /\ wk'[w].task = "op"
    BY <1>3 DEF NoneComes
  <2>2. Holds(d, w) /\ Awaits(d) /\ d \notin Elements(wk[w].inbox)
    BY <2>1 DEF OwnAt
  <2>3. cl'[d] = cl[d]
    BY <1>3, <2>2
  <2>4. d \notin Elements(wk'[w].inbox)
    BY <2>2 DEF Elements, NoneComes
  <2> QED
    BY <2>1, <2>2, <2>3, <2>4 DEF Holds, Awaits
<1> QED
  BY <1>1, <1>2, <1>3 DEF OwnAt

\* Nothing is queued for or done by a worker nobody holds.
LEMMA UnheldIsFree ==
    ASSUME PoolInv, OperationsInv, NEW w \in Worker, \A c \in Client : ~Holds(c, w)
    PROVE  wk[w].cur \notin Client /\ \A i \in DOMAIN wk[w].inbox : wk[w].inbox[i] \notin Client
BY DEF OperationsInv, OwnAt

\* A request that waits holds a worker.
LEMMA AwaitsHolds ==
    ASSUME PoolInv, NEW c \in Client, Awaits(c)
    PROVE  cl[c].w \in Worker /\ Holds(c, cl[c].w)
BY DEF PoolInv, HeldIsWorker, Awaits, Holds

\* What is known of a request goes on to hold while its worker is gone or goes on.
LEMMA ServedStays ==
    ASSUME OperationsInv, NEW c \in Client, cl'[c] = cl[c], closing => closing',
           Awaits(c) =>
              \/ wk'[cl[c].w].gone
              \/ /\ wk[cl[c].w].gone => wk'[cl[c].w].gone
                 /\ wk[cl[c].w].cur = c => wk'[cl[c].w].cur = c
                 /\ c \in Elements(wk[cl[c].w].inbox) =>
                       \/ c \in Elements(wk'[cl[c].w].inbox)
                       \/ wk'[cl[c].w].cur = c
                 /\ Alive(cl[c].w) => Alive(cl[c].w)' \/ closing'
    PROVE  Served(c)'
BY DEF OperationsInv, Served, Awaits

\* Workers stay as they are and requests that wait do not begin to or stop.
LEMMA NobodyServed ==
    ASSUME PoolInv, OperationsInv, closing => closing',
           \A w \in Worker : /\ wk'[w].inbox = wk[w].inbox /\ wk'[w].cur = wk[w].cur
                             /\ wk'[w].task = wk[w].task /\ wk'[w].gone = wk[w].gone
                             /\ wk'[w].cancel => wk[w].cancel \/ closing',
           \A d \in Client : cl'[d] = cl[d] \/ (~Awaits(d) /\ ~Awaits(d)')
    PROVE  OperationsInv'
<1>1. ASSUME NEW w \in Worker PROVE OwnAt(w)' /\ EndAnnounced(w)'
  <2>1. OwnAt(w) /\ EndAnnounced(w)
    BY DEF OperationsInv
  <2>2. NoneComes(w)
    BY <2>1 DEF NoneComes, OwnAt
  <2> QED
    BY <2>1, <2>2, OwnStays DEF EndAnnounced
<1>2. ASSUME NEW c \in Client PROVE Served(c)'
  <2>1. CASE cl'[c] = cl[c]
    BY <2>1, ServedStays, AwaitsHolds DEF Alive
  <2>2. CASE ~Awaits(c)'
    BY <2>2 DEF Served
  <2> QED
    BY <2>1, <2>2
<1> QED
  BY <1>1, <1>2 DEF OperationsInv

\* Requests that neither submit nor give back, settings and ageing.
LEMMA OthersServe ==
    ASSUME PoolInv, PoolInv', OperationsInv,
           \/ \E c \in Client : \/ Resolve(c) \/ CacheHit(c) \/ CacheMiss(c) \/ DirectDone(c)
                                \/ Listed(c)
                                \/ /\ cl[c].pc \in {"missed", "resolved"}
                                   /\ Closes(c) /\ UNCHANGED <<closing, dbVars, tools>>
           \/ \E s \in Server : Edit(s) \/ DropTools(s) \/ ToolsExpire(s)
           \/ \E w \in Worker : Ages(w) \/ Starts(w) \/ Opened(w)
           \/ ShutdownPool
    PROVE  OperationsInv'
<1>1. TypeOK /\ TypeOK'
  BY DEF PoolInv
<1>2. ASSUME NEW c \in Client, wk' = wk, closing' = closing,
             \/ Resolve(c) \/ CacheHit(c) \/ CacheMiss(c) \/ DirectDone(c) \/ Listed(c)
             \/ cl[c].pc \in {"missed", "resolved"} /\ GoDirect(c)
      PROVE  OperationsInv'
  <2>1. \A d \in Client : d # c => cl'[d] = cl[d]
    BY <1>1, <1>2 DEF TypeOK, Resolve, CacheHit, CacheMiss, DirectDone, Listed, GoDirect
  <2>2. ~Awaits(c)
    BY <1>2 DEF Awaits, Resolve, CacheHit, CacheMiss, DirectDone, Listed
  <2>3. cl'[c].pc # "waiting"
    <3>1. cl[c] \in ClientState /\ cl \in [Client -> ClientState]
      BY <1>1 DEF TypeOK
    <3>2. NewClient.pc = "start"
      BY DEF NewClient
    <3>3. CASE Resolve(c)
      <4>1. PICK k \in Key, op \in {"call", "list", "refresh"} :
                cl' = [cl EXCEPT ![c] = [NewClient EXCEPT
                          !.pc = "resolved", !.key = k, !.sig = config[k[2]],
                          !.epoch = epoch[k[2]], !.op = op]]
        BY <3>3 DEF Resolve
      <4> QED
        BY <3>1, <4>1 DEF NewClient
    <3>4. CASE CacheHit(c) \/ DirectDone(c)
      <4>1. cl'[c] = NewClient
        BY <3>1, <3>4 DEF CacheHit, DirectDone
      <4> QED
        BY <3>2, <4>1
    <3>5. CASE CacheMiss(c) \/ Listed(c) \/ GoDirect(c)
      BY <3>1, <3>5 DEF CacheMiss, Listed, GoDirect, ClientState
    <3> QED
      BY <1>2, <3>3, <3>4, <3>5
  <2> QED
    BY <1>2, <2>1, <2>2, <2>3, NobodyServed DEF Awaits
<1>3. ASSUME NEW c \in Client,
             \/ Resolve(c) \/ CacheHit(c) \/ CacheMiss(c) \/ DirectDone(c) \/ Listed(c)
             \/ /\ cl[c].pc \in {"missed", "resolved"}
                /\ Closes(c) /\ UNCHANGED <<closing, dbVars, tools>>
      PROVE  OperationsInv'
  BY <1>2, <1>3 DEF Resolve, CacheHit, CacheMiss, DirectDone, Listed, Closes
<1>4. ASSUME NEW s \in Server, Edit(s) \/ DropTools(s) \/ ToolsExpire(s)
      PROVE  OperationsInv'
  <2>1. wk' = wk /\ cl' = cl /\ closing' = closing
    BY <1>4 DEF Edit, DropTools, ToolsExpire
  <2> QED
    BY <2>1, NobodyServed
<1>5. ASSUME NEW w \in Worker, Ages(w)
      PROVE  OperationsInv'
  <2>1. /\ wk' = [wk EXCEPT ![w].old = TRUE] /\ cl' = cl /\ closing' = closing
        /\ wk \in [Worker -> WorkerState]
    BY <1>1, <1>5 DEF Ages, TypeOK
  <2>2. \A v \in Worker : /\ wk'[v].inbox = wk[v].inbox /\ wk'[v].cur = wk[v].cur
                          /\ wk'[v].task = wk[v].task /\ wk'[v].gone = wk[v].gone
                          /\ wk'[v].cancel = wk[v].cancel
    BY <2>1 DEF WorkerState
  <2> QED
    BY <2>1, <2>2, NobodyServed
<1>6. ASSUME ShutdownPool
      PROVE  OperationsInv'
  <2>1. /\ wk' = [w \in Worker |-> IF w \in all /\ Alive(w)
                                   THEN [wk[w] EXCEPT !.cancel = TRUE] ELSE wk[w]]
        /\ cl' = cl /\ closing' = TRUE /\ wk \in [Worker -> WorkerState]
    BY <1>1, <1>6 DEF ShutdownPool, TypeOK
  <2>2. \A v \in Worker : /\ wk'[v].inbox = wk[v].inbox /\ wk'[v].cur = wk[v].cur
                          /\ wk'[v].task = wk[v].task /\ wk'[v].gone = wk[v].gone
    BY <2>1 DEF WorkerState
  <2> QED
    BY <2>1, <2>2, NobodyServed
<1>7. ASSUME NEW w \in Worker, Starts(w) \/ Opened(w)
      PROVE  OperationsInv'
  <2>1. PICK t \in {"opening", "waiting"} :
            /\ wk' = [wk EXCEPT ![w].task = t] /\ cl' = cl /\ closing' = closing
            /\ wk \in [Worker -> WorkerState] /\ wk[w].task \in {"new", "opening"}
    BY <1>1, <1>7 DEF Starts, Opened, TypeOK
  <2>2. /\ wk'[w].inbox = wk[w].inbox /\ wk'[w].cur = wk[w].cur /\ wk'[w].task = t
        /\ wk'[w].gone = wk[w].gone /\ wk'[w].cancel = wk[w].cancel
        /\ \A v \in Worker : v # w => wk'[v] = wk[v]
    BY <2>1 DEF WorkerState
  <2>3. ASSUME NEW v \in Worker PROVE OwnAt(v)' /\ EndAnnounced(v)'
    <3>1. OwnAt(v) /\ EndAnnounced(v)
      BY DEF OperationsInv
    <3>2. NoneComes(v)
      BY <2>1, <2>2, <3>1 DEF NoneComes, OwnAt
    <3> QED
      BY <2>1, <2>2, <3>1, <3>2, OwnStays DEF EndAnnounced
  <2>4. ASSUME NEW c \in Client PROVE Served(c)'
    BY <2>1, <2>2, ServedStays, AwaitsHolds DEF Alive
  <2> QED
    BY <2>3, <2>4 DEF OperationsInv
<1> QED
  BY <1>3, <1>4, <1>5, <1>6, <1>7

\* A worker that has nothing to do for anybody.
LEMMA NothingToDo ==
    ASSUME NEW w \in Worker, wk'[w].cur \notin Client,
           \A i \in DOMAIN wk'[w].inbox : wk'[w].inbox[i] \notin Client
    PROVE  OwnAt(w)'
BY DEF OwnAt

\* A step of one worker and of the request that holds it.
LEMMA OneServes ==
    ASSUME PoolInv, OperationsInv, NEW w \in Worker, closing' = closing,
           \A v \in Worker : v # w => wk'[v] = wk[v],
           OwnAt(w)', EndAnnounced(w)',
           \A d \in Client : ~Holds(d, w) =>
               cl'[d] = cl[d] \/ (~Awaits(d) /\ ~Awaits(d)'),
           \A d \in Client : Holds(d, w) => Served(d)'
    PROVE  OperationsInv'
<1>1. ASSUME NEW v \in Worker, v # w PROVE OwnAt(v)' /\ EndAnnounced(v)'
  <2>1. OwnAt(v) /\ EndAnnounced(v) /\ wk'[v] = wk[v]
    BY <1>1 DEF OperationsInv
  <2>2. NoneComes(v)
    BY <2>1 DEF NoneComes, OwnAt
  <2>3. \A d \in Client : Holds(d, v) /\ Awaits(d) => cl'[d] = cl[d]
    BY <1>1 DEF Holds
  <2> QED
    BY <2>1, <2>2, <2>3, OwnStays DEF EndAnnounced
<1>2. ASSUME NEW d \in Client PROVE Served(d)'
  <2>1. CASE Holds(d, w)
    BY <2>1
  <2>2. CASE ~Holds(d, w) /\ cl'[d] = cl[d]
    <3>1. Awaits(d) => cl[d].w \in Worker /\ cl[d].w # w
      BY <2>2, AwaitsHolds
    <3> QED
      BY <2>2, <3>1, ServedStays DEF Alive
  <2>3. CASE ~Awaits(d)'
    BY <2>3 DEF Served
  <2> QED
    BY <2>1, <2>2, <2>3
<1> QED
  BY <1>1, <1>2 DEF OperationsInv

\* Of the requests, only one holds the worker.
LEMMA HeldOnce ==
    ASSUME PoolInv, NEW w \in Worker, NEW c \in Client, Holds(c, w), NEW d \in Client, Holds(d, w)
    PROVE  d = c
BY DEF PoolInv, ExclusiveCheckout

\* An operation is submitted to the worker the request holds.
LEMMA SubmitServes ==
    ASSUME PoolInv, PoolInv', OperationsInv, NEW c \in Client, Submit(c)
    PROVE  OperationsInv'
<1>1. PICK w \in Worker : w = cl[c].w
  BY DEF PoolInv, HeldIsWorker, Submit
<1>2. Holds(c, w) /\ ~Awaits(c) /\ cl[c] \in ClientState /\ cl \in [Client -> ClientState]
  BY <1>1 DEF Holds, Awaits, Submit, PoolInv, TypeOK
<1>3. wk \in [Worker -> WorkerState] /\ wk[w] \in WorkerState /\ wk[w].inbox \in Seq(Item)
  BY DEF PoolInv, TypeOK, WorkerState, Item
<1>4. PICK inbox \in Seq(Item) : inbox = Append(wk[w].inbox, c)
  BY <1>3, Appended DEF Item
<1>5. /\ DOMAIN wk[w].inbox \subseteq DOMAIN inbox
      /\ \A i \in DOMAIN inbox :
            \/ i \in DOMAIN wk[w].inbox /\ inbox[i] = wk[w].inbox[i]
            \/ i = Len(wk[w].inbox) + 1 /\ i \notin DOMAIN wk[w].inbox /\ inbox[i] = c
  BY <1>3, <1>4, Appended DEF Item
<1>6. c \in Elements(inbox)
  <2>1. Len(wk[w].inbox) + 1 \in DOMAIN inbox /\ inbox[Len(wk[w].inbox) + 1] = c
    BY <1>3, <1>4, AppendProperties, LenProperties DEF Item
  <2> QED
    BY <2>1 DEF Elements
<1>7. wk' = [wk EXCEPT ![w].inbox = inbox] /\ closing' = closing
      /\ cl' = [cl EXCEPT ![c].pc = "waiting", ![c].fut = "pending"]
  BY <1>1, <1>4 DEF Submit
<1>8. /\ wk'[w].inbox = inbox /\ wk'[w].cur = wk[w].cur /\ wk'[w].task = wk[w].task
      /\ wk'[w].gone = wk[w].gone /\ wk'[w].cancel = wk[w].cancel
      /\ \A v \in Worker : v # w => wk'[v] = wk[v]
  BY <1>3, <1>7 DEF WorkerState
<1>9. /\ cl'[c].pc = "waiting" /\ cl'[c].fut = "pending" /\ cl'[c].w = w
      /\ \A d \in Client : d # c => cl'[d] = cl[d]
  BY <1>1, <1>2, <1>7 DEF ClientState
<1>10. Holds(c, w)' /\ Awaits(c)'
  BY <1>9 DEF Holds, Awaits
<1>11. OwnAt(w) /\ EndAnnounced(w)
  BY DEF OperationsInv
<1>12. wk[w].cur \notin Client /\ \A i \in DOMAIN wk[w].inbox : wk[w].inbox[i] \notin Client
  BY <1>2, <1>11, HeldOnce DEF OwnAt
<1>13. OwnAt(w)'
  <2>1. \A i \in DOMAIN inbox : inbox[i] \in Client => inbox[i] = c /\ i = Len(wk[w].inbox) + 1
    BY <1>5, <1>12
  <2>2. ASSUME NEW i \in DOMAIN wk'[w].inbox, NEW d \in Client, wk'[w].inbox[i] = d
        PROVE  Holds(d, w)' /\ Awaits(d)'
    BY <1>8, <1>10, <2>1, <2>2
  <2> QED
    BY <1>8, <1>12, <2>1, <2>2 DEF OwnAt
<1>14. EndAnnounced(w)'
  BY <1>7, <1>8, <1>11 DEF EndAnnounced
<1>15. \A d \in Client : Holds(d, w) => d = c
  BY <1>2, HeldOnce
<1>16. Served(c)'
  <2>1. wk[w].task # "free"
    BY <1>2 DEF PoolInv, FreeIsGone, Referenced
  <2>2. wk'[w].gone \/ Alive(w)' \/ closing'
    BY <1>7, <1>8, <1>11, <2>1 DEF EndAnnounced, Alive
  <2> QED
    BY <1>6, <1>8, <1>9, <2>2 DEF Served
<1> QED
  BY <1>2, <1>7, <1>8, <1>9, <1>13, <1>14, <1>15, <1>16, OneServes

\* A request that ends its operation leaves nothing behind: what is still queued or
\* under way is nobody's.
LEMMA ReleaseServes ==
    ASSUME PoolInv, PoolInv', OperationsInv, NEW c \in Client, NEW broken \in BOOLEAN,
           cl[c].pc \in Holding, Release(c, broken)
    PROVE  OperationsInv'
<1>1. PICK w \in Worker : w = cl[c].w
  BY DEF PoolInv, HeldIsWorker, Holding
<1>2. Holds(c, w) /\ cl \in [Client -> ClientState]
  BY <1>1 DEF Holds, Holding, PoolInv, TypeOK
<1>3. wk \in [Worker -> WorkerState] /\ wk[w] \in WorkerState
  BY DEF PoolInv, TypeOK
<1>4. PICK r \in WorkerState : r = Orphaned(wk[w], c)
  BY <1>3, OrphanedType
<1>5. OwnAt(w) /\ EndAnnounced(w)
  BY DEF OperationsInv
<1>6. /\ r.task = wk[w].task /\ r.gone = wk[w].gone /\ r.cancel = wk[w].cancel
      /\ r.cur \notin Client /\ \A i \in DOMAIN r.inbox : r.inbox[i] \notin Client
  <2>1. r.task = wk[w].task /\ r.gone = wk[w].gone
    BY <1>3, <1>4, OrphanedType
  <2>2. /\ r.cancel = wk[w].cancel
        /\ r.cur = IF wk[w].cur = c THEN NoClient ELSE wk[w].cur
        /\ r.inbox = [i \in DOMAIN wk[w].inbox |->
                         IF wk[w].inbox[i] = c THEN NoClient ELSE wk[w].inbox[i]]
    BY <1>3, <1>4 DEF Orphaned, WorkerState
  <2>3. \A i \in DOMAIN wk[w].inbox : wk[w].inbox[i] \in Client => wk[w].inbox[i] = c
    BY <1>2, <1>5, HeldOnce DEF OwnAt
  <2>4. wk[w].cur \in Client => wk[w].cur = c
    BY <1>2, <1>5, HeldOnce DEF OwnAt
  <2> QED
    BY <2>1, <2>2, <2>3, <2>4, PoolAssumption
<1>7. PICK q \in WorkerState :
          /\ wk' = [wk EXCEPT ![w] = q]
          /\ q = r \/ (q = Recycled(Killed(r)) /\ q.gone)
  <2>1. CASE KillOnRelease(w, broken)
    <3>1. Killed(r) \in WorkerState /\ Killed(r).gone = TRUE
      <4> DEFINE b == r.cancel \/ r.task \notin {"free", "ended"}
      <4>1. b \in BOOLEAN /\ Killed(r) = [r EXCEPT !.gone = TRUE, !.cancel = b]
        BY <1>4 DEF Killed, WorkerState
      <4> HIDE DEF b
      <4> QED
        BY <1>4, <4>1 DEF WorkerState
    <3>2. Recycled(Killed(r)) \in WorkerState /\ Recycled(Killed(r)).gone
      BY <3>1, FreeWorkerType DEF Recycled
    <3>3. wk' = [wk EXCEPT ![w] = Recycled(Killed(r))]
      BY <1>1, <1>4, <2>1 DEF Release
    <3> QED
      BY <3>2, <3>3
  <2>2. CASE ~KillOnRelease(w, broken)
    BY <1>1, <1>4, <2>2 DEF Release
  <2> QED
    BY <2>1, <2>2
<1>8. wk'[w] = q /\ \A v \in Worker : v # w => wk'[v] = wk[v]
  BY <1>3, <1>7
<1>9. q.cur \notin Client /\ \A i \in DOMAIN q.inbox : q.inbox[i] \notin Client
  <2>1. CASE q = r
    BY <1>6, <2>1
  <2>2. CASE q = FreeWorker
    <3>1. q.cur = NoClient /\ q.inbox = <<>>
      BY <2>2 DEF FreeWorker
    <3> QED
      BY <3>1, PoolAssumption, ThinnerEmpty
  <2>3. CASE q = Killed(r)
    <3>1. q.cur = r.cur /\ q.inbox = r.inbox
      BY <1>4, <2>3 DEF Killed, WorkerState
    <3> QED
      BY <1>6, <3>1
  <2> QED
    BY <1>7, <2>1, <2>2, <2>3 DEF Recycled
<1>10. OwnAt(w)'
  BY <1>8, <1>9, NothingToDo
<1>11. closing' = closing /\ cl' = [cl EXCEPT ![c] = NewClient]
  BY DEF Release
<1>12. EndAnnounced(w)'
  BY <1>5, <1>6, <1>7, <1>8, <1>11 DEF EndAnnounced
<1>13. \A d \in Client : d # c => cl'[d] = cl[d]
  BY <1>2, <1>11
<1>14. \A d \in Client : Holds(d, w) => Served(d)'
  <2>1. cl'[c] = NewClient
    BY <1>2, <1>11
  <2>2. ~Awaits(c)'
    BY <2>1 DEF Awaits, NewClient
  <2> QED
    BY <1>2, <2>2, HeldOnce DEF Served
<1> QED
  BY <1>2, <1>8, <1>10, <1>11, <1>12, <1>13, <1>14, OneServes

\* The ways a request ends its operation.
LEMMA ReturnsServe ==
    ASSUME PoolInv, PoolInv', OperationsInv, NEW c \in Client,
           \/ FoundInCache(c) \/ Answer(c) \/ SetCache(c) \/ Failed(c) \/ Timeout(c)
           \/ CancelRequest(c)
    PROVE  OperationsInv'
<1>1. cl[c].pc \in Holding
  BY DEF FoundInCache, Answer, SetCache, Failed, Timeout, CancelRequest, Holding
<1>2. PICK broken \in BOOLEAN : Release(c, broken)
  BY DEF FoundInCache, Answer, SetCache, Failed, Timeout, CancelRequest
<1> QED
  BY <1>1, <1>2, ReleaseServes

\* The end of a worker's task tells those whose operations it had.
LEMMA EndsServe ==
    ASSUME PoolInv, PoolInv', OperationsInv, NEW w \in Worker, NEW err, Ends(w, err),
           wk[w].cur \notin Client
    PROVE  OperationsInv'
<1>1. wk \in [Worker -> WorkerState] /\ wk[w] \in WorkerState /\ cl \in [Client -> ClientState]
  BY DEF PoolInv, TypeOK
<1>2. PICK q : /\ wk' = [wk EXCEPT ![w] = q]
               /\ q = IF Referenced(w)
                      THEN [wk[w] EXCEPT !.task = "ended", !.gone = TRUE, !.cancel = FALSE,
                                         !.inbox = <<>>, !.cur = NoClient, !.err = err]
                      ELSE FreeWorker
  BY DEF Ends
<1>3. q.gone = TRUE /\ q.inbox = <<>> /\ q.cur = NoClient
  BY <1>1, <1>2 DEF FreeWorker, WorkerState
<1>4. wk'[w] = q /\ \A v \in Worker : v # w => wk'[v] = wk[v]
  BY <1>1, <1>2
<1>5. OwnAt(w)' /\ EndAnnounced(w)'
  BY <1>3, <1>4, NothingToDo, PoolAssumption, ThinnerEmpty DEF EndAnnounced
<1>6. closing' = closing /\ cl' = Rejected(w, err)
  BY DEF Ends
<1>7. \A d \in Client : Elements(wk[w].inbox) \cap {d} # {} => Holds(d, w)
  BY DEF OperationsInv, OwnAt, Elements
<1>8. \A d \in Client : ~Holds(d, w) => cl'[d] = cl[d]
  BY <1>6, <1>7 DEF Rejected
<1>9. ASSUME NEW d \in Client, Holds(d, w) PROVE Served(d)'
  <2>1. cl'[d].w = cl[d].w
    BY <1>1, <1>6 DEF Rejected, ClientState
  <2> QED
    BY <1>3, <1>4, <1>9, <2>1 DEF Served, Holds
<1> QED
  BY <1>4, <1>5, <1>6, <1>8, <1>9, OneServes

\* A worker does something nobody waits for, and goes on or is gone.
LEMMA GoesOnServing ==
    ASSUME PoolInv, OperationsInv, NEW w \in Worker, cl' = cl, closing' = closing,
           \A v \in Worker : v # w => wk'[v] = wk[v],
           wk'[w].inbox = wk[w].inbox, wk'[w].cur = wk[w].cur, wk[w].cur \notin Client,
           wk[w].gone => wk'[w].gone, EndAnnounced(w)',
           Alive(w)' \/ wk'[w].gone \/ closing
    PROVE  OperationsInv'
<1>1. OwnAt(w)
  BY DEF OperationsInv
<1>2. NoneComes(w)
  BY DEF NoneComes
<1>3. OwnAt(w)'
  BY <1>1, <1>2, OwnStays
<1>4. ASSUME NEW d \in Client, Holds(d, w) PROVE Served(d)'
  BY <1>4, ServedStays DEF Holds, Alive
<1> QED
  BY <1>3, <1>4, OneServes

\* The answer of an operation reaches the request that waits for it.
LEMMA AnswerServes ==
    ASSUME PoolInv, PoolInv', OperationsInv, NEW w \in Worker, NEW fut \in {"ok", "failed", "cancelled"},
           Resolved(w, fut), wk[w].task = "op", closing' = closing,
           \A v \in Worker : v # w => wk'[v] = wk[v],
           wk'[w].inbox = wk[w].inbox, wk'[w].cur = NoClient, wk'[w].gone = wk[w].gone,
           wk'[w].cancel => wk[w].cancel, wk'[w].task \in {"waiting", "closing"}
    PROVE  OperationsInv'
<1>1. cl \in [Client -> ClientState]
  BY DEF PoolInv, TypeOK
<1>2. OwnAt(w) /\ EndAnnounced(w)
  BY DEF OperationsInv
<1>3. /\ \A d \in Client : d # wk[w].cur => cl'[d] = cl[d]
      /\ \A d \in Client : d = wk[w].cur => ~Awaits(d)'
  BY <1>1 DEF Resolved, ClientState, Awaits
<1>4. OwnAt(w)'
  <2>1. NoneComes(w)
    BY <1>2, PoolAssumption DEF NoneComes, OwnAt
  <2>2. wk[w].cur \in Client => wk[w].cur \notin Elements(wk[w].inbox)
    BY <1>2 DEF OwnAt
  <2>3. \A d \in Client : d \in Elements(wk'[w].inbox) \/ d = wk'[w].cur => d # wk[w].cur
    BY <2>2, PoolAssumption
  <2> QED
    BY <1>2, <1>3, <2>1, <2>3, OwnStays
<1>5. EndAnnounced(w)'
  BY <1>2 DEF EndAnnounced
<1>6. \A d \in Client : d = wk[w].cur => Holds(d, w)
  BY <1>2 DEF OwnAt
<1>7. ASSUME NEW d \in Client, Holds(d, w) PROVE Served(d)'
  <2>1. CASE d = wk[w].cur
    BY <1>3, <2>1 DEF Served
  <2>2. CASE d # wk[w].cur
    BY <1>3, <1>7, <2>2, ServedStays DEF Holds, Alive
  <2> QED
    BY <2>1, <2>2
<1> QED
  BY <1>3, <1>4, <1>5, <1>6, <1>7, OneServes

\* The next operation, or the end, is taken out of the inbox.
LEMMA TakesServe ==
    ASSUME PoolInv, PoolInv', OperationsInv, NEW w \in Worker, Takes(w)
    PROVE  OperationsInv'
<1>1. wk \in [Worker -> WorkerState] /\ wk[w] \in WorkerState /\ wk[w].inbox \in Seq(Item)
  BY DEF PoolInv, TypeOK, WorkerState, Item
<1>2. PICK rest \in Seq(Item) : rest = Tail(wk[w].inbox)
  BY <1>1, HeadTailProperties DEF Takes
<1>3. PICK item \in Item : item = Head(wk[w].inbox)
  BY <1>1, HeadTailProperties DEF Takes
<1>4. /\ wk[w].inbox # <<>> /\ DOMAIN wk[w].inbox = 1 .. Len(wk[w].inbox)
      /\ DOMAIN rest = 1 .. Len(wk[w].inbox) - 1 /\ Len(wk[w].inbox) \in Nat \ {0}
      /\ \A i \in DOMAIN rest : rest[i] = wk[w].inbox[i + 1]
      /\ item = wk[w].inbox[1]
  <2>1. wk[w].inbox # <<>>
    BY DEF Takes
  <2>2. Len(rest) = Len(wk[w].inbox) - 1 /\ Len(wk[w].inbox) \in Nat \ {0}
    BY <1>1, <1>2, <2>1, HeadTailProperties, EmptySeq, LenProperties
  <2>3. DOMAIN wk[w].inbox = 1 .. Len(wk[w].inbox) /\ DOMAIN rest = 1 .. Len(rest)
    BY <1>1, LenProperties
  <2>4. \A i \in 1 .. Len(wk[w].inbox) - 1 : rest[i] = wk[w].inbox[i + 1]
    BY <1>1, <1>2, <2>1
  <2>5. item = wk[w].inbox[1]
    BY <1>1, <1>3, <2>1
  <2> QED
    BY <2>1, <2>2, <2>3, <2>4, <2>5
<1>5. PICK cur \in Client \cup {NoClient}, t \in {"closing", "op"} :
          /\ wk' = [wk EXCEPT ![w].inbox = rest, ![w].task = t, ![w].cur = cur]
          /\ cur = IF item = Shutdown THEN NoClient ELSE item
          /\ t = IF item = Shutdown THEN "closing" ELSE "op"
  <2>1. (IF item = Shutdown THEN NoClient ELSE item) \in Client \cup {NoClient}
    BY DEF Item
  <2>2. (IF item = Shutdown THEN "closing" ELSE "op") \in {"closing", "op"}
    OBVIOUS
  <2> QED
    BY <1>2, <1>3, <2>1, <2>2 DEF Takes
<1>6. /\ wk'[w].inbox = rest /\ wk'[w].task = t /\ wk'[w].cur = cur
      /\ wk'[w].gone = wk[w].gone /\ wk'[w].cancel = wk[w].cancel
      /\ \A v \in Worker : v # w => wk'[v] = wk[v]
  BY <1>1, <1>5 DEF WorkerState
<1>7. cl' = cl /\ closing' = closing /\ wk[w].task = "waiting"
  BY DEF Takes
<1>8. OwnAt(w) /\ EndAnnounced(w) /\ wk[w].cur \notin Client
  BY <1>7 DEF OperationsInv, OwnAt
<1>9. item \in Client => cur = item /\ t = "op"
  BY <1>5, PoolAssumption DEF Shutdown
<1>10. cur \in Client => cur = item
  BY <1>5, PoolAssumption
<1>11. OwnAt(w)'
  <2>1. ASSUME NEW i \in DOMAIN rest, NEW d \in Client, rest[i] = d
        PROVE  Holds(d, w)' /\ Awaits(d)' /\ d # item
    <3>1. i + 1 \in DOMAIN wk[w].inbox /\ wk[w].inbox[i + 1] = d /\ i + 1 # 1
          /\ 1 \in DOMAIN wk[w].inbox
      BY <1>4, <2>1
    <3>2. Holds(d, w) /\ Awaits(d) /\ d # item
      BY <1>4, <1>8, <3>1 DEF OwnAt
    <3> QED
      BY <1>7, <3>2 DEF Holds, Awaits
  <2>2. ASSUME NEW i \in DOMAIN rest, NEW j \in DOMAIN rest, rest[i] \in Client, rest[i] = rest[j]
        PROVE  i = j
    <3>1. /\ i + 1 \in DOMAIN wk[w].inbox /\ j + 1 \in DOMAIN wk[w].inbox
          /\ wk[w].inbox[i + 1] = rest[i] /\ wk[w].inbox[j + 1] = rest[j]
          /\ i \in Int /\ j \in Int
      BY <1>4
    <3>2. i + 1 = j + 1
      BY <1>8, <2>2, <3>1 DEF OwnAt
    <3> QED
      BY <3>1, <3>2
  <2>3. ASSUME NEW d \in Client, cur = d
        PROVE  t = "op" /\ Holds(d, w)' /\ Awaits(d)' /\ d \notin Elements(rest)
    <3>1. d = item /\ 1 \in DOMAIN wk[w].inbox
      BY <1>4, <1>10, <2>3
    <3>2. Holds(d, w) /\ Awaits(d)
      BY <1>4, <1>8, <3>1 DEF OwnAt
    <3>3. d \notin Elements(rest)
      BY <2>1, <3>1 DEF Elements
    <3> QED
      BY <1>7, <1>9, <3>1, <3>2, <3>3 DEF Holds, Awaits
  <2> QED
    BY <1>6, <2>1, <2>2, <2>3 DEF OwnAt
<1>12. EndAnnounced(w)'
  BY <1>6, <1>7, <1>8 DEF EndAnnounced
<1>13. ASSUME NEW d \in Client, Holds(d, w) PROVE Served(d)'
  <2>1. d \in Elements(wk[w].inbox) => d \in Elements(rest) \/ d = cur
    <3> SUFFICES ASSUME NEW i \in DOMAIN wk[w].inbox, wk[w].inbox[i] = d
                 PROVE  d \in Elements(rest) \/ d = cur
      BY DEF Elements
    <3>1. CASE i = 1
      BY <1>4, <1>9, <3>1
    <3>2. CASE i # 1
      <4>1. i - 1 \in DOMAIN rest /\ rest[i - 1] = d
        BY <1>4, <3>2
      <4> QED
        BY <4>1 DEF Elements
    <3> QED
      BY <3>1, <3>2
  <2>2. Alive(w)'
    BY <1>6 DEF Alive
  <2>3. cl[d].w = w
    BY <1>13 DEF Holds
  <2> QED
    BY <1>6, <1>7, <1>8, <2>1, <2>2, <2>3, ServedStays
<1> QED
  BY <1>6, <1>7, <1>11, <1>12, <1>13, OneServes

\* What a worker does keeps its requests served or tells them.
LEMMA WorkServes ==
    ASSUME PoolInv, PoolInv', OperationsInv, NEW w \in Worker,
           \/ NeverStarts(w) \/ OpenFails(w) \/ Takes(w) \/ OpDone(w) \/ IdleTooLong(w)
           \/ SessionClosed(w) \/ Cancelled(w)
    PROVE  OperationsInv'
<1>1. wk \in [Worker -> WorkerState] /\ wk[w] \in WorkerState
  BY DEF PoolInv, TypeOK
<1>2. OwnAt(w) /\ EndAnnounced(w)
  BY DEF OperationsInv
<1>3. wk[w].task # "op" => wk[w].cur \notin Client
  BY <1>2 DEF OwnAt
<1>4. CASE NeverStarts(w)
  <2>1. cl' = cl /\ closing' = closing /\ wk[w].task = "new" /\ wk[w].cancel
    BY <1>4 DEF NeverStarts
  <2>2. CASE wk[w].gone /\ ~Referenced(w)
    <3>1. wk' = [wk EXCEPT ![w] = FreeWorker]
      BY <1>4, <2>2 DEF NeverStarts
    <3>2. /\ wk'[w].gone = TRUE /\ wk'[w].inbox = <<>> /\ wk'[w].cur = NoClient
          /\ \A v \in Worker : v # w => wk'[v] = wk[v]
      BY <1>1, <3>1 DEF FreeWorker
    <3>3. OwnAt(w)' /\ EndAnnounced(w)'
      BY <3>2, NothingToDo, PoolAssumption, ThinnerEmpty DEF EndAnnounced
    <3>4. \A d \in Client : ~Holds(d, w)
      BY <2>2 DEF Referenced
    <3> QED
      BY <2>1, <3>2, <3>3, <3>4, OneServes
  <2>3. CASE ~(wk[w].gone /\ ~Referenced(w))
    <3>1. wk' = [wk EXCEPT ![w].task = "ended", ![w].cancel = FALSE]
      BY <1>1, <1>4, <2>3 DEF NeverStarts
    <3>2. /\ wk'[w].gone = wk[w].gone /\ wk'[w].inbox = wk[w].inbox /\ wk'[w].cur = wk[w].cur
          /\ \A v \in Worker : v # w => wk'[v] = wk[v]
      BY <1>1, <3>1 DEF WorkerState
    <3>3. EndAnnounced(w)' /\ (wk'[w].gone \/ closing)
      BY <1>2, <2>1, <3>2 DEF EndAnnounced
    <3> QED
      BY <1>3, <2>1, <3>2, <3>3, GoesOnServing
  <2> QED
    BY <2>2, <2>3
<1>5. CASE OpenFails(w) \/ SessionClosed(w)
  <2>1. wk[w].cur \notin Client
    BY <1>3, <1>5 DEF OpenFails, SessionClosed
  <2> QED
    BY <1>5, <2>1, EndsServe DEF OpenFails, SessionClosed
<1>6. CASE Takes(w)
  BY <1>6, TakesServe
<1>7. CASE OpDone(w)
  <2>1. PICK fut \in {"ok", "failed"}, t \in {"waiting", "closing"} :
            /\ Resolved(w, fut) /\ wk' = [wk EXCEPT ![w].task = t, ![w].cur = NoClient]
            /\ wk[w].task = "op" /\ closing' = closing
    BY <1>7 DEF OpDone
  <2>2. /\ wk'[w].inbox = wk[w].inbox /\ wk'[w].cur = NoClient /\ wk'[w].gone = wk[w].gone
        /\ wk'[w].cancel = wk[w].cancel /\ wk'[w].task = t
        /\ \A v \in Worker : v # w => wk'[v] = wk[v]
    BY <1>1, <2>1 DEF WorkerState
  <2> QED
    BY <2>1, <2>2, AnswerServes
<1>8. CASE IdleTooLong(w)
  <2>1. /\ wk' = [wk EXCEPT ![w].task = "closing", ![w].gone = TRUE]
        /\ cl' = cl /\ closing' = closing /\ wk[w].task = "waiting"
    BY <1>8 DEF IdleTooLong
  <2>2. /\ wk'[w].inbox = wk[w].inbox /\ wk'[w].cur = wk[w].cur /\ wk'[w].gone = TRUE
        /\ \A v \in Worker : v # w => wk'[v] = wk[v]
    BY <1>1, <2>1 DEF WorkerState
  <2>3. EndAnnounced(w)'
    BY <2>2 DEF EndAnnounced
  <2> QED
    BY <1>3, <2>1, <2>2, <2>3, GoesOnServing
<1>9. CASE Cancelled(w)
  <2>1. CASE wk[w].task = "op"
    <3>1. /\ Resolved(w, "cancelled") /\ closing' = closing
          /\ wk' = [wk EXCEPT ![w].task = "closing", ![w].cancel = FALSE, ![w].cur = NoClient]
      BY <1>9, <2>1 DEF Cancelled
    <3>2. /\ wk'[w].inbox = wk[w].inbox /\ wk'[w].cur = NoClient /\ wk'[w].gone = wk[w].gone
          /\ wk'[w].cancel = FALSE /\ wk'[w].task = "closing"
          /\ \A v \in Worker : v # w => wk'[v] = wk[v]
      BY <1>1, <3>1 DEF WorkerState
    <3> QED
      BY <2>1, <3>1, <3>2, AnswerServes
  <2>2. CASE wk[w].task = "waiting"
    <3>1. /\ cl' = cl /\ closing' = closing
          /\ wk' = [wk EXCEPT ![w].task = "closing", ![w].cancel = FALSE, ![w].err = "cancelled"]
      BY <1>9, <2>2 DEF Cancelled
    <3>2. /\ wk'[w].inbox = wk[w].inbox /\ wk'[w].cur = wk[w].cur /\ wk'[w].gone = wk[w].gone
          /\ wk'[w].task = "closing" /\ wk'[w].cancel = FALSE
          /\ \A v \in Worker : v # w => wk'[v] = wk[v]
      BY <1>1, <3>1 DEF WorkerState
    <3>3. EndAnnounced(w)' /\ Alive(w)'
      BY <3>2 DEF EndAnnounced, Alive
    <3> QED
      BY <1>3, <2>2, <3>1, <3>2, <3>3, GoesOnServing
  <2>3. CASE wk[w].task \in {"opening", "closing"}
    <3>1. Ends(w, "cancelled") /\ wk[w].cur \notin Client
      BY <1>3, <1>9, <2>3 DEF Cancelled
    <3> QED
      BY <3>1, EndsServe
  <2> QED
    BY <1>9, <2>1, <2>2, <2>3 DEF Cancelled
<1> QED
  BY <1>4, <1>5, <1>6, <1>7, <1>8, <1>9

\* Workers that are told to shut down while nobody holds them have nothing to do.
LEMMA RetiredIdle ==
    ASSUME PoolInv, OperationsInv, NEW S \in SUBSET Worker, NEW w \in S,
           \A c \in Client : ~Holds(c, w)
    PROVE  /\ Retired(S)[w].cur \notin Client /\ Retired(S)[w].gone
           /\ \A i \in DOMAIN Retired(S)[w].inbox : Retired(S)[w].inbox[i] \notin Client
<1>1. wk[w] \in WorkerState /\ wk[w].inbox \in Seq(Item) /\ Shutdown \in Item
  BY DEF PoolInv, TypeOK, WorkerState, Item
<1>2. wk[w].cur \notin Client /\ \A i \in DOMAIN wk[w].inbox : wk[w].inbox[i] \notin Client
  BY UnheldIsFree
<1> DEFINE inbox == Append(wk[w].inbox, Shutdown)
<1>3. /\ inbox \in Seq(Item)
      /\ \A i \in DOMAIN inbox :
            \/ i \in DOMAIN wk[w].inbox /\ inbox[i] = wk[w].inbox[i]
            \/ inbox[i] = Shutdown
  BY <1>1, Appended
<1> DEFINE r == [wk[w] EXCEPT !.gone = TRUE, !.inbox = inbox]
<1>6. Retired(S)[w] = Recycled(r)
  BY DEF Retired
<1> HIDE DEF inbox
<1>4. \A i \in DOMAIN inbox : inbox[i] \notin Client
  BY <1>2, <1>3, PoolAssumption DEF Shutdown
<1>5. r.gone = TRUE /\ r.inbox = inbox /\ r.cur = wk[w].cur
  BY <1>1 DEF WorkerState
<1> HIDE DEF r
<1>7. Retired(S)[w] = r \/ Retired(S)[w] = FreeWorker
  BY <1>6 DEF Recycled
<1>8. CASE Retired(S)[w] = FreeWorker
  BY <1>8, PoolAssumption, ThinnerEmpty DEF FreeWorker
<1> QED
  BY <1>2, <1>4, <1>5, <1>7, <1>8

\* What the worker a request takes is given: the operation, or nothing yet.
LEMMA GivenOperation ==
    ASSUME NEW r \in WorkerState, NEW c \in Client,
           \A i \in DOMAIN r.inbox : r.inbox[i] \notin Client
    PROVE  /\ Given(r, c).cur = r.cur /\ Given(r, c).cancel = r.cancel
           /\ \A i \in DOMAIN Given(r, c).inbox :
                 Given(r, c).inbox[i] \in Client =>
                     ~Lists(c) /\ Given(r, c).inbox[i] = c /\ i = Len(r.inbox) + 1
           /\ ~Lists(c) => c \in Elements(Given(r, c).inbox)
<1>1. r.inbox \in Seq(Item) /\ c \in Item
  BY DEF WorkerState, Item
<1>2. CASE Lists(c)
  BY <1>2 DEF Given
<1>3. CASE ~Lists(c)
  <2> DEFINE inbox == Append(r.inbox, c)
  <2>1. /\ inbox \in Seq(Item)
        /\ \A i \in DOMAIN inbox :
              \/ i \in DOMAIN r.inbox /\ inbox[i] = r.inbox[i]
              \/ i = Len(r.inbox) + 1 /\ inbox[i] = c
    BY <1>1, Appended
  <2>2. Len(r.inbox) + 1 \in DOMAIN inbox /\ inbox[Len(r.inbox) + 1] = c
    BY <1>1, <2>1, AppendProperties, LenProperties
  <2>3. Given(r, c) = [r EXCEPT !.inbox = inbox]
    BY <1>3 DEF Given
  <2> HIDE DEF inbox
  <2>4. Given(r, c).inbox = inbox /\ Given(r, c).cur = r.cur /\ Given(r, c).cancel = r.cancel
    BY <2>3 DEF WorkerState
  <2>5. c \in Elements(inbox)
    BY <2>2 DEF Elements
  <2> QED
    BY <1>3, <2>1, <2>4, <2>5
<1> QED
  BY <1>2, <1>3

\* A request takes the worker w0, which had nothing to do, or none; those in S retire.
LEMMA LeaseServes ==
    ASSUME PoolInv, OperationsInv, NEW S \in SUBSET Worker, NEW c \in Client, ~Awaits(c),
           closing' = closing,
           \A w \in S, d \in Client : ~Holds(d, w),
           \A d \in Client : d # c => cl'[d] = cl[d],
           NEW w0,
           \A w \in Worker : w # w0 => wk'[w] = Retired(S)[w],
           w0 \in Worker =>
              /\ \A d \in Client : ~Holds(d, w0)
              /\ cl'[c].w = w0 /\ cl'[c].pc \in Holding
              /\ Awaits(c)' <=> ~Lists(c)
              /\ EndAnnounced(w0)' /\ (Alive(w0)' \/ wk'[w0].gone \/ closing)
              /\ wk'[w0].cur \notin Client
              /\ \A i \in DOMAIN wk'[w0].inbox : wk'[w0].inbox[i] \in Client =>
                    ~Lists(c) /\ wk'[w0].inbox[i] = c
              /\ \A i, j \in DOMAIN wk'[w0].inbox :
                    wk'[w0].inbox[i] \in Client /\ wk'[w0].inbox[j] \in Client => i = j
              /\ ~Lists(c) => c \in Elements(wk'[w0].inbox),
           w0 \notin Worker => ~Awaits(c)'
    PROVE  OperationsInv'
<1>1. /\ \A w \in Worker \ S : Retired(S)[w] = wk[w]
      /\ \A w \in S : /\ Retired(S)[w].cur \notin Client /\ Retired(S)[w].gone
                      /\ \A i \in DOMAIN Retired(S)[w].inbox : Retired(S)[w].inbox[i] \notin Client
  <2>1. \A w \in Worker \ S : Retired(S)[w] = wk[w]
    BY DEF Retired
  <2> QED
    BY <2>1, RetiredIdle
<1>2. ASSUME NEW w \in Worker, w # w0, w \notin S PROVE OwnAt(w)' /\ EndAnnounced(w)'
  <2>1. OwnAt(w) /\ EndAnnounced(w) /\ wk'[w] = wk[w]
    BY <1>1, <1>2 DEF OperationsInv
  <2>2. NoneComes(w)
    BY <2>1 DEF NoneComes, OwnAt
  <2> QED
    BY <2>1, <2>2, OwnStays DEF EndAnnounced
<1>3. ASSUME NEW w \in Worker, w # w0, w \in S PROVE OwnAt(w)' /\ EndAnnounced(w)'
  <2>1. wk'[w] = Retired(S)[w]
    BY <1>3
  <2>2. OwnAt(w)'
    BY <1>1, <1>3, <2>1, NothingToDo
  <2> QED
    BY <1>1, <1>3, <2>1, <2>2 DEF EndAnnounced
<1>4. ASSUME w0 \in Worker PROVE OwnAt(w0)' /\ EndAnnounced(w0)'
  <2>1. ASSUME NEW i \in DOMAIN wk'[w0].inbox, NEW d \in Client, wk'[w0].inbox[i] = d
        PROVE  Holds(d, w0)' /\ Awaits(d)'
    <3>1. d = c /\ ~Lists(c)
      BY <1>4, <2>1
    <3> QED
      BY <1>4, <3>1 DEF Holds, Holding
  <2> QED
    BY <1>4, <2>1 DEF OwnAt
<1>5. ASSUME NEW d \in Client, d # c PROVE Served(d)'
  <2>1. Awaits(d) => cl[d].w \in Worker /\ cl[d].w # w0 /\ cl[d].w \notin S
    BY AwaitsHolds
  <2>2. Awaits(d) => wk'[cl[d].w] = wk[cl[d].w]
    BY <1>1, <2>1
  <2> QED
    BY <1>5, <2>2, ServedStays DEF Alive
<1>6. Served(c)'
  <2>1. CASE w0 \in Worker
    BY <2>1 DEF Served
  <2>2. CASE w0 \notin Worker
    BY <2>2 DEF Served
  <2> QED
    BY <2>1, <2>2
<1> QED
  BY <1>2, <1>3, <1>4, <1>5, <1>6 DEF OperationsInv

\* acquire gives the operation to the worker it takes.
LEMMA AcquireServes ==
    ASSUME PoolInv, PoolInv', OperationsInv, NEW c \in Client, Acquire(c)
    PROVE  OperationsInv'
<1>1. TypeOK /\ cl \in [Client -> ClientState] /\ cl[c] \in ClientState
  BY DEF PoolInv, TypeOK
<1>2. /\ cl[c].pc \in {"missed", "resolved"} /\ UNCHANGED <<closing, dbVars, tools>>
      /\ \/ Closes(c) \/ TakesIdle(c) \/ HasNoRoom(c)
         \/ \E w \in Worker : TakesNew(c, w)
  BY AcquireCases
<1>3. ~Awaits(c)
  BY <1>2 DEF Awaits
<1>4. PICK S \in SUBSET Worker : S = Skipped(c)
  BY <1>1, SkippedType
<1>5. TakesIdle(c) \/ HasNoRoom(c) \/ (\E w \in Worker : TakesNew(c, w))
      => \A w \in S, d \in Client : ~Holds(d, w)
  BY <1>4, SkippedLeave DEF PoolInv, ExclusiveCheckout
<1>6. ASSUME NEW w \in Worker, Lease(c, w)
      PROVE  /\ \A d \in Client : d # c => cl'[d] = cl[d]
             /\ cl'[c].w = w /\ cl'[c].pc \in Holding /\ (Awaits(c)' <=> ~Lists(c))
  <2>1. /\ \A d \in Client : d # c => cl'[d] = cl[d]
        /\ cl'[c].w = w /\ cl'[c].pc \in Holding
    BY <1>1, <1>6, LeaseType
  <2>2. /\ cl'[c].pc = (IF Lists(c) THEN "looking" ELSE "waiting")
        /\ cl'[c].fut = (IF Lists(c) THEN "none" ELSE "pending")
    BY <1>1, <1>6 DEF Lease, ClientState
  <2> QED
    BY <2>1, <2>2 DEF Awaits
<1>7. CASE Closes(c)
  BY <1>2, <1>7, OthersServe
<1>8. CASE HasNoRoom(c)
  <2>1. /\ \A d \in Client : d # c => cl'[d] = cl[d]
        /\ cl'[c].pc = "direct"
    BY <1>1, <1>8, DirectType DEF HasNoRoom
  <2>2. ~Awaits(c)'
    BY <2>1 DEF Awaits
  <2>3. \A w \in Worker : wk'[w] = Retired(S)[w]
    BY <1>4, <1>8 DEF HasNoRoom
  <2> QED
    BY <1>2, <1>3, <1>5, <1>8, <2>1, <2>2, <2>3, PoolAssumption, LeaseServes
<1>9. CASE TakesIdle(c)
  <2>1. PICK w0 \in Worker : w0 = idle[cl[c].key][FirstAt(c)]
    BY <1>1, <1>9, SkippedType DEF UsableAt, TakesIdle
  <2>2. InDeque(w0) /\ w0 \notin S
    BY <1>4, <1>9, <2>1, SkippedLeave DEF TakesIdle
  <2>3. \A d \in Client : ~Holds(d, w0)
    BY <2>2 DEF PoolInv, ExclusiveCheckout
  <2>4. wk[w0] \in WorkerState /\ Retired(S) \in [Worker -> WorkerState] /\ Retired(S)[w0] = wk[w0]
    BY <1>1, <2>2, RetiredType DEF TypeOK
  <2>5. /\ wk'[w0] = Given(wk[w0], c)
        /\ \A w \in Worker : w # w0 => wk'[w] = Retired(S)[w]
    <3>1. wk' = [Retired(S) EXCEPT ![w0] = Given(Retired(S)[w0], c)]
      BY <1>4, <1>9, <2>1 DEF TakesIdle
    <3> QED
      BY <2>4, <3>1
  <2>6. wk[w0].cur \notin Client /\ \A i \in DOMAIN wk[w0].inbox : wk[w0].inbox[i] \notin Client
    BY <2>3, UnheldIsFree
  <2>7. /\ Given(wk[w0], c).gone = wk[w0].gone /\ Given(wk[w0], c).task = wk[w0].task
        /\ Given(wk[w0], c).cur = wk[w0].cur /\ Given(wk[w0], c).cancel = wk[w0].cancel
    BY <2>4, <2>6, GivenType, GivenOperation
  <2>8. /\ \A i \in DOMAIN wk'[w0].inbox : wk'[w0].inbox[i] \in Client =>
              ~Lists(c) /\ wk'[w0].inbox[i] = c /\ i = Len(wk[w0].inbox) + 1
        /\ ~Lists(c) => c \in Elements(wk'[w0].inbox)
    BY <2>4, <2>5, <2>6, GivenOperation
  <2>9. ~wk[w0].gone /\ wk[w0].gone \in BOOLEAN
    <3>1. Usable(w0, cl[c].sig)
      BY <1>1, <1>9, <2>1, SkippedType DEF UsableAt, TakesIdle
    <3> QED
      BY <2>4, <3>1 DEF Usable, WorkerState
  <2>10. EndAnnounced(w0)' /\ (Alive(w0)' \/ wk'[w0].gone \/ closing)
    <3>1. EndAnnounced(w0) /\ wk[w0].task # "free"
      BY <2>9 DEF PoolInv, FreeIsGone, OperationsInv
    <3> QED
      BY <1>2, <2>5, <2>7, <2>9, <3>1 DEF EndAnnounced, Alive
  <2>11. Lease(c, w0)
    BY <1>9, <2>1 DEF TakesIdle
  <2>12. /\ wk'[w0].cur \notin Client
         /\ \A i, j \in DOMAIN wk'[w0].inbox :
               wk'[w0].inbox[i] \in Client /\ wk'[w0].inbox[j] \in Client => i = j
    BY <2>5, <2>6, <2>7, <2>8
  <2> QED
    BY <1>2, <1>3, <1>5, <1>6, <1>9, <2>3, <2>5, <2>8, <2>10, <2>11, <2>12, LeaseServes
<1>10. ASSUME NEW w0 \in Worker, TakesNew(c, w0) PROVE OperationsInv'
  <2>1. wk[w0].gone /\ ~Referenced(w0)
    BY <1>10 DEF TakesNew, PoolInv, FreeIsGone
  <2>2. w0 \notin S /\ \A d \in Client : ~Holds(d, w0)
    BY <1>4, <1>10, <2>1, SkippedLeave DEF Referenced
  <2>3. /\ Spawned(c) \in WorkerState /\ Spawned(c).task = "new" /\ Spawned(c).gone = FALSE
        /\ Retired(S) \in [Worker -> WorkerState]
    BY <1>1, SpawnedType, RetiredType
  <2>4. Spawned(c).cur = NoClient /\ Spawned(c).cancel = FALSE /\ Spawned(c).inbox = <<>>
    BY DEF Spawned, FreeWorker
  <2>5. /\ wk'[w0] = Given(Spawned(c), c)
        /\ \A w \in Worker : w # w0 => wk'[w] = Retired(S)[w]
    <3>1. wk' = [Retired(S) EXCEPT ![w0] = Given(Spawned(c), c)]
      BY <1>4, <1>10 DEF TakesNew
    <3> QED
      BY <2>3, <3>1
  <2>6. \A i \in DOMAIN Spawned(c).inbox : Spawned(c).inbox[i] \notin Client
    BY <2>4, ThinnerEmpty
  <2>7. /\ Given(Spawned(c), c).task = "new" /\ Given(Spawned(c), c).gone = FALSE
        /\ Given(Spawned(c), c).cur = NoClient /\ Given(Spawned(c), c).cancel = FALSE
    BY <2>3, <2>4, <2>6, GivenType, GivenOperation
  <2>8. /\ \A i \in DOMAIN wk'[w0].inbox : wk'[w0].inbox[i] \in Client =>
              ~Lists(c) /\ wk'[w0].inbox[i] = c /\ i = Len(Spawned(c).inbox) + 1
        /\ ~Lists(c) => c \in Elements(wk'[w0].inbox)
    BY <2>3, <2>5, <2>6, GivenOperation
  <2>9. EndAnnounced(w0)' /\ Alive(w0)' /\ wk'[w0].cur \notin Client
    BY <2>5, <2>7, PoolAssumption DEF EndAnnounced, Alive
  <2>10. Lease(c, w0)
    BY <1>10 DEF TakesNew
  <2>11. \A i, j \in DOMAIN wk'[w0].inbox :
            wk'[w0].inbox[i] \in Client /\ wk'[w0].inbox[j] \in Client => i = j
    BY <2>8
  <2> QED
    BY <1>2, <1>3, <1>5, <1>6, <1>10, <2>2, <2>5, <2>8, <2>9, <2>10, <2>11, LeaseServes
<1> QED
  BY <1>2, <1>7, <1>8, <1>9, <1>10

\* An invalidation tells those whose sessions it drops.
LEMMA InvalidateServes ==
    ASSUME PoolInv, OperationsInv, NEW s \in Server, Invalidate(s)
    PROVE  OperationsInv'
<1>1. /\ wk' = [w \in Worker |-> IF w \in Victims(s) THEN Killed(wk[w]) ELSE wk[w]]
      /\ cl' = cl /\ closing' = closing
  BY DEF Invalidate
<1>2. ASSUME NEW w \in Worker
      PROVE  /\ wk'[w].inbox = wk[w].inbox /\ wk'[w].cur = wk[w].cur
             /\ wk'[w].task = wk[w].task
             /\ wk'[w] = wk[w] \/ wk'[w].gone = TRUE
  <2>1. wk[w] \in WorkerState
    BY DEF PoolInv, TypeOK
  <2> QED
    BY <1>1, <2>1 DEF Killed, WorkerState
<1>3. ASSUME NEW w \in Worker PROVE OwnAt(w)' /\ EndAnnounced(w)'
  <2>1. OwnAt(w) /\ EndAnnounced(w)
    BY DEF OperationsInv
  <2>2. NoneComes(w)
    BY <1>2, <2>1 DEF NoneComes, OwnAt
  <2> QED
    BY <1>1, <1>2, <2>1, <2>2, OwnStays DEF EndAnnounced
<1>4. ASSUME NEW d \in Client PROVE Served(d)'
  BY <1>1, <1>2, AwaitsHolds, ServedStays DEF Alive
<1> QED
  BY <1>3, <1>4 DEF OperationsInv

\* Before the first request no worker has anything to do.
LEMMA OperationsInit == Init => OperationsInv
<1> SUFFICES ASSUME Init PROVE OperationsInv
  OBVIOUS
<1>1. \A w \in Worker : wk[w] = FreeWorker
  BY DEF Init
<1>2. \A c \in Client : ~Awaits(c)
  BY DEF Init, NewClient, Awaits
<1>3. /\ FreeWorker.inbox = <<>> /\ FreeWorker.cur = NoClient
      /\ FreeWorker.cancel = FALSE /\ FreeWorker.task = "free"
  BY DEF FreeWorker
<1>4. \A w \in Worker : OwnAt(w)
  BY <1>1, <1>3, PoolAssumption, ThinnerEmpty DEF OwnAt
<1>5. \A w \in Worker : EndAnnounced(w)
  BY <1>1, <1>3 DEF EndAnnounced
<1> QED
  BY <1>2, <1>4, <1>5 DEF OperationsInv, Served

\* Every step keeps it.
LEMMA OperationsNext ==
    ASSUME PoolInv, PoolInv', OperationsInv, [Next]_vars
    PROVE  OperationsInv'
<1>1. CASE UNCHANGED vars
  <2>1. wk' = wk /\ cl' = cl /\ closing' = closing
    BY <1>1 DEF vars
  <2> QED
    BY <2>1, NobodyServed
<1>2. ASSUME NEW c \in Client, Request(c) PROVE OperationsInv'
  BY <1>2, OthersServe, AcquireServes, SubmitServes, ReturnsServe DEF Request
<1>3. ASSUME NEW w \in Worker, Work(w) PROVE OperationsInv'
  BY <1>3, OthersServe, WorkServes DEF Work
<1>4. ASSUME NEW s \in Server, Edit(s) \/ DropTools(s) \/ Invalidate(s) \/ ToolsExpire(s)
      PROVE  OperationsInv'
  BY <1>4, OthersServe, InvalidateServes
<1>5. CASE ShutdownPool
  BY <1>5, OthersServe
<1> QED
  BY <1>1, <1>2, <1>3, <1>4, <1>5 DEF Next

\* Workers work for those who hold them, and who waits is served or told: a request
\* whose worker is counted has its operation under way or in the inbox of a worker that
\* goes on, however many requests before it were cancelled, timed out or failed.  Only a
\* shutdown may leave one in the inbox of a task that has ended (pool.py, _submit, run
\* and _fail_pending).
THEOREM OperationsAreServed == Spec => []OperationsInv
<1>1. PoolInv /\ PoolInv' /\ OperationsInv /\ [Next]_vars => OperationsInv'
  BY OperationsNext
<1> QED
  BY <1>1, OperationsInit, PoolInvariant, PTL DEF Spec

\* An answer is of the operation the request awaits: what a session does for a request
\* that went away reaches nobody, not even who holds that session now.
AnswersAreOwn ==
    \A c \in Client : cl'[c].fut \in {"ok", "failed", "cancelled"} /\ cl'[c].fut # cl[c].fut =>
        /\ Awaits(c) /\ cl'[c].w = cl[c].w
        /\ cl'[c].fut = "ok" => wk[cl[c].w].cur = c

\* Only a worker that ends an operation, or ends, sets the outcome of a future.
LEMMA AnswersStep ==
    ASSUME PoolInv, OperationsInv, [Next]_vars
    PROVE  AnswersAreOwn
<1>1. TypeOK /\ cl \in [Client -> ClientState]
  BY DEF PoolInv, TypeOK
<1>2. ASSUME \A d \in Client : cl'[d].fut \in {"none", "pending"} \/ cl'[d].fut = cl[d].fut
      PROVE  AnswersAreOwn
  BY <1>2 DEF AnswersAreOwn
<1>3. ASSUME NEW c \in Client, Request(c) PROVE AnswersAreOwn
  <2>1. NewClient.fut = "none"
    BY DEF NewClient
  <2>2. CASE Resolve(c)
    <3>1. PICK k \in Key, op \in {"call", "list", "refresh"} :
              cl' = [cl EXCEPT ![c] = [NewClient EXCEPT
                        !.pc = "resolved", !.key = k, !.sig = config[k[2]],
                        !.epoch = epoch[k[2]], !.op = op]]
      BY <2>2 DEF Resolve
    <3>2. cl'[c].fut = "none" /\ \A d \in Client : d # c => cl'[d] = cl[d]
      BY <1>1, <3>1 DEF NewClient
    <3> QED
      BY <1>2, <3>2
  <2>3. CASE CacheHit(c) \/ DirectDone(c) \/ \E broken \in BOOLEAN : Release(c, broken)
    <3>1. cl' = [cl EXCEPT ![c] = NewClient]
      BY <2>3 DEF CacheHit, DirectDone, Release
    <3> QED
      BY <1>1, <1>2, <2>1, <3>1
  <2>4. CASE CacheMiss(c) \/ Listed(c)
    <3>1. \A d \in Client : cl'[d].fut = cl[d].fut
      BY <1>1, <2>4 DEF CacheMiss, Listed, ClientState
    <3> QED
      BY <1>2, <3>1
  <2>5. CASE Submit(c)
    <3>1. cl'[c].fut = "pending" /\ \A d \in Client : d # c => cl'[d] = cl[d]
      BY <1>1, <2>5 DEF Submit, ClientState
    <3> QED
      BY <1>2, <3>1
  <2>6. CASE Acquire(c)
    <3>1. (\E w : Lease(c, w)) \/ GoDirect(c)
      BY <2>6, AcquireCases DEF Closes, TakesIdle, TakesNew, HasNoRoom
    <3>2. cl[c] \in ClientState
      BY <1>1
    <3>3. \A d \in Client : d # c => cl'[d] = cl[d]
      BY <1>1, <3>1 DEF Lease, GoDirect
    <3>4. cl'[c].fut \in {"none", "pending"} \/ cl'[c].fut = cl[c].fut
      <4>1. CASE \E w : Lease(c, w)
        <5>1. cl'[c].fut = IF Lists(c) THEN "none" ELSE "pending"
          BY <1>1, <3>2, <4>1 DEF Lease, ClientState
        <5> QED
          BY <5>1
      <4>2. CASE GoDirect(c)
        BY <1>1, <3>2, <4>2 DEF GoDirect, ClientState
      <4> QED
        BY <3>1, <4>1, <4>2
    <3> QED
      BY <1>2, <3>3, <3>4
  <2>7. CASE FoundInCache(c) \/ Answer(c) \/ SetCache(c) \/ Failed(c) \/ Timeout(c) \/ CancelRequest(c)
    BY <2>3, <2>7 DEF FoundInCache, Answer, SetCache, Failed, Timeout, CancelRequest
  <2> QED
    BY <1>3, <2>2, <2>3, <2>4, <2>5, <2>6, <2>7 DEF Request
<1>4. ASSUME NEW w \in Worker, Work(w) PROVE AnswersAreOwn
  <2>1. OwnAt(w)
    BY DEF OperationsInv
  <2>2. ASSUME NEW fut, Resolved(w, fut) PROVE AnswersAreOwn
    <3>1. ASSUME NEW d \in Client
          PROVE  cl'[d] = cl[d] \/ (d = wk[w].cur /\ cl'[d].w = cl[d].w)
      BY <1>1, <2>2 DEF Resolved, ClientState
    <3>2. \A d \in Client : d = wk[w].cur => Awaits(d) /\ cl[d].w = w
      BY <2>1 DEF OwnAt, Holds
    <3> QED
      BY <3>1, <3>2 DEF AnswersAreOwn
  <2>3. ASSUME NEW err, Ends(w, err) PROVE AnswersAreOwn
    <3>1. ASSUME NEW d \in Client, cl'[d] # cl[d]
          PROVE  Awaits(d) /\ cl'[d].w = cl[d].w /\ cl'[d].fut # "ok"
      <4>1. /\ d \in Elements(wk[w].inbox)
            /\ cl'[d] = [cl[d] EXCEPT !.fut = IF err = "cancelled" THEN "cancelled" ELSE "failed"]
        BY <2>3, <3>1 DEF Ends, Rejected
      <4>2. Awaits(d)
        BY <2>1, <4>1 DEF OwnAt, Elements
      <4> QED
        BY <1>1, <4>1, <4>2 DEF ClientState
    <3> QED
      BY <3>1 DEF AnswersAreOwn
  <2>4. \/ cl' = cl
        \/ \E fut \in {"ok", "failed", "cancelled"} : Resolved(w, fut)
        \/ \E err : Ends(w, err)
    BY <1>4 DEF Work, Starts, NeverStarts, Opened, OpenFails, Takes, OpDone, IdleTooLong,
                SessionClosed, Cancelled, Ages
  <2> QED
    BY <1>2, <2>2, <2>3, <2>4
<1>5. CASE cl' = cl
  BY <1>2, <1>5
<1> QED
  BY <1>3, <1>4, <1>5 DEF Next, vars, Edit, DropTools, Invalidate, ToolsExpire, ShutdownPool

\* Over any number of cancellations and time-outs, in whatever order sessions are handed
\* on (pool.py, _submit and run).
THEOREM AnswersReachWhoAsked == Spec => [][AnswersAreOwn]_vars
<1>1. PoolInv /\ OperationsInv /\ [Next]_vars => [AnswersAreOwn]_vars
  BY AnswersStep
<1> QED
  BY <1>1, PoolInvariant, OperationsAreServed, PTL DEF Spec

-----------------------------------------------------------------------------
(* Sessions: whoever must end knows it *)

\* The news a worker has of its end: a cancellation that comes, a shutdown in its
\* inbox, or a session that closes already.
EndComes(r) == \/ r.cancel \/ r.task = "closing"
               \/ \E i \in DOMAIN r.inbox : r.inbox[i] = Shutdown
\* A worker that is out of the pool, or whose pool shuts down, has it while its task lives.
ToldOfEnd(r, ends) ==
    r.task \notin {"free", "ended"} /\ (r.gone \/ ends) => EndComes(r)
EndsAreTold == \A w \in Worker : ToldOfEnd(wk[w], closing)

\* An identity nobody uses has no task.
LEMMA FreeIsTold == \A ends : ToldOfEnd(FreeWorker, ends)
BY FreeWorkerType DEF ToldOfEnd

\* A request that goes away does not take the news with it.
LEMMA OrphanedIsTold ==
    ASSUME NEW r \in WorkerState, NEW c \in Client, NEW ends, ToldOfEnd(r, ends)
    PROVE  ToldOfEnd(Orphaned(r, c), ends)
<1> DEFINE o == Orphaned(r, c)
<1>1. o.task = r.task /\ o.gone = r.gone
  BY OrphanedType
<1>2. o.cancel = r.cancel
  BY DEF Orphaned, WorkerState
<1>3. o.inbox = [i \in DOMAIN r.inbox |-> IF r.inbox[i] = c THEN NoClient ELSE r.inbox[i]]
  BY DEF Orphaned, WorkerState
<1> HIDE DEF o
<1>4. \A i \in DOMAIN r.inbox : r.inbox[i] = Shutdown => i \in DOMAIN o.inbox /\ o.inbox[i] = Shutdown
  BY <1>3, PoolAssumption DEF Shutdown
<1>5. ToldOfEnd(o, ends)
  BY <1>1, <1>2, <1>4 DEF ToldOfEnd, EndComes
<1> QED
  BY <1>5 DEF o

\* An operation that is queued leaves the news where it is.
LEMMA QueuedIsTold ==
    ASSUME NEW r \in WorkerState, NEW c \in Client, NEW ends, ToldOfEnd(r, ends)
    PROVE  /\ ToldOfEnd([r EXCEPT !.inbox = Append(@, c)], ends)
           /\ ToldOfEnd(Given(r, c), ends)
<1> DEFINE inbox == Append(r.inbox, c)
           o == [r EXCEPT !.inbox = inbox]
<1>1. r.inbox \in Seq(Item) /\ c \in Item
  BY DEF WorkerState, Item
<1>2. \A i \in DOMAIN r.inbox : i \in DOMAIN inbox /\ inbox[i] = r.inbox[i]
  BY <1>1, AppendProperties, LenProperties
<1>3. o.inbox = inbox /\ o.task = r.task /\ o.gone = r.gone /\ o.cancel = r.cancel
  BY DEF WorkerState
<1> HIDE DEF inbox
<1>4. ToldOfEnd(o, ends)
  BY <1>2, <1>3 DEF ToldOfEnd, EndComes
<1> QED
  BY <1>4 DEF Given, inbox

\* _kill_locked tells.
LEMMA KilledIsTold ==
    ASSUME NEW r \in WorkerState, NEW ends
    PROVE  ToldOfEnd(Killed(r), ends) /\ ToldOfEnd(Recycled(Killed(r)), ends)
<1> DEFINE k == Killed(r)
           cancel == r.cancel \/ r.task \notin {"free", "ended"}
<1>1. k.task = r.task /\ (k.cancel <=> cancel)
  BY DEF Killed, WorkerState
<1>2. ToldOfEnd(k, ends)
  BY <1>1 DEF ToldOfEnd, EndComes
<1> QED
  BY <1>2, FreeIsTold DEF Recycled

\* So does a request that skips a worker on its way through the deque.
LEMMA RetiredIsTold ==
    ASSUME TypeOK, EndsAreTold, NEW S \in SUBSET Worker, NEW w \in Worker
    PROVE  ToldOfEnd(Retired(S)[w], closing)
<1>1. wk[w] \in WorkerState
  BY DEF TypeOK
<1>2. CASE w \notin S
  BY <1>2 DEF Retired, EndsAreTold
<1>3. CASE w \in S
  <2> DEFINE inbox == Append(wk[w].inbox, Shutdown)
             r == [wk[w] EXCEPT !.gone = TRUE, !.inbox = inbox]
  <2>1. wk[w].inbox \in Seq(Item) /\ Shutdown \in Item
    BY <1>1 DEF WorkerState, Item
  <2>2. Len(inbox) \in DOMAIN inbox /\ inbox[Len(inbox)] = Shutdown
    BY <2>1, AppendProperties, LenProperties
  <2>3. r.inbox = inbox
    BY <1>1 DEF WorkerState
  <2>4. Retired(S)[w] = Recycled(r)
    BY <1>3 DEF Retired
  <2> HIDE DEF inbox, r
  <2>5. ToldOfEnd(r, closing)
    BY <2>2, <2>3 DEF ToldOfEnd, EndComes
  <2> QED
    BY <2>4, <2>5, FreeIsTold DEF Recycled
<1> QED
  BY <1>2, <1>3

\* The steps of requests.
LEMMA RequestsTell ==
    ASSUME PoolInv, EndsAreTold, NEW c \in Client, Request(c)
    PROVE  EndsAreTold'
<1>0. TypeOK /\ wk \in [Worker -> WorkerState]
  BY DEF PoolInv, TypeOK
<1>1. CASE UNCHANGED <<wk, closing>>
  BY <1>1 DEF EndsAreTold
<1>2. CASE Acquire(c)
  <2>1. closing' = closing
    BY <1>2 DEF Acquire
  <2> DEFINE q == idle[cl[c].key][FirstAt(c)]
  <2>2. Skipped(c) \in SUBSET Worker /\ (UsableAt(c) # {} => q \in Worker)
    BY <1>0, SkippedType DEF UsableAt
  <2>3. \A w \in Worker : /\ Retired(Skipped(c))[w] \in WorkerState
                          /\ ToldOfEnd(Retired(Skipped(c))[w], closing)
    BY <1>0, <2>2, RetiredType, RetiredIsTold
  <2>4. CASE Closes(c)
    BY <1>1, <2>1, <2>4 DEF Closes
  <2>5. CASE HasNoRoom(c)
    BY <2>1, <2>3, <2>5 DEF HasNoRoom, EndsAreTold
  <2>6. CASE TakesIdle(c)
    <3>1. wk' = [Retired(Skipped(c)) EXCEPT ![q] = Given(@, c)] /\ q \in Worker
      BY <2>2, <2>6 DEF TakesIdle
    <3>2. ASSUME NEW w \in Worker PROVE ToldOfEnd(wk'[w], closing)
      <4>1. wk'[w] = Retired(Skipped(c))[w] \/ wk'[w] = Given(Retired(Skipped(c))[w], c)
        BY <1>0, <2>2, <3>1, RetiredType
      <4> QED
        BY <2>3, <4>1, QueuedIsTold
    <3> QED
      BY <2>1, <3>2 DEF EndsAreTold
  <2>7. ASSUME NEW n \in Worker, TakesNew(c, n), ~closing
        PROVE  EndsAreTold'
    <3>1. wk' = [Retired(Skipped(c)) EXCEPT ![n] = Given(Spawned(c), c)]
      BY <2>7 DEF TakesNew
    <3>2. ToldOfEnd(Spawned(c), closing) /\ Spawned(c) \in WorkerState
      BY <1>0, <2>7, SpawnedType DEF ToldOfEnd
    <3>3. ASSUME NEW w \in Worker PROVE ToldOfEnd(wk'[w], closing)
      <4>1. wk'[w] = Retired(Skipped(c))[w] \/ wk'[w] = Given(Spawned(c), c)
        BY <1>0, <2>2, <3>1, RetiredType
      <4> QED
        BY <2>3, <3>2, <4>1, QueuedIsTold
    <3> QED
      BY <2>1, <3>3 DEF EndsAreTold
  <2>8. Closes(c) \/ TakesIdle(c) \/ HasNoRoom(c) \/ \E n \in Worker : TakesNew(c, n) /\ ~closing
    BY <1>2 DEF Acquire, UsableAt, FirstAt, Skipped, Closes, TakesIdle, TakesNew, Counts, HasNoRoom
  <2> QED
    BY <2>4, <2>5, <2>6, <2>7, <2>8
<1>3. CASE Submit(c)
  <2>1. cl[c].pc = "looking" /\ wk' = [wk EXCEPT ![cl[c].w].inbox = Append(@, c)]
        /\ closing' = closing
    BY <1>3 DEF Submit
  <2>2. ASSUME NEW w \in Worker PROVE ToldOfEnd(wk'[w], closing)
    <3>1. wk'[w] = wk[w] \/ wk'[w] = [wk[w] EXCEPT !.inbox = Append(@, c)]
      BY <1>0, <2>1
    <3>2. wk[w] \in WorkerState /\ ToldOfEnd(wk[w], closing)
      BY <1>0 DEF EndsAreTold
    <3> QED
      BY <3>1, <3>2, QueuedIsTold
  <2> QED
    BY <2>1, <2>2 DEF EndsAreTold
<1>4. ASSUME NEW broken \in BOOLEAN, Release(c, broken) PROVE EndsAreTold'
  <2> DEFINE v == cl[c].w
             r == Orphaned(wk[v], c)
  <2>1. /\ closing' = closing
        /\ \/ wk' = [wk EXCEPT ![v] = Recycled(Killed(r))] \/ wk' = [wk EXCEPT ![v] = r]
    BY <1>4 DEF Release
  <2>2. ASSUME NEW w \in Worker PROVE ToldOfEnd(wk'[w], closing)
    <3>1. wk[w] \in WorkerState /\ ToldOfEnd(wk[w], closing)
      BY <1>0 DEF EndsAreTold
    <3>2. CASE w # v
      BY <1>0, <2>1, <3>1, <3>2
    <3>3. CASE w = v
      <4>1. r \in WorkerState /\ ToldOfEnd(r, closing)
        BY <3>1, <3>3, OrphanedType, OrphanedIsTold
      <4>2. wk'[w] = r \/ wk'[w] = Recycled(Killed(r))
        BY <1>0, <2>1, <3>3
      <4> HIDE DEF r
      <4> QED
        BY <4>1, <4>2, KilledIsTold
    <3> QED
      BY <3>2, <3>3
  <2> QED
    BY <2>1, <2>2 DEF EndsAreTold
<1> QED
  BY <1>1, <1>2, <1>3, <1>4 DEF Request, Resolve, CacheHit, CacheMiss, DirectDone, FoundInCache,
     Answer, Listed, SetCache, Failed, Timeout, CancelRequest, poolVars

\* The steps of a worker: the news goes only when the session closes for it, and the
\* closing ends with the task.
LEMMA WorkersHear ==
    ASSUME PoolInv, EndsAreTold, NEW w \in Worker, Work(w)
    PROVE  EndsAreTold'
<1>0. /\ wk \in [Worker -> WorkerState] /\ wk[w] \in WorkerState /\ ToldOfEnd(wk[w], closing)
      /\ closing' = closing
  BY DEF PoolInv, TypeOK, EndsAreTold, Work, Starts, NeverStarts, Opened, OpenFails, Takes,
         OpDone, IdleTooLong, SessionClosed, Cancelled, Ages, Ends
<1> SUFFICES ToldOfEnd(wk'[w], closing) /\ \A v \in Worker : v # w => wk'[v] = wk[v]
  BY <1>0 DEF EndsAreTold
<1>1. ASSUME NEW r, wk' = [wk EXCEPT ![w] = r], ToldOfEnd(r, closing)
      PROVE  ToldOfEnd(wk'[w], closing) /\ \A v \in Worker : v # w => wk'[v] = wk[v]
  BY <1>0, <1>1
<1>2. ASSUME NEW err, Ends(w, err)
      PROVE  \E r : wk' = [wk EXCEPT ![w] = r] /\ ToldOfEnd(r, closing)
  <2>1. CASE Referenced(w)
    <3> DEFINE r == [wk[w] EXCEPT !.task = "ended", !.gone = TRUE, !.cancel = FALSE,
                                  !.inbox = <<>>, !.cur = NoClient, !.err = err]
    <3>1. wk' = [wk EXCEPT ![w] = r] /\ r.task = "ended"
      BY <1>0, <1>2, <2>1 DEF Ends, WorkerState
    <3> HIDE DEF r
    <3> QED
      BY <3>1 DEF ToldOfEnd
  <2>2. CASE ~Referenced(w)
    BY <1>2, <2>2, FreeIsTold DEF Ends
  <2> QED
    BY <2>1, <2>2
<1>3. CASE OpenFails(w) \/ SessionClosed(w)
  BY <1>1, <1>2, <1>3 DEF OpenFails, SessionClosed
<1>4. CASE Starts(w) \/ Opened(w)
  <2> DEFINE r == [wk[w] EXCEPT !.task = IF Starts(w) THEN "opening" ELSE "waiting"]
  <2>1. PICK t \in {"opening", "waiting"} : wk' = [wk EXCEPT ![w].task = t]
    BY <1>4 DEF Starts, Opened
  <2>2. /\ wk[w].task \in {"new", "opening"}
        /\ wk'[w].task = t /\ wk'[w].cancel = wk[w].cancel /\ wk'[w].gone = wk[w].gone
        /\ wk'[w].inbox = wk[w].inbox /\ \A v \in Worker : v # w => wk'[v] = wk[v]
    BY <1>0, <1>4, <2>1 DEF Starts, Opened, WorkerState
  <2> QED
    BY <1>0, <2>2 DEF ToldOfEnd, EndComes
<1>5. CASE NeverStarts(w)
  <2>1. wk'[w] = FreeWorker \/ wk'[w].task = "ended"
    BY <1>0, <1>5 DEF NeverStarts, WorkerState
  <2>2. \A v \in Worker : v # w => wk'[v] = wk[v]
    BY <1>0, <1>5 DEF NeverStarts
  <2> QED
    BY <2>1, <2>2, FreeIsTold DEF ToldOfEnd
<1>6. CASE Takes(w)
  <2> DEFINE item == Head(wk[w].inbox)
             rest == Tail(wk[w].inbox)
             task == IF item = Shutdown THEN "closing" ELSE "op"
             cur == IF item = Shutdown THEN NoClient ELSE item
  <2>1. /\ wk' = [wk EXCEPT ![w].inbox = rest, ![w].task = task, ![w].cur = cur]
        /\ wk[w].task = "waiting" /\ wk[w].inbox # <<>>
    BY <1>6 DEF Takes
  <2>2. wk[w].inbox \in Seq(Item)
    BY <1>0 DEF WorkerState, Item
  <2>3. \A i \in DOMAIN wk[w].inbox :
            wk[w].inbox[i] = item \/ \E j \in DOMAIN rest : rest[j] = wk[w].inbox[i]
    <3>1. ASSUME NEW i \in DOMAIN wk[w].inbox, i # 1
          PROVE  i - 1 \in DOMAIN rest /\ rest[i - 1] = wk[w].inbox[i]
      <4>1. /\ Len(wk[w].inbox) \in Nat /\ DOMAIN wk[w].inbox = 1 .. Len(wk[w].inbox)
            /\ rest \in Seq(Item) /\ Len(rest) = Len(wk[w].inbox) - 1
            /\ \A j \in 1 .. Len(rest) : rest[j] = wk[w].inbox[j + 1]
        BY <2>1, <2>2, HeadTailProperties, LenProperties
      <4>2. DOMAIN rest = 1 .. Len(rest)
        BY <4>1, LenProperties
      <4>3. PICK j \in 1 .. Len(rest) : j = i - 1 /\ j + 1 = i
        BY <3>1, <4>1
      <4> HIDE DEF rest
      <4> QED
        BY <4>1, <4>2, <4>3
    <3>2. item = wk[w].inbox[1]
      BY <2>1, <2>2, HeadTailProperties
    <3> QED
      BY <3>1, <3>2
  <2> HIDE DEF rest, item, cur
  <2>4. /\ wk'[w].inbox = rest /\ wk'[w].task = task /\ wk'[w].cancel = wk[w].cancel
        /\ wk'[w].gone = wk[w].gone /\ \A v \in Worker : v # w => wk'[v] = wk[v]
    BY <1>0, <2>1 DEF WorkerState
  <2> QED
    BY <1>0, <2>1, <2>3, <2>4 DEF ToldOfEnd, EndComes
<1>7. CASE OpDone(w)
  <2>1. PICK t \in {"waiting", "closing"} :
          wk' = [wk EXCEPT ![w].task = t, ![w].cur = NoClient]
    BY <1>7 DEF OpDone
  <2>2. /\ wk[w].task = "op" /\ wk'[w].task = t
        /\ wk'[w].cancel = wk[w].cancel /\ wk'[w].gone = wk[w].gone
        /\ wk'[w].inbox = wk[w].inbox /\ \A v \in Worker : v # w => wk'[v] = wk[v]
    BY <1>0, <1>7, <2>1 DEF OpDone, WorkerState
  <2> QED
    BY <1>0, <2>2 DEF ToldOfEnd, EndComes
<1>8. CASE IdleTooLong(w)
  <2>1. wk'[w].task = "closing" /\ \A v \in Worker : v # w => wk'[v] = wk[v]
    BY <1>0, <1>8 DEF IdleTooLong, WorkerState
  <2> QED
    BY <2>1 DEF ToldOfEnd, EndComes
<1>9. CASE Cancelled(w)
  <2>1. CASE \E err : Ends(w, err)
    BY <1>1, <1>2, <2>1
  <2>2. CASE ~\E err : Ends(w, err)
    <3>1. wk'[w].task = "closing" /\ \A v \in Worker : v # w => wk'[v] = wk[v]
      BY <1>0, <1>9, <2>2 DEF Cancelled, WorkerState
    <3> QED
      BY <3>1 DEF ToldOfEnd, EndComes
  <2> QED
    BY <2>1, <2>2
<1>a. CASE Ages(w)
  <2>1. /\ wk'[w].task = wk[w].task /\ wk'[w].cancel = wk[w].cancel
        /\ wk'[w].gone = wk[w].gone /\ wk'[w].inbox = wk[w].inbox
        /\ \A v \in Worker : v # w => wk'[v] = wk[v]
    BY <1>0, <1>a DEF Ages, WorkerState
  <2> QED
    BY <1>0, <2>1 DEF ToldOfEnd, EndComes
<1> QED
  BY <1>3, <1>4, <1>5, <1>6, <1>7, <1>8, <1>9, <1>a DEF Work

\* Invalidation kills, shutdown cancels all that are counted; the others were told before.
LEMMA PoolTells ==
    ASSUME PoolInv, EndsAreTold,
           ShutdownPool \/ \E s \in Server : Edit(s) \/ DropTools(s) \/ Invalidate(s) \/ ToolsExpire(s)
    PROVE  EndsAreTold'
<1>0. wk \in [Worker -> WorkerState] /\ all = {w \in Worker : ~wk[w].gone}
  BY DEF PoolInv, TypeOK, CountersExact
<1>1. CASE UNCHANGED <<wk, closing>>
  BY <1>1 DEF EndsAreTold
<1>2. ASSUME NEW s \in Server, Invalidate(s) PROVE EndsAreTold'
  <2>1. /\ closing' = closing
        /\ \A w \in Worker : wk'[w] = wk[w] \/ wk'[w] = Killed(wk[w])
    BY <1>2 DEF Invalidate
  <2> QED
    BY <1>0, <2>1, KilledIsTold DEF EndsAreTold
<1>3. CASE ShutdownPool
  <2> SUFFICES ASSUME NEW w \in Worker PROVE ToldOfEnd(wk'[w], closing')
    BY DEF EndsAreTold
  <2>1. wk'[w] = IF w \in all /\ Alive(w) THEN [wk[w] EXCEPT !.cancel = TRUE] ELSE wk[w]
    BY <1>3 DEF ShutdownPool
  <2>2. CASE w \in all /\ Alive(w)
    BY <1>0, <2>1, <2>2 DEF ToldOfEnd, EndComes, WorkerState
  <2>3. CASE ~Alive(w)
    BY <2>1, <2>3 DEF ToldOfEnd, Alive
  <2>4. CASE w \notin all
    BY <1>0, <2>1, <2>4 DEF EndsAreTold, ToldOfEnd
  <2> QED
    BY <2>2, <2>3, <2>4
<1> QED
  BY <1>1, <1>2, <1>3 DEF Edit, DropTools, ToolsExpire

\* No session is forgotten: the task of a worker that is out of the pool (skipped on the
\* way to another, released as broken, invalidated, idle for too long), or of any worker
\* once the pool shuts down, has a cancellation or a shutdown on its way to it, or is
\* closing its session (pool.py, _kill_locked, _lease, shutdown and run).
THEOREM SessionsAreToldToEnd == Spec => []EndsAreTold
<1>1. Init => EndsAreTold
  BY FreeIsTold DEF Init, EndsAreTold
<1>2. PoolInv /\ EndsAreTold /\ [Next]_vars => EndsAreTold'
  <2>1. UNCHANGED vars /\ EndsAreTold => EndsAreTold'
    BY DEF vars, EndsAreTold
  <2> QED
    BY <2>1, RequestsTell, WorkersHear, PoolTells DEF Next
<1> QED
  BY <1>1, <1>2, PoolInvariant, PTL DEF Spec
=============================================================================
