--------------------------- MODULE RateLimiterProofs ---------------------------
(***************************************************************************)
(* Theorems about RateLimiter, for any users, calls, rates, period and      *)
(* bounds.                                                                  *)
(***************************************************************************)
EXTENDS RateLimiter, TLAPS

\* Tokens are shares and rates in natural numbers: facts about their arithmetic.
LEMMA ProductNat == \A m, n \in Nat : m * n \in Nat
  OBVIOUS

\* Products of naturals grow with their factors.
LEMMA ProductGrows == \A m, n, r \in Nat : m <= n => m * r <= n * r
<1> SUFFICES ASSUME NEW m \in Nat, NEW n \in Nat, NEW r \in Nat, m <= n
             PROVE  m * r <= n * r
  OBVIOUS
<1>1. n - m \in Nat
  BY SMT
<1>2. (n - m) * r \in Nat
  BY <1>1, ProductNat
<1>3. (n - m) * r = n * r - m * r
  BY SMT
<1>4. m * r \in Nat /\ n * r \in Nat
  BY ProductNat
<1> QED
  BY <1>2, <1>3, <1>4

\* A product with the next natural.
LEMMA ProductStep == \A m, r \in Nat : (m + 1) * r = m * r + r
  BY SMT

\* Quotients of naturals are naturals.
LEMMA QuotientNat == \A m \in Nat, r \in Nat \ {0} : m \div r \in Nat
  BY SMT

\* A tick adds to a bucket what it takes from the load, so their sum stays within
\* the size, whether the bucket is full or not.
LEMMA Refill ==
    ASSUME NEW size \in Nat, NEW r \in Nat, NEW l \in Nat, NEW t \in Nat,
           l + AtMost(size, t) <= size
    PROVE  Less(l, r) + AtMost(size, t + r) <= size
  BY SMT DEF Less, AtMost

-----------------------------------------------------------------------------
(* Types *)

\* The sizes the limiter computes with are naturals.
LEMMA Sizes ==
    /\ Cost \in Nat \ {0} /\ BucketTtl \in Nat
    /\ \A b \in Bucket : Rate[b] \in Nat \ {0} /\ Capacity(b) \in Nat
BY RateAssumption, ProductNat DEF Cost, BucketTtl, Capacity

\* The buckets of a call, and the one whose lock it takes.
LEMMA OwnBuckets ==
    ASSUME NEW c \in LimitedCall
    PROVE  /\ Payer[c] \in Account /\ Payer[c] # AllUsers
           /\ BucketsOf(c) \subseteq {AllUsers, Payer[c]} /\ BucketsOf(c) \subseteq Bucket
           /\ LockOf(c) \in Bucket
           /\ \A s \in SUBSET BucketsOf(c) : First(c, s) \in Bucket
           /\ \A s \in SUBSET BucketsOf(c) : s # {} => First(c, s) \in s
<1>1. Payer[c] \in Account /\ Payer[c] # AllUsers
  BY RateAssumption
<1>2. BucketsOf(c) \subseteq {AllUsers, Payer[c]} /\ BucketsOf(c) \subseteq Bucket
  BY <1>1 DEF BucketsOf, Bucket
<1>3. \A s \in SUBSET BucketsOf(c) : First(c, s) \in Bucket
  BY <1>1 DEF First, Bucket
<1>4. \A s \in SUBSET BucketsOf(c) : s # {} => First(c, s) \in s
  BY <1>2 DEF First
<1> QED
  BY <1>1, <1>2, <1>3, <1>4 DEF LockOf

\* A call that has not begun is a call.
LEMMA NewCallType == NewCall \in Call
BY DEF NewCall, Call, Kinds

\* A bucket never holds more than its size.
LEMMA LevelType ==
    ASSUME LimiterTypeOK, NEW b \in Bucket
    PROVE  Level(b) \in Nat /\ Level(b) <= Capacity(b)
<1>1. Capacity(b) \in Nat /\ Rate[b] \in Nat
  BY Sizes
<1>2. CASE bucket[b] = NotCached
  BY <1>1, <1>2 DEF Level
<1>3. CASE bucket[b] # NotCached
  <2>1. bucket[b] \in Token
    BY <1>3 DEF LimiterTypeOK
  <2>2. bucket[b].shares \in Nat /\ bucket[b].age \in Nat
    BY <2>1 DEF Token
  <2>3. bucket[b].age * Rate[b] \in Nat
    BY <2>2, <1>1, ProductNat
  <2> QED
    BY <1>1, <1>3, <2>2, <2>3 DEF Level, AtMost
<1> QED
  BY <1>2, <1>3

\* What a bucket tells a caller to wait is a natural.
LEMMA WaitType ==
    ASSUME NEW b \in Bucket, NEW shares \in Nat, shares < Cost
    PROVE  Wait(b, shares) \in Nat
<1>1. Rate[b] \in Nat \ {0} /\ Cost \in Nat
  BY Sizes
<1>2. Cost - shares + Rate[b] - 1 \in Nat
  BY <1>1
<1> QED
  BY <1>1, <1>2, QuotientNat DEF Wait

\* Giving back the locks of a call leaves a table of holders.
LEMMA UnlockedType ==
    ASSUME LimiterTypeOK, NEW c \in LimitedCall
    PROVE  Unlocked(c) \in [Bucket -> LimitedCall \cup {NoCall}]
BY DEF Unlocked, LimiterTypeOK

\* A call that learned its limit is a call.
LEMMA LimitedType ==
    ASSUME calls \in [LimitedCall -> Call], NEW c \in LimitedCall, NEW kinds \in Kinds,
           Limited(c, kinds)
    PROVE  calls' \in [LimitedCall -> Call]
<1> DEFINE pc == IF kinds = {} THEN "granted" ELSE "limited"
<1>1. calls' = [calls EXCEPT ![c] = [calls[c] EXCEPT !.kinds = kinds, !.pc = pc]]
  BY DEF Limited
<1>2. pc \in {"granted", "limited"}
  OBVIOUS
<1> HIDE DEF pc
<1>3. [calls[c] EXCEPT !.kinds = kinds, !.pc = pc] \in Call
  BY <1>2 DEF Call
<1> QED
  BY <1>1, <1>3

\* Every step keeps the types.
LEMMA TypeStep ==
    ASSUME LimiterTypeOK, LimiterNext
    PROVE  LimiterTypeOK'
<1>1. ASSUME NEW c \in LimitedCall, HitsCache(c)
      PROVE  LimiterTypeOK'
  <2>1. cached \in Kinds /\ calls[c] \in Call
    BY <1>1 DEF LimiterTypeOK, HitsCache
  <2> QED
    BY <1>1, <2>1, LimitedType DEF HitsCache, LimiterTypeOK
<1>2. ASSUME NEW c \in LimitedCall, ReadsRow(c)
      PROVE  LimiterTypeOK'
  <2>1. calls' = [calls EXCEPT ![c] = [calls[c] EXCEPT !.pc = "read", !.kinds = limit]]
    BY <1>2 DEF ReadsRow
  <2>2. calls[c] \in Call /\ limit \in Kinds
    BY DEF LimiterTypeOK
  <2>3. [calls[c] EXCEPT !.pc = "read", !.kinds = limit] \in Call
    BY <2>2 DEF Call
  <2> QED
    BY <1>2, <2>1, <2>3 DEF LimiterTypeOK, ReadsRow
<1>3. ASSUME NEW c \in LimitedCall, FillsCache(c)
      PROVE  LimiterTypeOK'
  <2>1. calls[c].kinds \in Kinds
    BY DEF LimiterTypeOK, Call
  <2> QED
    BY <1>3, <2>1, LimitedType DEF FillsCache, LimiterTypeOK
<1>4. ASSUME NEW c \in LimitedCall, EntersLock(c)
      PROVE  LimiterTypeOK'
  <2>1. PICK ok \in BOOLEAN :
          /\ ok = \A b \in BucketsOf(c) : Level(b) >= Cost
          /\ calls' = [calls EXCEPT ![c].pc = "inside", ![c].ok = ok, ![c].left = BucketsOf(c),
                        ![c].shares = [b \in Bucket |->
                            IF b \notin BucketsOf(c) THEN 0
                            ELSE Level(b) - (IF ok THEN Cost ELSE 0)]]
    BY <1>4 DEF EntersLock
  <2> DEFINE left == [b \in Bucket |-> IF b \notin BucketsOf(c) THEN 0
                                       ELSE Level(b) - (IF ok THEN Cost ELSE 0)]
  <2>2. left \in [Bucket -> Nat]
    <3>1. ASSUME NEW b \in Bucket, b \in BucketsOf(c)
          PROVE  Level(b) - (IF ok THEN Cost ELSE 0) \in Nat
      <4>1. Level(b) \in Nat /\ Cost \in Nat
        BY LevelType, Sizes
      <4>2. CASE ok
        <5>1. Level(b) >= Cost
          BY <2>1, <3>1, <4>2, Zenon
        <5> QED
          BY <4>1, <4>2, <5>1
      <4>3. CASE ~ok
        BY <4>1, <4>3
      <4> QED
        BY <4>2, <4>3
    <3> QED
      BY <3>1
  <2>3. calls[c] \in Call /\ BucketsOf(c) \in SUBSET Bucket
    BY OwnBuckets DEF LimiterTypeOK
  <2> HIDE DEF left
  <2>4. calls' = [calls EXCEPT ![c] = [calls[c] EXCEPT !.pc = "inside", !.ok = ok,
                                         !.left = BucketsOf(c), !.shares = left]]
    BY <2>1 DEF left, LimiterTypeOK
  <2>5. [calls[c] EXCEPT !.pc = "inside", !.ok = ok, !.left = BucketsOf(c),
                         !.shares = left] \in Call
    BY <2>2, <2>3 DEF Call
  <2>6. calls' \in [LimitedCall -> Call]
    BY <2>4, <2>5 DEF LimiterTypeOK
  <2>7. holder' \in [Bucket -> LimitedCall \cup {NoCall}]
    BY <1>4, OwnBuckets DEF EntersLock, LimiterTypeOK
  <2> QED
    BY <1>4, <2>6, <2>7 DEF EntersLock, LimiterTypeOK
<1>5. ASSUME NEW c \in LimitedCall, WritesBucket(c)
      PROVE  LimiterTypeOK'
  <2> DEFINE b == First(c, calls[c].left)
  <2>1. b \in Bucket
    BY OwnBuckets DEF First, Bucket
  <2>2. calls[c] \in Call
    BY DEF LimiterTypeOK
  <2>3. [shares |-> calls[c].shares[b], age |-> 0] \in Token
    BY <2>1, <2>2 DEF Call, Token
  <2>4. /\ bucket' = [bucket EXCEPT ![b] = [shares |-> calls[c].shares[b], age |-> 0]]
        /\ calls' = [calls EXCEPT ![c].left = @ \ {b}]
    BY <1>5 DEF WritesBucket
  <2> HIDE DEF b
  <2>5. bucket' \in [Bucket -> Token \cup {NotCached}]
    BY <2>1, <2>3, <2>4 DEF LimiterTypeOK
  <2>6. calls' \in [LimitedCall -> Call]
    BY <2>2, <2>4 DEF LimiterTypeOK, Call
  <2> QED
    BY <1>5, <2>5, <2>6 DEF WritesBucket, LimiterTypeOK
<1>6. ASSUME NEW c \in LimitedCall, Passes(c)
      PROVE  LimiterTypeOK'
  <2>1. load' \in [Bucket -> Nat]
    BY <1>6, Sizes DEF Passes, LimiterTypeOK
  <2>2. calls' \in [LimitedCall -> Call]
    BY <1>6, NewCallType DEF Passes, LimiterTypeOK, Call
  <2> QED
    BY <1>6, <2>1, <2>2, UnlockedType DEF Passes, LimiterTypeOK
<1>7. ASSUME NEW c \in LimitedCall, Blocks(c)
      PROVE  LimiterTypeOK'
  <2>1. PICK b \in BucketsOf(c) :
          /\ calls[c].shares[b] < Cost
          /\ calls' = [calls EXCEPT ![c].pc = "sleeping", ![c].shares = NewCall.shares,
                                    ![c].wait = Wait(b, calls[c].shares[b])]
    BY <1>7 DEF Blocks
  <2>2. b \in Bucket /\ calls[c] \in Call
    BY OwnBuckets DEF LimiterTypeOK
  <2>3. Wait(b, calls[c].shares[b]) \in Nat
    BY <2>1, <2>2, WaitType DEF Call
  <2>4. NewCall.shares \in [Bucket -> Nat]
    BY NewCallType DEF Call
  <2>5. calls' \in [LimitedCall -> Call]
    BY <2>1, <2>2, <2>3, <2>4 DEF LimiterTypeOK, Call
  <2> QED
    BY <1>7, <2>5, UnlockedType, SMTT(30) DEF Blocks, LimiterTypeOK
<1>8. ASSUME NEW c \in LimitedCall, Wakes(c)
      PROVE  LimiterTypeOK'
  BY <1>8 DEF Wakes, LimiterTypeOK, Call
<1>9. ASSUME NEW c \in LimitedCall, CallsAgain(c)
      PROVE  LimiterTypeOK'
  <2>1. NewCall \in Call /\ [calls[c] EXCEPT !.pc = "limited"] \in Call
    BY NewCallType DEF LimiterTypeOK, Call
  <2>2. calls' \in [LimitedCall -> Call]
    BY <1>9, <2>1 DEF CallsAgain, LimiterTypeOK
  <2> QED
    BY <1>9, <2>2 DEF CallsAgain, LimiterTypeOK
<1>10. ASSUME NEW c \in LimitedCall, NEW died \in BOOLEAN, Ends(c, died)
       PROVE  LimiterTypeOK'
  <2>1. [NewCall EXCEPT !.pc = "gone"] \in Call
    BY NewCallType DEF Call
  <2>2. calls' \in [LimitedCall -> Call]
    BY <1>10, <2>1 DEF Ends, LimiterTypeOK
  <2> QED
    BY <1>10, <2>2, UnlockedType DEF Ends, LimiterTypeOK
<1>11. ASSUME NEW b \in Bucket, LockLapses(b)
       PROVE  LimiterTypeOK'
  BY <1>11 DEF LockLapses, LimiterTypeOK
<1>12. CASE CacheExpires
  BY <1>12 DEF CacheExpires, LimiterTypeOK
<1>13. CASE InvalidateLimit
  BY <1>13 DEF InvalidateLimit, LimiterTypeOK
<1>14. ASSUME NEW kinds \in Kinds, EditLimit(kinds)
       PROVE  LimiterTypeOK'
  BY <1>14 DEF EditLimit, LimiterTypeOK
<1>15. CASE TimePasses
  <2>1. bucket' \in [Bucket -> Token \cup {NotCached}]
    <3>1. \A b \in Bucket : Aged(b) \in Token \cup {NotCached}
      BY DEF Aged, LimiterTypeOK, Token
    <3> QED
      BY <1>15, <3>1 DEF TimePasses
  <2>2. load' \in [Bucket -> Nat]
    BY <1>15, Sizes DEF TimePasses, Less, LimiterTypeOK
  <2>3. calls' \in [LimitedCall -> Call]
    <3>1. ASSUME NEW c \in LimitedCall
          PROVE  [calls[c] EXCEPT !.wait = Less(@, 1)] \in Call
      <4>1. calls[c] \in Call /\ calls[c].wait \in Nat
        BY DEF LimiterTypeOK, Call
      <4>2. Less(calls[c].wait, 1) \in Nat
        BY <4>1 DEF Less
      <4> QED
        BY <4>1, <4>2 DEF Call
    <3> QED
      BY <1>15, <3>1 DEF TimePasses
  <2> QED
    BY <1>15, <2>1, <2>2, <2>3 DEF TimePasses, LimiterTypeOK
<1> QED
  BY <1>1, <1>2, <1>3, <1>4, <1>5, <1>6, <1>7, <1>8, <1>9, <1>10, <1>11, <1>12, <1>13,
     <1>14, <1>15 DEF LimiterNext, LimitedStep

\* The initial state is well typed.
LEMMA InitTypes == LimiterInit => LimiterTypeOK
<1> SUFFICES ASSUME LimiterInit
             PROVE  LimiterTypeOK
  OBVIOUS
<1>1. limit \in Kinds /\ cached \in Kinds \cup {Miss} /\ editing \in BOOLEAN
  BY DEF LimiterInit
<1>2. bucket \in [Bucket -> Token \cup {NotCached}]
  BY DEF LimiterInit
<1>3. holder \in [Bucket -> LimitedCall \cup {NoCall}]
  BY DEF LimiterInit
<1>4. calls \in [LimitedCall -> Call]
  BY NewCallType DEF LimiterInit
<1>5. load \in [Bucket -> Nat] /\ upsets \in [edits : Nat, deaths : Nat]
  BY DEF LimiterInit
<1> QED
  BY <1>1, <1>2, <1>3, <1>4, <1>5 DEF LimiterTypeOK

\* Every reachable state is well typed (core/rate_limit.py): what a call leaves in a
\* bucket and the time it sleeps are never negative.
THEOREM LimiterTypes == LimiterSpec => []LimiterTypeOK
<1>1. LimiterInit => LimiterTypeOK
  BY InitTypes
<1>2. LimiterTypeOK /\ [LimiterNext]_limiterVars => LimiterTypeOK'
  <2>1. LimiterTypeOK /\ UNCHANGED limiterVars => LimiterTypeOK'
    BY DEF LimiterTypeOK, limiterVars
  <2> QED
    BY <2>1, TypeStep
<1> QED
  BY <1>1, <1>2, PTL DEF LimiterSpec

-----------------------------------------------------------------------------
(* The invariant.  A call inside a lock has booked the tokens it is about to   *)
(* take: they are in no bucket's level and no bucket's load.                   *)

LocksHeld == \A c \in LimitedCall : calls[c].pc = "inside" => holder[LockOf(c)] = c

LimitSeen ==
    upsets.edits = 0 =>
        /\ cached \in {Miss, limit}
        /\ \A c \in LimitedCall : calls[c].pc \notin {"start", "gone"} => calls[c].kinds = limit

LeftAreOwn ==
    \A c \in LimitedCall : calls[c].pc = "inside" => calls[c].left \subseteq BucketsOf(c)

Price(c) == IF calls[c].ok THEN Cost ELSE 0

Booked(c, b) ==
    calls[c].pc = "inside" /\ b \in BucketsOf(c) /\ Watched(b) =>
        /\ load[b] + calls[c].shares[b] + Price(c) <= Capacity(b)
        /\ b \notin calls[c].left => load[b] + Level(b) + Price(c) <= Capacity(b)

Covered(b) ==
    /\ load[b] <= Capacity(b)
    /\ Watched(b) => load[b] + Level(b) <= Capacity(b)

Accounts == \A b \in Bucket : Covered(b) /\ \A c \in LimitedCall : Booked(c, b)

LimiterInv == LimiterTypeOK /\ LocksHeld /\ LimitSeen /\ LeftAreOwn /\ Accounts

\* What the steps of a call do to the calls.
LEMMA Entering ==
    ASSUME LimiterTypeOK, NEW c \in LimitedCall, EntersLock(c)
    PROVE  /\ calls'[c].pc = "inside" /\ calls'[c].kinds = calls[c].kinds
           /\ calls'[c].left = BucketsOf(c) /\ calls'[c].ok \in BOOLEAN
           /\ calls'[c].ok <=> \A b \in BucketsOf(c) : Level(b) >= Cost
           /\ \A b \in BucketsOf(c) :
                 calls'[c].shares[b] = Level(b) - (IF calls'[c].ok THEN Cost ELSE 0)
           /\ \A d \in LimitedCall \ {c} : calls'[d] = calls[d]
<1>1. PICK ok \in BOOLEAN :
        /\ ok = \A b \in BucketsOf(c) : Level(b) >= Cost
        /\ calls' = [calls EXCEPT ![c].pc = "inside", ![c].ok = ok, ![c].left = BucketsOf(c),
                      ![c].shares = [b \in Bucket |->
                          IF b \notin BucketsOf(c) THEN 0
                          ELSE Level(b) - (IF ok THEN Cost ELSE 0)]]
  BY DEF EntersLock
<1>2. ok <=> \A b \in BucketsOf(c) : Level(b) >= Cost
  BY <1>1, Zenon
<1> DEFINE left == [b \in Bucket |-> IF b \notin BucketsOf(c) THEN 0
                                     ELSE Level(b) - (IF ok THEN Cost ELSE 0)]
<1>3. \A b \in BucketsOf(c) : left[b] = Level(b) - (IF ok THEN Cost ELSE 0)
  BY OwnBuckets
<1>4. calls' = [calls EXCEPT ![c].pc = "inside", ![c].ok = ok, ![c].left = BucketsOf(c),
                  ![c].shares = left]
  BY <1>1
<1> HIDE DEF left
<1>5. calls[c] \in Call /\ calls \in [LimitedCall -> Call]
  BY DEF LimiterTypeOK
<1>6. /\ calls'[c].pc = "inside" /\ calls'[c].kinds = calls[c].kinds
      /\ calls'[c].left = BucketsOf(c) /\ calls'[c].ok = ok /\ calls'[c].shares = left
  BY <1>4, <1>5 DEF Call
<1>7. \A d \in LimitedCall \ {c} : calls'[d] = calls[d]
  BY <1>4, <1>5
<1> QED
  BY <1>2, <1>3, <1>6, <1>7

\* A call that writes a bucket stays inside, with one bucket less to write.
LEMMA Writing ==
    ASSUME LimiterTypeOK, NEW c \in LimitedCall, WritesBucket(c)
    PROVE  /\ calls'[c].pc = "inside" /\ calls'[c].kinds = calls[c].kinds
           /\ calls'[c].ok = calls[c].ok /\ calls'[c].shares = calls[c].shares
           /\ calls'[c].left = calls[c].left \ {First(c, calls[c].left)}
           /\ \A d \in LimitedCall \ {c} : calls'[d] = calls[d]
<1> DEFINE b == First(c, calls[c].left)
<1>1. calls[c].pc = "inside" /\ calls' = [calls EXCEPT ![c].left = @ \ {b}]
  BY DEF WritesBucket
<1> HIDE DEF b
<1>2. calls[c] \in Call /\ calls \in [LimitedCall -> Call]
  BY DEF LimiterTypeOK
<1>3. /\ calls'[c].pc = "inside" /\ calls'[c].kinds = calls[c].kinds
      /\ calls'[c].ok = calls[c].ok /\ calls'[c].shares = calls[c].shares
      /\ calls'[c].left = calls[c].left \ {b}
      /\ \A d \in LimitedCall \ {c} : calls'[d] = calls[d]
  BY <1>1, <1>2 DEF Call
<1> QED
  BY <1>3 DEF b

\* A call that passed or was blocked is inside no longer; the others stay.
LEMMA Leaving ==
    ASSUME LimiterTypeOK, NEW c \in LimitedCall, Passes(c) \/ Blocks(c)
    PROVE  /\ calls'[c].pc # "inside" /\ calls'[c].kinds = calls[c].kinds
           /\ \A d \in LimitedCall \ {c} : calls'[d] = calls[d]
<1>1. calls[c] \in Call /\ calls \in [LimitedCall -> Call]
  BY DEF LimiterTypeOK
<1>2. CASE Passes(c)
  BY <1>1, <1>2 DEF Passes, Call
<1>3. CASE Blocks(c)
  <2>1. PICK n : calls' = [calls EXCEPT ![c].pc = "sleeping", ![c].shares = NewCall.shares,
                                        ![c].wait = n]
    BY <1>3 DEF Blocks
  <2> QED
    BY <1>1, <2>1 DEF Call
<1> QED
  BY <1>2, <1>3

\* The steps before the locks and after them are outside.
LEMMA Outside ==
    ASSUME LimiterTypeOK, NEW c \in LimitedCall,
           \/ HitsCache(c) \/ ReadsRow(c) \/ FillsCache(c) \/ Wakes(c) \/ CallsAgain(c)
           \/ \E died \in BOOLEAN : Ends(c, died)
    PROVE  /\ calls'[c].pc # "inside"
           /\ \A d \in LimitedCall \ {c} : calls'[d] = calls[d]
<1>1. calls[c] \in Call /\ calls \in [LimitedCall -> Call]
  BY DEF LimiterTypeOK
<1>2. CASE HitsCache(c) \/ FillsCache(c)
  <2>1. PICK kinds : Limited(c, kinds)
    BY <1>2 DEF HitsCache, FillsCache
  <2> QED
    BY <1>1, <2>1 DEF Limited, Call
<1>3. CASE ReadsRow(c)
  BY <1>1, <1>3 DEF ReadsRow, Call
<1>4. CASE Wakes(c)
  BY <1>1, <1>4 DEF Wakes, Call
<1>5. CASE CallsAgain(c)
  <2>1. CASE calls' = [calls EXCEPT ![c] = NewCall]
    BY <1>1, <2>1 DEF NewCall
  <2>2. CASE calls' = [calls EXCEPT ![c].pc = "limited"]
    BY <1>1, <2>2 DEF Call
  <2> QED
    BY <1>5, <2>1, <2>2 DEF CallsAgain
<1>6. CASE \E died \in BOOLEAN : Ends(c, died)
  <2>1. calls' = [calls EXCEPT ![c] = [NewCall EXCEPT !.pc = "gone"]]
    BY <1>6 DEF Ends
  <2> QED
    BY <1>1, <2>1 DEF NewCall
<1> QED
  BY <1>2, <1>3, <1>4, <1>5, <1>6

\* Time passes only while no call is inside, and moves none.
LEMMA Ticking ==
    ASSUME LimiterTypeOK, TimePasses, NEW d \in LimitedCall
    PROVE  /\ calls[d].pc # "inside" /\ calls'[d].pc = calls[d].pc
           /\ calls'[d].kinds = calls[d].kinds
<1>1. calls[d] \in Call
  BY DEF LimiterTypeOK
<1>2. calls'[d] = [calls[d] EXCEPT !.wait = Less(@, 1)]
  BY DEF TimePasses
<1> QED
  BY <1>1, <1>2 DEF Call, TimePasses

\* The limit changes only by an edit, and edits are counted.
LEMMA Editing ==
    ASSUME LimiterTypeOK, LimiterNext
    PROVE  upsets'.edits # 0 \/ (limit' = limit /\ upsets'.edits = upsets.edits)
<1>1. upsets.edits \in Nat /\ upsets \in [edits : Nat, deaths : Nat]
  BY DEF LimiterTypeOK
<1>2. ASSUME NEW kinds \in Kinds, EditLimit(kinds)
      PROVE  upsets'.edits # 0
  BY <1>1, <1>2 DEF EditLimit
<1>3. ASSUME NEW c \in LimitedCall, NEW died \in BOOLEAN, Ends(c, died)
      PROVE  limit' = limit /\ upsets'.edits = upsets.edits
  BY <1>1, <1>3 DEF Ends
<1>4. ASSUME NEW c \in LimitedCall, LimitedStep(c) \/ CallsAgain(c)
      PROVE  limit' = limit /\ upsets' = upsets
  BY <1>4 DEF LimitedStep, HitsCache, ReadsRow, FillsCache, EntersLock, WritesBucket, Passes,
     Blocks, Wakes, CallsAgain
<1>5. ASSUME \/ \E b \in Bucket : LockLapses(b)
             \/ CacheExpires \/ InvalidateLimit \/ TimePasses
      PROVE  limit' = limit /\ upsets' = upsets
  BY <1>5 DEF LockLapses, CacheExpires, InvalidateLimit, TimePasses
<1> QED
  BY <1>2, <1>3, <1>4, <1>5 DEF LimiterNext

\* Two calls are never inside with the same watched bucket: with one limit in sight
\* they take the same lock, and all users' bucket always comes first.
LEMMA InsideAlone ==
    ASSUME LimiterTypeOK, LocksHeld, LimitSeen,
           NEW c \in LimitedCall, NEW d \in LimitedCall, NEW b \in Bucket,
           calls[c].pc = "inside", calls[d].pc = "inside",
           b \in BucketsOf(c), b \in BucketsOf(d), Watched(b)
    PROVE  c = d
<1>1. holder[LockOf(c)] = c /\ holder[LockOf(d)] = d
  BY DEF LocksHeld
<1>2. CASE b = AllUsers
  <2>1. LockOf(c) = AllUsers /\ LockOf(d) = AllUsers
    BY <1>2 DEF LockOf, First
  <2> QED
    BY <1>1, <2>1
<1>3. CASE b # AllUsers
  <2>1. b = Payer[c] /\ b = Payer[d]
    BY <1>3, OwnBuckets
  <2>2. upsets.edits = 0
    BY <1>3 DEF Watched
  <2>3. calls[c].kinds = limit /\ calls[d].kinds = limit
    BY <2>2 DEF LimitSeen
  <2>4. LockOf(c) = LockOf(d)
    BY <2>1, <2>3 DEF LockOf, First, BucketsOf
  <2> QED
    BY <1>1, <2>4
<1> QED
  BY <1>2, <1>3

\* Every step leaves a call inside with its lock.
LEMMA LocksStep ==
    ASSUME LimiterTypeOK, LocksHeld, LimiterNext
    PROVE  LocksHeld'
<1> SUFFICES ASSUME NEW d \in LimitedCall, calls'[d].pc = "inside"
             PROVE  holder'[LockOf(d)'] = d
  BY DEF LocksHeld
<1>0. LockOf(d) \in Bucket
  BY OwnBuckets
<1>a. ASSUME calls'[d].kinds = calls[d].kinds
      PROVE  LockOf(d)' = LockOf(d)
  BY <1>a DEF LockOf, First, BucketsOf
<1>b. ASSUME calls[d].pc = "inside", calls'[d].kinds = calls[d].kinds, UNCHANGED holder
      PROVE  holder'[LockOf(d)'] = d
  BY <1>a, <1>b DEF LocksHeld
<1>c. ASSUME NEW c \in LimitedCall, c # d, calls[d].pc = "inside",
             calls'[d].kinds = calls[d].kinds, holder' = Unlocked(c)
      PROVE  holder'[LockOf(d)'] = d
  BY <1>0, <1>a, <1>c DEF LocksHeld, Unlocked
<1>1. ASSUME NEW c \in LimitedCall,
             HitsCache(c) \/ ReadsRow(c) \/ FillsCache(c) \/ WritesBucket(c) \/ Wakes(c)
             \/ CallsAgain(c)
      PROVE  holder'[LockOf(d)'] = d
  <2>1. calls[d].pc = "inside" /\ calls'[d].kinds = calls[d].kinds
    BY <1>1, Outside, Writing DEF WritesBucket
  <2> QED
    BY <1>1, <1>b, <2>1 DEF HitsCache, ReadsRow, FillsCache, WritesBucket, Wakes, CallsAgain
<1>2. ASSUME NEW c \in LimitedCall, EntersLock(c)
      PROVE  holder'[LockOf(d)'] = d
  <2>1. calls'[d].kinds = calls[d].kinds /\ (d # c => calls[d].pc = "inside")
    BY <1>2, Entering
  <2>2. holder[LockOf(c)] = NoCall /\ holder' = [holder EXCEPT ![LockOf(c)] = c]
    BY <1>2 DEF EntersLock
  <2>3. CASE d = c
    BY <1>0, <1>a, <2>1, <2>2, <2>3 DEF LimiterTypeOK
  <2>4. CASE d # c
    <3>1. holder[LockOf(d)] = d
      BY <2>1, <2>4 DEF LocksHeld
    <3>2. LockOf(d) # LockOf(c)
      BY <2>2, <3>1, RateAssumption
    <3> QED
      BY <1>0, <1>a, <2>1, <2>2, <3>1, <3>2
  <2> QED
    BY <2>3, <2>4
<1>3. ASSUME NEW c \in LimitedCall, Passes(c) \/ Blocks(c)
      PROVE  holder'[LockOf(d)'] = d
  <2>1. holder' = Unlocked(c)
    BY <1>3 DEF Passes, Blocks
  <2>2. c # d /\ calls[d].pc = "inside" /\ calls'[d].kinds = calls[d].kinds
    BY <1>3, Leaving
  <2> QED
    BY <1>c, <2>1, <2>2
<1>4. ASSUME NEW c \in LimitedCall, NEW died \in BOOLEAN, Ends(c, died)
      PROVE  holder'[LockOf(d)'] = d
  <2>1. c # d /\ calls[d].pc = "inside" /\ calls'[d].kinds = calls[d].kinds
    BY <1>4, Outside
  <2> QED
    BY <1>4, <1>b, <1>c, <2>1 DEF Ends
<1>5. ASSUME NEW b \in Bucket, LockLapses(b)
      PROVE  holder'[LockOf(d)'] = d
  BY <1>0, <1>a, <1>5 DEF LockLapses, LocksHeld
<1>6. ASSUME CacheExpires \/ InvalidateLimit \/ \E kinds \in Kinds : EditLimit(kinds)
      PROVE  holder'[LockOf(d)'] = d
  BY <1>6, <1>b DEF CacheExpires, InvalidateLimit, EditLimit
<1>7. CASE TimePasses
  BY <1>7, Ticking
<1> QED
  BY <1>1, <1>2, <1>3, <1>4, <1>5, <1>6, <1>7 DEF LimiterNext, LimitedStep

\* Every step keeps what is known of an unedited limit.
LEMMA LimitStep ==
    ASSUME LimiterTypeOK, LimitSeen, LimiterNext
    PROVE  LimitSeen'
<1> SUFFICES ASSUME upsets'.edits = 0
             PROVE  /\ cached' \in {Miss, limit'}
                    /\ \A c \in LimitedCall :
                          calls'[c].pc \notin {"start", "gone"} => calls'[c].kinds = limit'
  BY DEF LimitSeen
<1>1. \A kinds \in Kinds : ~EditLimit(kinds)
  <2>1. upsets.edits \in Nat /\ upsets \in [edits : Nat, deaths : Nat]
    BY DEF LimiterTypeOK
  <2> QED
    BY <2>1 DEF EditLimit
<1>2. upsets.edits = 0 /\ limit' = limit
  BY Editing
<1>3. /\ cached \in {Miss, limit}
      /\ \A c \in LimitedCall : calls[c].pc \notin {"start", "gone"} => calls[c].kinds = limit
  BY <1>2 DEF LimitSeen
<1>4. ASSUME NEW c \in LimitedCall,
             HitsCache(c) \/ ReadsRow(c) \/ FillsCache(c) \/ EntersLock(c) \/ WritesBucket(c)
             \/ Passes(c) \/ Blocks(c) \/ Wakes(c) \/ CallsAgain(c)
      PROVE  cached' \in {Miss, limit}
  BY <1>3, <1>4 DEF HitsCache, ReadsRow, FillsCache, EntersLock, WritesBucket, Passes, Blocks,
     Wakes, CallsAgain
<1>5. cached' \in {Miss, limit}
  BY <1>1, <1>3, <1>4 DEF LimiterNext, LimitedStep, Ends, LockLapses, CacheExpires,
     InvalidateLimit, TimePasses
<1>6. ASSUME NEW d \in LimitedCall, calls'[d].pc \notin {"start", "gone"}
      PROVE  calls'[d].kinds = limit
  <2>a. calls[d] \in Call /\ calls \in [LimitedCall -> Call]
    BY DEF LimiterTypeOK
  <2>0. ASSUME calls'[d] = calls[d]
        PROVE  calls'[d].kinds = limit
    BY <1>3, <1>6, <2>0
  <2>1. ASSUME NEW c \in LimitedCall, HitsCache(c) \/ ReadsRow(c) \/ FillsCache(c)
        PROVE  calls'[d].kinds = limit
    <3>1. CASE c = d /\ HitsCache(c)
      BY <1>3, <2>a, <3>1 DEF HitsCache, Limited, Call
    <3>2. CASE c = d /\ FillsCache(c)
      BY <1>3, <2>a, <3>2 DEF FillsCache, Limited, Call
    <3>3. CASE c = d /\ ReadsRow(c)
      BY <2>a, <3>3 DEF ReadsRow, Call
    <3>4. CASE c # d
      BY <2>0, <2>1, <3>4, Outside
    <3> QED
      BY <2>1, <3>1, <3>2, <3>3, <3>4
  <2>2. ASSUME NEW c \in LimitedCall,
               EntersLock(c) \/ WritesBucket(c) \/ Passes(c) \/ Blocks(c)
        PROVE  calls'[d].kinds = limit
    <3>1. calls[c].pc \notin {"start", "gone"}
      BY <2>2 DEF EntersLock, WritesBucket, Passes, Blocks
    <3>2. calls'[c].kinds = calls[c].kinds /\ (c # d => calls'[d] = calls[d])
      BY <2>2, Entering, Writing, Leaving
    <3> QED
      BY <1>3, <2>0, <3>1, <3>2
  <2>3. ASSUME NEW c \in LimitedCall, Wakes(c)
        PROVE  calls'[d].kinds = limit
    BY <1>3, <1>6, <2>a, <2>3 DEF Wakes, Call
  <2>4. ASSUME NEW c \in LimitedCall, CallsAgain(c)
        PROVE  calls'[d].kinds = limit
    <3>1. CASE c = d /\ calls' = [calls EXCEPT ![c] = NewCall]
      BY <1>6, <2>a, <3>1 DEF NewCall
    <3>2. CASE c = d /\ calls' = [calls EXCEPT ![c].pc = "limited"]
      BY <1>3, <2>4, <2>a, <3>2 DEF CallsAgain, Call
    <3>3. CASE c # d
      BY <2>0, <2>4, <3>3, Outside
    <3> QED
      BY <2>4, <3>1, <3>2, <3>3 DEF CallsAgain
  <2>5. ASSUME NEW c \in LimitedCall, NEW died \in BOOLEAN, Ends(c, died)
        PROVE  calls'[d].kinds = limit
    <3>1. CASE c = d
      <4>1. calls'[d].pc = "gone"
        BY <2>5, <2>a, <3>1 DEF Ends, NewCall
      <4> QED
        BY <1>6, <4>1
    <3>2. CASE c # d
      BY <2>0, <2>5, <3>2, Outside
    <3> QED
      BY <3>1, <3>2
  <2>6. CASE TimePasses
    BY <1>3, <1>6, <2>6, Ticking
  <2>7. CASE UNCHANGED calls
    BY <1>3, <1>6, <2>7
  <2> QED
    BY <1>1, <2>1, <2>2, <2>3, <2>4, <2>5, <2>6, <2>7
       DEF LimiterNext, LimitedStep, LockLapses, CacheExpires, InvalidateLimit
<1> QED
  BY <1>2, <1>5, <1>6

\* Every step leaves a call only buckets of its own to write.
LEMMA LeftStep ==
    ASSUME LimiterTypeOK, LeftAreOwn, LimiterNext
    PROVE  LeftAreOwn'
<1> SUFFICES ASSUME NEW d \in LimitedCall, calls'[d].pc = "inside"
             PROVE  calls'[d].left \subseteq BucketsOf(d)'
  BY DEF LeftAreOwn
<1>a. ASSUME calls[d].pc = "inside", calls'[d].kinds = calls[d].kinds,
             calls'[d].left \subseteq calls[d].left
      PROVE  calls'[d].left \subseteq BucketsOf(d)'
  BY <1>a DEF LeftAreOwn, BucketsOf
<1>1. ASSUME NEW c \in LimitedCall,
             HitsCache(c) \/ ReadsRow(c) \/ FillsCache(c) \/ WritesBucket(c) \/ Wakes(c)
             \/ CallsAgain(c) \/ Passes(c) \/ Blocks(c)
      PROVE  calls'[d].left \subseteq BucketsOf(d)'
  <2>1. /\ calls[d].pc = "inside" /\ calls'[d].kinds = calls[d].kinds
        /\ calls'[d].left \subseteq calls[d].left
    BY <1>1, Outside, Writing, Leaving DEF WritesBucket
  <2> QED
    BY <1>a, <2>1
<1>2. ASSUME NEW c \in LimitedCall, EntersLock(c)
      PROVE  calls'[d].left \subseteq BucketsOf(d)'
  <2>1. calls'[d].kinds = calls[d].kinds
    BY <1>2, Entering
  <2>2. CASE d = c
    <3>1. calls'[d].left = BucketsOf(d)
      BY <1>2, <2>2, Entering
    <3> QED
      BY <2>1, <3>1 DEF BucketsOf
  <2>3. CASE d # c
    <3>1. calls'[d] = calls[d]
      BY <1>2, <2>3, Entering
    <3> QED
      BY <1>a, <3>1
  <2> QED
    BY <2>2, <2>3
<1>3. ASSUME NEW c \in LimitedCall, NEW died \in BOOLEAN, Ends(c, died)
      PROVE  calls'[d].left \subseteq BucketsOf(d)'
  <2>1. calls'[d] = calls[d]
    BY <1>3, Outside
  <2> QED
    BY <1>a, <2>1
<1>4. CASE UNCHANGED calls
  BY <1>a, <1>4
<1>5. CASE TimePasses
  BY <1>5, Ticking
<1> QED
  BY <1>1, <1>2, <1>3, <1>4, <1>5 DEF LimiterNext, LimitedStep, LockLapses, CacheExpires,
     InvalidateLimit, EditLimit

\* A step that changes no bucket and no load, and no call inside, changes no account.
LEMMA AccountsKept ==
    ASSUME Accounts, bucket' = bucket, load' = load,
           upsets'.edits = 0 => upsets.edits = 0,
           \A d \in LimitedCall : calls'[d].pc = "inside" => calls'[d] = calls[d]
    PROVE  Accounts'
<1> SUFFICES ASSUME NEW b \in Bucket
             PROVE  Covered(b)' /\ \A d \in LimitedCall : Booked(d, b)'
  BY DEF Accounts
<1>1. Level(b)' = Level(b) /\ (Watched(b)' => Watched(b))
  BY DEF Level, Watched
<1>2. Covered(b) /\ \A d \in LimitedCall : Booked(d, b)
  BY DEF Accounts
<1>3. Covered(b)'
  BY <1>1, <1>2 DEF Covered
<1>4. ASSUME NEW d \in LimitedCall
      PROVE  Booked(d, b)'
  BY <1>1, <1>2 DEF Booked, BucketsOf, Price
<1> QED
  BY <1>3, <1>4

\* Every step keeps the accounts of the buckets.
LEMMA AccountsStep ==
    ASSUME LimiterInv, LimiterNext
    PROVE  Accounts'
<1>0. LimiterTypeOK /\ LocksHeld /\ LimitSeen /\ LeftAreOwn /\ Accounts
  BY DEF LimiterInv
<1>a. upsets'.edits = 0 => upsets.edits = 0
  BY <1>0, Editing
<1>1. ASSUME NEW c \in LimitedCall,
             \/ HitsCache(c) \/ ReadsRow(c) \/ FillsCache(c) \/ Wakes(c) \/ CallsAgain(c)
             \/ \E died \in BOOLEAN : Ends(c, died)
             \/ Blocks(c)
      PROVE  Accounts'
  <2>1. \A d \in LimitedCall : calls'[d].pc = "inside" => calls'[d] = calls[d]
    BY <1>0, <1>1, Outside, Leaving
  <2>2. UNCHANGED <<bucket, load>>
    BY <1>1 DEF HitsCache, ReadsRow, FillsCache, Wakes, CallsAgain, Ends, Blocks
  <2> QED
    BY <1>0, <1>a, <2>1, <2>2, AccountsKept
<1>2. ASSUME NEW c \in LimitedCall, EntersLock(c)
      PROVE  Accounts'
  <2> SUFFICES ASSUME NEW b \in Bucket, NEW d \in LimitedCall
               PROVE  Covered(b)' /\ Booked(d, b)'
    BY DEF Accounts
  <2>1. UNCHANGED <<bucket, load, upsets>>
    BY <1>2 DEF EntersLock
  <2>2. Level(b)' = Level(b) /\ Watched(b)' = Watched(b)
    BY <2>1 DEF Level, Watched
  <2>3. Covered(b) /\ Booked(d, b)
    BY <1>0 DEF Accounts
  <2>4. Covered(b)'
    BY <2>1, <2>2, <2>3 DEF Covered
  <2>5. CASE d # c
    <3>1. calls'[d] = calls[d]
      BY <1>0, <1>2, <2>5, Entering
    <3> QED
      BY <2>1, <2>2, <2>3, <2>4, <3>1 DEF Booked, BucketsOf, Price
  <2>6. CASE d = c
    <3>1. BucketsOf(c)' = BucketsOf(c) /\ calls'[c].left = BucketsOf(c)
      BY <1>0, <1>2, Entering DEF BucketsOf
    <3>2. ASSUME b \in BucketsOf(c)
          PROVE  calls'[c].shares[b] + Price(c)' = Level(b)
      <4>1. calls'[c].shares[b] = Level(b) - Price(c)'
        BY <1>0, <1>2, <3>2, Entering DEF Price
      <4>2. Level(b) \in Nat /\ Price(c)' \in Nat
        BY <1>0, LevelType, Sizes DEF Price
      <4> QED
        BY <4>1, <4>2
    <3>3. load[b] \in Nat /\ Level(b) \in Nat /\ Price(c)' \in Nat
      BY <1>0, LevelType, Sizes DEF LimiterTypeOK, Price
    <3>4. ASSUME b \in BucketsOf(c)
          PROVE  calls'[c].shares[b] \in Int
      BY <1>0, <1>2, <3>3, <3>4, Entering DEF Price
    <3>5. ASSUME b \in BucketsOf(c), Watched(b)
          PROVE  load'[b] + calls'[c].shares[b] + Price(c)' <= Capacity(b)
      BY <2>1, <2>3, <3>2, <3>3, <3>4, <3>5, Sizes DEF Covered
    <3> QED
      BY <2>2, <2>4, <2>6, <3>1, <3>5 DEF Booked, Capacity
  <2> QED
    BY <2>4, <2>5, <2>6
<1>3. ASSUME NEW c \in LimitedCall, WritesBucket(c)
      PROVE  Accounts'
  <2> DEFINE w == First(c, calls[c].left)
  <2>1. w \in calls[c].left /\ w \in BucketsOf(c) /\ w \in Bucket
    BY <1>0, <1>3, OwnBuckets DEF WritesBucket, LeftAreOwn
  <2>2. /\ calls[c].pc = "inside" /\ UNCHANGED <<load, upsets>>
        /\ bucket' = [bucket EXCEPT ![w] = [shares |-> calls[c].shares[w], age |-> 0]]
    BY <1>3 DEF WritesBucket
  <2>3. /\ calls'[c].pc = "inside" /\ calls'[c].kinds = calls[c].kinds
        /\ calls'[c].ok = calls[c].ok /\ calls'[c].shares = calls[c].shares
        /\ calls'[c].left = calls[c].left \ {w}
        /\ \A d \in LimitedCall \ {c} : calls'[d] = calls[d]
    BY <1>0, <1>3, Writing
  <2> HIDE DEF w
  <2> SUFFICES ASSUME NEW b \in Bucket, NEW d \in LimitedCall
               PROVE  Covered(b)' /\ Booked(d, b)'
    BY DEF Accounts
  <2>4. Covered(b) /\ Booked(d, b) /\ Booked(c, b) /\ Watched(b)' = Watched(b)
    BY <1>0, <2>2 DEF Accounts, Watched
  <2>5. BucketsOf(d)' = BucketsOf(d) /\ Price(d)' = Price(d)
    BY <2>3 DEF BucketsOf, Price
  <2>6. CASE b # w
    <3>1. Level(b)' = Level(b)
      BY <1>0, <2>1, <2>2, <2>6 DEF Level, LimiterTypeOK
    <3>2. Covered(b)'
      BY <2>2, <2>4, <3>1 DEF Covered
    <3>3. Booked(d, b)'
      BY <2>2, <2>3, <2>4, <2>5, <2>6, <3>1 DEF Booked
    <3> QED
      BY <3>2, <3>3
  <2>7. CASE b = w
    <3>1. calls[c].shares[b] \in Nat /\ load[b] \in Nat /\ Price(c) \in Nat
          /\ Capacity(b) \in Nat
      BY <1>0, Sizes DEF LimiterTypeOK, Call, Price
    <3>2. Level(b)' \in Nat /\ Level(b)' <= calls[c].shares[b]
      <4>1. bucket'[b] = [shares |-> calls[c].shares[b], age |-> 0]
        BY <1>0, <2>2, <2>7 DEF LimiterTypeOK
      <4>2. bucket'[b] # NotCached
        BY <4>1 DEF NotCached
      <4>3. Level(b)' = AtMost(Capacity(b), calls[c].shares[b] + 0 * Rate[b])
        BY <4>1, <4>2 DEF Level, Capacity, AtMost
      <4>4. Rate[b] \in Nat
        BY Sizes
      <4> QED
        BY <3>1, <4>3, <4>4 DEF AtMost
    <3>3. Watched(b) => load[b] + calls[c].shares[b] + Price(c) <= Capacity(b)
      BY <2>1, <2>2, <2>4, <2>7 DEF Booked
    <3>4. Watched(b) => load[b] + Level(b)' + Price(c) <= Capacity(b)
      BY <3>1, <3>2, <3>3
    <3>5. Covered(b)'
      BY <2>2, <2>4, <3>1, <3>2, <3>4 DEF Covered, Capacity
    <3>6. ASSUME Watched(b)
          PROVE  load'[b] + calls'[c].shares[b] + Price(c)' <= Capacity(b)
      <4>1. Price(c)' = Price(c) /\ load' = load
        BY <2>2, <2>3 DEF Price
      <4> QED
        BY <2>3, <3>3, <3>6, <4>1
    <3>7. CASE d = c
      <4>1. b \notin calls'[c].left
        BY <2>3, <2>7
      <4>2. Watched(b)' => load'[b] + Level(b)' + Price(c)' <= Capacity(b)
        BY <2>2, <2>4, <2>5, <3>4, <3>7
      <4> QED
        BY <2>4, <3>5, <3>6, <3>7, <4>1, <4>2 DEF Booked, Capacity
    <3>8. CASE d # c
      <4>1. ~(calls[d].pc = "inside" /\ b \in BucketsOf(d) /\ Watched(b))
        BY <1>0, <2>1, <2>2, <2>7, <3>8, InsideAlone
      <4> QED
        BY <2>3, <2>4, <2>5, <3>5, <3>8, <4>1 DEF Booked
    <3> QED
      BY <3>5, <3>8, <3>7
  <2> QED
    BY <2>6, <2>7
<1>4. ASSUME NEW c \in LimitedCall, Passes(c)
      PROVE  Accounts'
  <2>1. /\ calls[c].pc = "inside" /\ calls[c].left = {} /\ calls[c].ok
        /\ UNCHANGED <<bucket, upsets>>
        /\ load' = [b \in Bucket |-> IF b \in BucketsOf(c) /\ Watched(b)
                                     THEN load[b] + Cost ELSE load[b]]
    BY <1>4 DEF Passes
  <2>2. calls'[c].pc # "inside" /\ \A d \in LimitedCall \ {c} : calls'[d] = calls[d]
    BY <1>0, <1>4, Leaving
  <2> SUFFICES ASSUME NEW b \in Bucket, NEW d \in LimitedCall
               PROVE  Covered(b)' /\ Booked(d, b)'
    BY DEF Accounts
  <2>3. Covered(b) /\ Booked(d, b) /\ Booked(c, b)
    BY <1>0 DEF Accounts
  <2>4. Level(b)' = Level(b) /\ Watched(b)' = Watched(b)
    BY <2>1 DEF Level, Watched
  <2>5. CASE b \in BucketsOf(c) /\ Watched(b)
    <3>1. load'[b] = load[b] + Cost
      BY <2>1, <2>5
    <3>2. load[b] + Level(b) + Cost <= Capacity(b)
      BY <2>1, <2>3, <2>5 DEF Booked, Price
    <3>3. load[b] \in Nat /\ Level(b) \in Nat /\ Cost \in Nat /\ Capacity(b) \in Nat
      BY <1>0, LevelType, Sizes DEF LimiterTypeOK
    <3>4. Covered(b)'
      BY <2>4, <3>1, <3>2, <3>3 DEF Covered, Capacity
    <3>5. Booked(d, b)'
      <4>1. CASE d = c
        BY <2>2, <4>1 DEF Booked
      <4>2. CASE d # c
        <5>1. ~(calls[d].pc = "inside" /\ b \in BucketsOf(d))
          BY <1>0, <2>1, <2>5, <4>2, InsideAlone
        <5> QED
          BY <2>2, <4>2, <5>1 DEF Booked, BucketsOf
      <4> QED
        BY <4>1, <4>2
    <3> QED
      BY <3>4, <3>5
  <2>6. CASE ~(b \in BucketsOf(c) /\ Watched(b))
    <3>1. load'[b] = load[b]
      BY <2>1, <2>6
    <3>2. Covered(b)'
      BY <2>3, <2>4, <3>1 DEF Covered
    <3>3. Booked(d, b)'
      BY <2>2, <2>3, <2>4, <3>1 DEF Booked, BucketsOf, Price
    <3> QED
      BY <3>2, <3>3
  <2> QED
    BY <2>5, <2>6
<1>5. ASSUME \/ \E b \in Bucket : LockLapses(b)
             \/ CacheExpires \/ InvalidateLimit \/ \E kinds \in Kinds : EditLimit(kinds)
      PROVE  Accounts'
  <2>1. UNCHANGED <<bucket, load, calls>>
    BY <1>5 DEF LockLapses, CacheExpires, InvalidateLimit, EditLimit
  <2> QED
    BY <1>0, <1>a, <2>1, AccountsKept
<1>6. CASE TimePasses
  <2> SUFFICES ASSUME NEW b \in Bucket
               PROVE  Covered(b)' /\ \A d \in LimitedCall : Booked(d, b)'
    BY DEF Accounts
  <2>1. ASSUME NEW d \in LimitedCall
        PROVE  Booked(d, b)'
    BY <1>0, <1>6, Ticking DEF Booked
  <2>2. /\ bucket'[b] = Aged(b) /\ load'[b] = Less(load[b], Rate[b])
        /\ Watched(b)' = Watched(b)
    BY <1>6 DEF TimePasses, Watched
  <2>3. Covered(b) /\ load[b] \in Nat /\ Rate[b] \in Nat /\ Capacity(b) \in Nat
    BY <1>0, Sizes DEF Accounts, LimiterTypeOK
  <2>4. load'[b] <= load[b] /\ load'[b] <= Capacity(b)
    BY <2>2, <2>3 DEF Less, Covered
  <2>5. ASSUME Watched(b)
        PROVE  load'[b] + Level(b)' <= Capacity(b)
    <3>1. load[b] + Level(b) <= Capacity(b)
      BY <2>3, <2>5 DEF Covered
    <3>2. CASE bucket[b] = NotCached
      <4>1. Level(b) = Capacity(b) /\ Level(b)' = Capacity(b)
        BY <2>2, <3>2 DEF Level, Aged, Capacity
      <4> QED
        BY <2>2, <2>3, <3>1, <4>1 DEF Less
    <3>3. CASE bucket[b] # NotCached
      <4>1. bucket[b] \in Token /\ bucket[b].shares \in Nat /\ bucket[b].age \in Nat
        BY <1>0, <3>3 DEF LimiterTypeOK, Token
      <4> DEFINE s == bucket[b].shares
      <4> DEFINE a == bucket[b].age
      <4> DEFINE t == s + a * Rate[b]
      <4>2. s \in Nat /\ a \in Nat /\ a * Rate[b] \in Nat /\ t \in Nat
        BY <2>3, <4>1, ProductNat
      <4>3. load[b] + AtMost(Capacity(b), t) <= Capacity(b)
        BY <3>1, <3>3 DEF Level
      <4>4. CASE a + 1 >= BucketTtl
        <5>1. Level(b)' = Capacity(b)
          BY <2>2, <4>4 DEF Aged, Level, Capacity
        <5>2. Period \in Nat \ {0} /\ Period <= a
          BY <4>2, <4>4, RateAssumption DEF BucketTtl
        <5>3. Period * Rate[b] <= a * Rate[b]
          BY <2>3, <4>2, <5>2, ProductGrows
        <5>4. Capacity(b) = Period * Rate[b]
          BY <2>3, <5>2 DEF Capacity
        <5>5. AtMost(Capacity(b), t) = Capacity(b)
          BY <2>3, <4>2, <5>3, <5>4 DEF AtMost
        <5> HIDE DEF t
        <5> QED
          BY <2>2, <2>3, <4>3, <5>1, <5>5 DEF Less
      <4>5. CASE ~(a + 1 >= BucketTtl)
        <5>1. bucket'[b] = [bucket[b] EXCEPT !.age = @ + 1]
          BY <2>2, <3>3, <4>5 DEF Aged
        <5>2. bucket'[b].shares = s /\ bucket'[b].age = a + 1 /\ bucket'[b] # NotCached
          BY <4>1, <5>1 DEF Token, NotCached
        <5>3. Level(b)' = AtMost(Capacity(b), s + (a + 1) * Rate[b])
          BY <5>2 DEF Level, Capacity, AtMost
        <5>4. s + (a + 1) * Rate[b] = t + Rate[b]
          BY <2>3, <4>2, ProductStep
        <5> HIDE DEF t, s, a
        <5> QED
          BY <2>2, <2>3, <4>2, <4>3, <5>3, <5>4, Refill
      <4> QED
        BY <4>4, <4>5
    <3> QED
      BY <3>2, <3>3
  <2>6. Covered(b)'
    BY <2>2, <2>4, <2>5 DEF Covered, Capacity
  <2> QED
    BY <2>1, <2>6
<1> QED
  BY <1>1, <1>2, <1>3, <1>4, <1>5, <1>6 DEF LimiterNext, LimitedStep

\* In any time, no bucket grants more calls than its rate brings and one burst of its
\* size, whatever expires, ends or dies: a bucket for all users ever, a user's own
\* until the limit is edited (core/rate_limit.py, aacquire).
THEOREM RateIsKept == LimiterSpec => []RateWithinLimit
<1>1. LimiterInit => LimiterInv
  <2> SUFFICES ASSUME LimiterInit
               PROVE  LimiterInv
    OBVIOUS
  <2>1. LimiterTypeOK
    BY InitTypes
  <2>2. \A c \in LimitedCall : calls[c] = NewCall /\ NewCall.pc = "start"
    BY DEF LimiterInit, NewCall
  <2>3. LocksHeld /\ LeftAreOwn
    BY <2>2 DEF LocksHeld, LeftAreOwn
  <2>4. LimitSeen
    BY <2>2 DEF LimitSeen, LimiterInit
  <2>5. Accounts
    <3> SUFFICES ASSUME NEW b \in Bucket
                 PROVE  Covered(b) /\ \A c \in LimitedCall : Booked(c, b)
      BY DEF Accounts
    <3>1. load[b] = 0 /\ Level(b) = Capacity(b) /\ Capacity(b) \in Nat
      BY Sizes DEF LimiterInit, Level
    <3> QED
      BY <2>2, <3>1 DEF Covered, Booked
  <2> QED
    BY <2>1, <2>3, <2>4, <2>5 DEF LimiterInv
<1>2. LimiterInv /\ [LimiterNext]_limiterVars => LimiterInv'
  <2>1. LimiterInv /\ LimiterNext => LimiterInv'
    BY TypeStep, LocksStep, LimitStep, LeftStep, AccountsStep DEF LimiterInv
  <2>2. LimiterInv /\ UNCHANGED limiterVars => LimiterInv'
    <3> SUFFICES ASSUME LimiterInv, UNCHANGED limiterVars
                 PROVE  LimiterInv'
      OBVIOUS
    <3>1. LimiterTypeOK' /\ LocksHeld' /\ LimitSeen' /\ LeftAreOwn'
      BY DEF LimiterInv, LimiterTypeOK, LocksHeld, LimitSeen, LeftAreOwn, LockOf, First,
         BucketsOf, limiterVars
    <3>2. Accounts'
      BY AccountsKept DEF LimiterInv, limiterVars
    <3> QED
      BY <3>1, <3>2 DEF LimiterInv
  <2> QED
    BY <2>1, <2>2
<1>3. LimiterInv => RateWithinLimit
  BY DEF LimiterInv, Accounts, Covered, RateWithinLimit
<1> QED
  BY <1>1, <1>2, <1>3, PTL DEF LimiterSpec

-----------------------------------------------------------------------------
(* Locks and sleeps: whoever is inside can leave, and sleeps no longer than it must *)

\* What a quotient is: the last multiple that fits.
LEMMA QuotientFits ==
    \A m \in Nat, r \in Nat \ {0} : (m \div r) * r <= m /\ m < (m \div r) * r + r
  BY SMT

\* It is not positive if not even one fits.
LEMMA QuotientLow ==
    \A m \in Int, r \in Nat \ {0} : m < r => m \div r \in Int /\ m \div r <= 0
  BY SMT

\* A wait lasts until the bucket's refill covers the price, and not a tick longer.
LEMMA WaitIsExact ==
    ASSUME NEW b \in Bucket, NEW shares \in Nat, shares < Cost
    PROVE  /\ Wait(b, shares) \in Nat \ {0}
           /\ shares + Wait(b, shares) * Rate[b] >= Cost
           /\ shares + (Wait(b, shares) - 1) * Rate[b] < Cost
<1> DEFINE r == Rate[b]
           m == Cost - shares + r - 1
           w == m \div r
<1>1. r \in Nat \ {0} /\ Cost \in Nat /\ m \in Nat /\ Wait(b, shares) = w
  BY Sizes DEF Wait
<1>2. w \in Nat
  BY <1>1, QuotientNat
<1>3. w * r <= m /\ m < w * r + r /\ w * r \in Nat
  BY <1>1, <1>2, QuotientFits, ProductNat
<1>4. m = Cost - shares + r - 1
  OBVIOUS
<1> HIDE DEF w, m
<1>5. w # 0
  <2> SUFFICES ASSUME w = 0 PROVE FALSE
    OBVIOUS
  <2>1. w * r = 0
    BY <1>1
  <2> QED
    BY <1>1, <1>3, <1>4, <2>1
<1>6. (w - 1) * r = w * r - r
  BY <1>1, <1>2, SMT
<1> HIDE DEF r
<1>7. shares + w * r >= Cost /\ shares + (w - 1) * r < Cost
  BY <1>1, <1>3, <1>4, <1>6
<1> QED
  BY <1>1, <1>2, <1>5, <1>7 DEF r

\* A lock that is held is held by a call inside or one that is gone; and a call inside
\* that is refused lacks a price in one of its buckets.
HeldByThose == \A b \in Bucket : holder[b] # NoCall => calls[holder[b]].pc \in {"inside", "gone"}
RefusedLacks ==
    \A c \in LimitedCall : calls[c].pc = "inside" /\ ~calls[c].ok =>
        \E b \in BucketsOf(c) : calls[c].shares[b] < Cost
LocksInv == LimiterTypeOK /\ HeldByThose /\ RefusedLacks

\* Every step leaves locks with such calls.
LEMMA HoldersStep ==
    ASSUME LocksInv, LimiterNext
    PROVE  HeldByThose'
<1> SUFFICES ASSUME NEW b \in Bucket, holder'[b] # NoCall
             PROVE  calls'[holder'[b]].pc \in {"inside", "gone"}
  BY DEF HeldByThose
<1>0. /\ LimiterTypeOK /\ holder \in [Bucket -> LimitedCall \cup {NoCall}]
      /\ holder[b] # NoCall => holder[b] \in LimitedCall /\ calls[holder[b]].pc \in {"inside", "gone"}
  BY DEF LocksInv, HeldByThose, LimiterTypeOK
<1>1. ASSUME NEW c \in LimitedCall, HitsCache(c) \/ ReadsRow(c) \/ FillsCache(c) \/ Wakes(c)
                                    \/ CallsAgain(c)
      PROVE  calls'[holder'[b]].pc \in {"inside", "gone"}
  <2>1. calls[c].pc \notin {"inside", "gone"} /\ holder' = holder
    BY <1>1 DEF HitsCache, ReadsRow, FillsCache, Wakes, CallsAgain
  <2>2. holder[b] # c /\ calls'[holder[b]] = calls[holder[b]]
    BY <1>0, <1>1, <2>1, Outside
  <2> QED
    BY <1>0, <2>1, <2>2
<1>2. ASSUME NEW c \in LimitedCall, EntersLock(c)
      PROVE  calls'[holder'[b]].pc \in {"inside", "gone"}
  <2>1. /\ calls[c].pc = "limited" /\ holder' = [holder EXCEPT ![LockOf(c)] = c]
        /\ calls'[c].pc = "inside" /\ \A d \in LimitedCall \ {c} : calls'[d] = calls[d]
    BY <1>0, <1>2, Entering DEF EntersLock
  <2>2. holder'[b] = IF b = LockOf(c) THEN c ELSE holder[b]
    BY <1>0, <2>1
  <2> QED
    BY <1>0, <2>1, <2>2
<1>3. ASSUME NEW c \in LimitedCall, WritesBucket(c)
      PROVE  calls'[holder'[b]].pc \in {"inside", "gone"}
  <2>1. holder' = holder /\ calls'[holder[b]].pc = calls[holder[b]].pc
    BY <1>0, <1>3, Writing DEF WritesBucket
  <2> QED
    BY <1>0, <2>1
<1>4. ASSUME NEW c \in LimitedCall, Passes(c) \/ Blocks(c)
      PROVE  calls'[holder'[b]].pc \in {"inside", "gone"}
  <2>1. holder' = Unlocked(c) /\ \A d \in LimitedCall \ {c} : calls'[d] = calls[d]
    BY <1>0, <1>4, Leaving DEF Passes, Blocks
  <2>2. holder[b] # c /\ holder'[b] = holder[b]
    BY <2>1 DEF Unlocked
  <2> QED
    BY <1>0, <2>1, <2>2
<1>5. ASSUME NEW c \in LimitedCall, NEW died \in BOOLEAN, Ends(c, died)
      PROVE  calls'[holder'[b]].pc \in {"inside", "gone"}
  <2>1. /\ calls' = [calls EXCEPT ![c] = [NewCall EXCEPT !.pc = "gone"]]
        /\ holder'[b] = holder[b]
    BY <1>5 DEF Ends, Unlocked
  <2>2. calls'[c].pc = "gone" /\ \A d \in LimitedCall \ {c} : calls'[d] = calls[d]
    BY <1>0, <2>1 DEF LimiterTypeOK, NewCall
  <2> QED
    BY <1>0, <2>1, <2>2
<1>6. ASSUME NEW d \in Bucket, LockLapses(d)
      PROVE  calls'[holder'[b]].pc \in {"inside", "gone"}
  <2>1. calls' = calls /\ holder'[b] = holder[b]
    BY <1>0, <1>6 DEF LockLapses
  <2> QED
    BY <1>0, <2>1
<1>7. ASSUME CacheExpires \/ InvalidateLimit \/ \E kinds \in Kinds : EditLimit(kinds)
      PROVE  calls'[holder'[b]].pc \in {"inside", "gone"}
  BY <1>0, <1>7 DEF CacheExpires, InvalidateLimit, EditLimit
<1>8. CASE TimePasses
  <2>1. holder' = holder
    BY <1>8 DEF TimePasses
  <2> QED
    BY <1>0, <1>8, <2>1, Ticking
<1> QED
  BY <1>1, <1>2, <1>3, <1>4, <1>5, <1>6, <1>7, <1>8 DEF LimiterNext, LimitedStep

\* Every step leaves a refused call with a bucket that lacks a price.
LEMMA RefusedStep ==
    ASSUME LocksInv, LimiterNext
    PROVE  RefusedLacks'
<1> SUFFICES ASSUME NEW d \in LimitedCall, calls'[d].pc = "inside", ~calls'[d].ok
             PROVE  \E b \in BucketsOf(d)' : calls'[d].shares[b] < Cost
  BY DEF RefusedLacks, Cost
<1>0. LimiterTypeOK /\ calls[d] \in Call
  BY DEF LocksInv, LimiterTypeOK
<1>a. ASSUME calls'[d].pc = calls[d].pc, calls'[d].kinds = calls[d].kinds,
             calls'[d].ok = calls[d].ok, calls'[d].shares = calls[d].shares
      PROVE  \E b \in BucketsOf(d)' : calls'[d].shares[b] < Cost
  BY <1>a DEF LocksInv, RefusedLacks, BucketsOf
<1>1. ASSUME NEW c \in LimitedCall, \/ HitsCache(c) \/ ReadsRow(c) \/ FillsCache(c) \/ Wakes(c)
                                    \/ CallsAgain(c) \/ \E died \in BOOLEAN : Ends(c, died)
      PROVE  \E b \in BucketsOf(d)' : calls'[d].shares[b] < Cost
  BY <1>0, <1>1, <1>a, Outside
<1>2. ASSUME NEW c \in LimitedCall, EntersLock(c)
      PROVE  \E b \in BucketsOf(d)' : calls'[d].shares[b] < Cost
  <2>1. CASE c # d
    <3>1. calls'[d] = calls[d]
      BY <1>0, <1>2, <2>1, Entering
    <3> QED
      BY <1>a, <3>1
  <2>2. CASE c = d
    <3>1. /\ calls'[d].kinds = calls[d].kinds
          /\ ~\A b \in BucketsOf(d) : Level(b) >= Cost
          /\ \A b \in BucketsOf(d) : calls'[d].shares[b] = Level(b) - 0
      BY <1>0, <1>2, <2>2, Entering
    <3>2. PICK b \in BucketsOf(d) : ~(Level(b) >= Cost)
      BY <3>1
    <3>3. b \in Bucket /\ Level(b) \in Nat /\ Cost \in Nat
      BY <1>0, OwnBuckets, LevelType, Sizes
    <3>4. calls'[d].shares[b] = Level(b) /\ Level(b) < Cost
      BY <3>1, <3>2, <3>3
    <3> QED
      BY <3>1, <3>4 DEF BucketsOf
  <2> QED
    BY <2>1, <2>2
<1>3. ASSUME NEW c \in LimitedCall, WritesBucket(c)
      PROVE  \E b \in BucketsOf(d)' : calls'[d].shares[b] < Cost
  <2>1. /\ calls[c].pc = "inside" /\ calls'[c].pc = "inside" /\ calls'[c].kinds = calls[c].kinds
        /\ calls'[c].ok = calls[c].ok /\ calls'[c].shares = calls[c].shares
        /\ \A e \in LimitedCall \ {c} : calls'[e] = calls[e]
    BY <1>0, <1>3, Writing DEF WritesBucket
  <2> QED
    BY <1>a, <2>1
<1>4. ASSUME NEW c \in LimitedCall, Passes(c) \/ Blocks(c)
      PROVE  \E b \in BucketsOf(d)' : calls'[d].shares[b] < Cost
  BY <1>0, <1>4, <1>a, Leaving
<1>5. ASSUME \/ \E b \in Bucket : LockLapses(b)
             \/ CacheExpires \/ InvalidateLimit \/ \E kinds \in Kinds : EditLimit(kinds)
      PROVE  \E b \in BucketsOf(d)' : calls'[d].shares[b] < Cost
  BY <1>5, <1>a DEF LockLapses, CacheExpires, InvalidateLimit, EditLimit
<1>6. CASE TimePasses
  BY <1>0, <1>6, Ticking
<1> QED
  BY <1>1, <1>2, <1>3, <1>4, <1>5, <1>6 DEF LimiterNext, LimitedStep

\* Among the buckets of a refused call one lacks a price and makes it wait longest.
Slowest(c, b) ==
    /\ calls[c].shares[b] < Cost
    /\ \A d \in BucketsOf(c) : Wait(d, calls[c].shares[d]) <= Wait(b, calls[c].shares[b])
CanLeave(c) == /\ calls[c].pc = "inside"
               /\ calls[c].left = {} /\ ~calls[c].ok => \E b \in BucketsOf(c) : Slowest(c, b)

\* A refused call has such a bucket: there are no more than two to compare.
LEMMA RefusedCanLeave ==
    ASSUME LocksInv, NEW c \in LimitedCall, calls[c].pc = "inside"
    PROVE  CanLeave(c)
<1> SUFFICES ASSUME ~calls[c].ok
             PROVE  \E b \in BucketsOf(c) : Slowest(c, b)
  BY DEF CanLeave
<1> DEFINE s == calls[c].shares
<1>0. /\ \A b \in BucketsOf(c) : b \in Bucket /\ s[b] \in Nat /\ Rate[b] \in Nat \ {0}
      /\ Cost \in Nat
  BY OwnBuckets, Sizes DEF LocksInv, LimiterTypeOK, Call
<1>1. PICK b \in BucketsOf(c) : s[b] < Cost
  BY DEF LocksInv, RefusedLacks
<1>2. PICK e : BucketsOf(c) \subseteq {b, e}
  BY OwnBuckets
<1> HIDE DEF s
<1>3. Wait(b, s[b]) \in Nat \ {0}
  BY <1>0, <1>1, WaitIsExact
<1>4. CASE e \notin BucketsOf(c)
  BY <1>1, <1>2, <1>3, <1>4 DEF Slowest, s
<1>5. CASE e \in BucketsOf(c) /\ s[e] >= Cost
  <2>1. Wait(e, s[e]) \in Int /\ Wait(e, s[e]) <= 0
    BY <1>0, <1>5, QuotientLow DEF Wait
  <2> QED
    BY <1>1, <1>2, <1>3, <2>1 DEF Slowest, s
<1>6. CASE e \in BucketsOf(c) /\ s[e] < Cost
  <2>1. Wait(e, s[e]) \in Nat
    BY <1>0, <1>6, WaitIsExact
  <2>2. CASE Wait(e, s[e]) <= Wait(b, s[b])
    BY <1>1, <1>2, <1>3, <2>2 DEF Slowest, s
  <2>3. CASE Wait(b, s[b]) <= Wait(e, s[e])
    BY <1>2, <1>6, <2>1, <2>3 DEF Slowest, s
  <2> QED
    BY <1>3, <2>1, <2>2, <2>3
<1>7. s[e] >= Cost \/ s[e] < Cost \/ e \notin BucketsOf(c)
  BY <1>0
<1> QED
  BY <1>4, <1>5, <1>6, <1>7

\* A lock that is held comes free: by a call inside it, which writes what is left and
\* passes, or knows the bucket it will sleep for; or, when its holder is gone, by its
\* expiry (rate_limit.py, aacquire and _LOCK_EXPIRE).
THEOREM LocksComeFree ==
    LimiterSpec => [](\A b \in Bucket : holder[b] # NoCall =>
                         \E c \in LimitedCall : /\ holder[b] = c
                                                /\ calls[c].pc = "gone" \/ CanLeave(c))
<1>1. LimiterInit => LocksInv
  <2> SUFFICES ASSUME LimiterInit
               PROVE  LocksInv
    OBVIOUS
  <2>1. \A c \in LimitedCall : calls[c].pc = "start"
    BY DEF LimiterInit, NewCall
  <2> QED
    BY <2>1, InitTypes DEF LocksInv, HeldByThose, RefusedLacks, LimiterInit
<1>2. LocksInv /\ [LimiterNext]_limiterVars => LocksInv'
  <2>1. LocksInv /\ LimiterNext => LocksInv'
    BY TypeStep, HoldersStep, RefusedStep DEF LocksInv
  <2>2. LocksInv /\ UNCHANGED limiterVars => LocksInv'
    BY DEF LocksInv, LimiterTypeOK, HeldByThose, RefusedLacks, BucketsOf, limiterVars
  <2> QED
    BY <2>1, <2>2
<1>3. LocksInv => \A b \in Bucket : holder[b] # NoCall =>
                     \E c \in LimitedCall : /\ holder[b] = c
                                            /\ calls[c].pc = "gone" \/ CanLeave(c)
  BY RefusedCanLeave DEF LocksInv, HeldByThose, LimiterTypeOK
<1> QED
  BY <1>1, <1>2, <1>3, PTL DEF LimiterSpec

\* What a sleep of w ticks should be: every bucket of the call has a price by then if
\* nobody else takes it, and one has not a tick earlier.
RightSleep(c, w) ==
    /\ w > 0
    /\ \A b \in BucketsOf(c) : calls[c].shares[b] + w * Rate[b] >= Cost
    /\ \E b \in BucketsOf(c) : calls[c].shares[b] + (w - 1) * Rate[b] < Cost

\* A call that is refused sleeps exactly as long as its slowest bucket needs to earn a
\* price, whatever the rates and the period: it neither spins nor oversleeps
\* (rate_limit.py, aacquire: wait).
THEOREM SleepsAreExact ==
    LimiterSpec =>
        [][\A c \in LimitedCall : Blocks(c) => RightSleep(c, calls'[c].wait)]_limiterVars
<1>1. ASSUME LimiterTypeOK, NEW c \in LimitedCall, Blocks(c)
      PROVE  RightSleep(c, calls'[c].wait)
  <2> DEFINE s == calls[c].shares
  <2>0. /\ \A b \in BucketsOf(c) : b \in Bucket /\ s[b] \in Nat /\ Rate[b] \in Nat \ {0}
        /\ Cost \in Nat /\ calls[c] \in Call
    BY <1>1, OwnBuckets, Sizes DEF LimiterTypeOK, Call
  <2>1. PICK b \in BucketsOf(c) :
           /\ s[b] < Cost
           /\ \A d \in BucketsOf(c) : Wait(d, s[d]) <= Wait(b, s[b])
           /\ calls' = [calls EXCEPT ![c].pc = "sleeping", ![c].shares = NewCall.shares,
                                     ![c].wait = Wait(b, s[b])]
    BY <1>1 DEF Blocks
  <2> DEFINE w == Wait(b, s[b])
  <2>2. calls'[c].wait = w
    BY <1>1, <2>0, <2>1 DEF LimiterTypeOK, Call
  <2>3. w \in Nat \ {0} /\ s[b] + (w - 1) * Rate[b] < Cost
    BY <2>0, <2>1, WaitIsExact
  <2> HIDE DEF w
  <2>4. ASSUME NEW d \in BucketsOf(c)
        PROVE  s[d] + w * Rate[d] >= Cost
    <3>1. /\ s[d] \in Nat /\ Rate[d] \in Nat \ {0} /\ d \in Bucket
          /\ Wait(d, s[d]) <= w /\ w * Rate[d] \in Nat
      BY <2>0, <2>1, <2>3, <2>4, ProductNat DEF w
    <3>2. CASE s[d] >= Cost
      BY <2>0, <3>1, <3>2
    <3>3. CASE s[d] < Cost
      <4>1. Wait(d, s[d]) \in Nat /\ s[d] + Wait(d, s[d]) * Rate[d] >= Cost
        BY <3>1, <3>3, WaitIsExact
      <4>2. Wait(d, s[d]) * Rate[d] <= w * Rate[d] /\ Wait(d, s[d]) * Rate[d] \in Nat
        BY <2>3, <3>1, <4>1, ProductGrows, ProductNat
      <4> QED
        BY <2>0, <3>1, <4>1, <4>2
    <3> QED
      BY <2>0, <3>1, <3>2, <3>3
  <2> QED
    BY <2>2, <2>3, <2>4 DEF RightSleep
<1>2. LimiterTypeOK /\ [LimiterNext]_limiterVars =>
         [\A c \in LimitedCall : Blocks(c) => RightSleep(c, calls'[c].wait)]_limiterVars
  BY <1>1
<1> QED
  BY <1>2, LimiterTypes, PTL DEF LimiterSpec
=============================================================================
