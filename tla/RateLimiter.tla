----------------------------- MODULE RateLimiter -----------------------------
(***************************************************************************)
(* Limits on the calls of a resource: the token buckets of                 *)
(* core/rate_limit.py, one for all users and one per user, kept in the      *)
(* cache and read and written under a lock of the cache; and the limit     *)
(* itself, a row read through the cache (models/rate_limit.py).             *)
(*                                                                         *)
(* Time comes in ticks and tokens in shares: a bucket that grants Rate[b]   *)
(* calls per Period ticks gains Rate[b] shares a tick, a call costs Period  *)
(* shares, and a full bucket holds Rate[b] calls.  Entering a lock, the     *)
(* clock is read once; the time spent inside is not modelled, save for      *)
(* holders that die there.  Which kinds of limit the row has is modelled,   *)
(* their numbers stay.                                                      *)
(***************************************************************************)
EXTENDS Integers, FiniteSets

CONSTANTS
    Account,       \* users
    LimitedCall,   \* calls of the resource, each again and again
    Payer,         \* Payer[c]: the user of call c
    AllUsers,      \* the bucket of all users
    Rate,          \* Rate[b]: requests per period of bucket b
    Period,        \* the period, in ticks
    NoCall,
    MaxLimitEdits, \* bound on edits of the limit
    MaxDeaths      \* bound on calls that end inside a lock

Bucket == Account \cup {AllUsers}

ASSUME RateAssumption ==
    /\ AllUsers \notin Account /\ NoCall \notin LimitedCall
    /\ Payer \in [LimitedCall -> Account]
    /\ Rate \in [Bucket -> Nat \ {0}] /\ Period \in Nat \ {0}
    /\ MaxLimitEdits \in Nat /\ MaxDeaths \in Nat

VARIABLES
    limit,    \* the row: which kinds of limit it has
    cached,   \* the cached row, or Miss
    editing,  \* an edit is committed, its invalidation to come
    bucket,   \* bucket[b]: the cached tokens and the time since ts, if there are any
    holder,   \* holder[b]: the call that holds b's lock
    calls,    \* calls[c]: what a call is doing
    load,     \* ghost: load[b], watched calls that passed, as water in a leaking bucket
    upsets    \* ghost: edits and deaths so far

limiterVars == <<limit, cached, editing, bucket, holder, calls, load, upsets>>

-----------------------------------------------------------------------------

Kinds == SUBSET {"global", "user"}
Miss == {"miss"}

Cost == Period
Capacity(b) == Rate[b] * Period
BucketTtl_Half == (Period + 1) \div 2
BucketTtl == 2 * Period

Token == [shares : Nat, age : Nat]
NotCached == [shares |-> 0, age |-> -1]   \* not in the cache

NewCall == [pc |-> "start", kinds |-> {}, ok |-> FALSE, left |-> {}, wait |-> 0,
            shares |-> [b \in Bucket |-> 0]]

LimiterInit ==
    /\ limit \in Kinds /\ cached = Miss /\ editing = FALSE
    /\ bucket = [b \in Bucket |-> NotCached]
    /\ holder = [b \in Bucket |-> NoCall]
    /\ calls = [c \in LimitedCall |-> NewCall]
    /\ load = [b \in Bucket |-> 0]
    /\ upsets = [edits |-> 0, deaths |-> 0]

-----------------------------------------------------------------------------
(* The limit: get_for_resource, upsert and delete.                           *)

\* Without buckets there is no limiter, and the call goes through.
Limited(c, kinds) ==
    calls' = [calls EXCEPT ![c].kinds = kinds,
                           ![c].pc = IF kinds = {} THEN "granted" ELSE "limited"]

HitsCache(c) ==
    /\ calls[c].pc = "start" /\ cached # Miss
    /\ Limited(c, cached)
    /\ UNCHANGED <<limit, cached, editing, bucket, holder, load, upsets>>

ReadsRow(c) ==
    /\ calls[c].pc = "start" /\ cached = Miss
    /\ calls' = [calls EXCEPT ![c].pc = "read", ![c].kinds = limit]
    /\ UNCHANGED <<limit, cached, editing, bucket, holder, load, upsets>>

\* The absence of a limit is cached as well.
FillsCache(c) ==
    /\ calls[c].pc = "read"
    /\ cached' = calls[c].kinds
    /\ Limited(c, calls[c].kinds)
    /\ UNCHANGED <<limit, editing, bucket, holder, load, upsets>>

CacheExpires ==
    /\ cached # Miss /\ cached' = Miss
    /\ UNCHANGED <<limit, editing, bucket, holder, calls, load, upsets>>

EditLimit(kinds) ==
    /\ ~editing /\ upsets.edits < MaxLimitEdits
    /\ kinds # limit /\ limit' = kinds
    /\ editing' = TRUE
    /\ upsets' = [upsets EXCEPT !.edits = @ + 1]
    /\ UNCHANGED <<cached, bucket, holder, calls, load>>

InvalidateLimit ==
    /\ editing /\ editing' = FALSE
    /\ cached' = Miss
    /\ UNCHANGED <<limit, bucket, holder, calls, load, upsets>>

-----------------------------------------------------------------------------
(* aacquire *)

BucketsOf(c) ==
    (IF "global" \in calls[c].kinds THEN {AllUsers} ELSE {}) \cup
    (IF "user" \in calls[c].kinds THEN {Payer[c]} ELSE {})

First(c, s) == IF AllUsers \in s THEN AllUsers ELSE Payer[c]

LockOf(c) == First(c, BucketsOf(c))

AtMost(n, m) == IF n <= m THEN n ELSE m

\* The tokens of a bucket now; those of an expired entry count as full.
Level(b) ==
    IF bucket[b] = NotCached THEN Capacity(b)
    ELSE AtMost(Capacity(b), bucket[b].shares + bucket[b].age * Rate[b])

\* Ticks until bucket b has a token.
Wait(b, shares) == (Cost - shares + Rate[b] - 1) \div Rate[b]

\* Under the lock all buckets are read: the call passes, and pays in each of them,
\* or it pays nowhere and will wait for the slowest.
EntersLock(c) ==
    /\ calls[c].pc = "limited" /\ holder[LockOf(c)] = NoCall
    /\ holder' = [holder EXCEPT ![LockOf(c)] = c]
    /\ \E ok \in {\A b \in BucketsOf(c) : Level(b) >= Cost} :
          calls' = [calls EXCEPT ![c].pc = "inside", ![c].ok = ok, ![c].left = BucketsOf(c),
                        ![c].shares = [b \in Bucket |->
                            IF b \notin BucketsOf(c) THEN 0
                            ELSE Level(b) - (IF ok THEN Cost ELSE 0)]]
    /\ UNCHANGED <<limit, cached, editing, bucket, load, upsets>>

\* Buckets are written one by one, the global one first.
WritesBucket(c) ==
    /\ calls[c].pc = "inside" /\ calls[c].left # {}
    /\ \E b \in {First(c, calls[c].left)} :
          /\ bucket' = [bucket EXCEPT ![b] = [shares |-> calls[c].shares[b], age |-> 0]]
          /\ calls' = [calls EXCEPT ![c].left = @ \ {b}]
    /\ UNCHANGED <<limit, cached, editing, holder, load, upsets>>

Unlocked(c) == [b \in Bucket |-> IF holder[b] = c THEN NoCall ELSE holder[b]]

\* A user's own bucket is read and written under a lock that depends on the limit a
\* call has seen: it is watched until the first edit.
Watched(b) == b = AllUsers \/ upsets.edits = 0

Passes(c) ==
    /\ calls[c].pc = "inside" /\ calls[c].left = {} /\ calls[c].ok
    /\ holder' = Unlocked(c)
    /\ load' = [b \in Bucket |-> IF b \in BucketsOf(c) /\ Watched(b)
                                THEN load[b] + Cost ELSE load[b]]
    /\ calls' = [calls EXCEPT ![c].pc = "granted", ![c].ok = FALSE,
                              ![c].shares = NewCall.shares]
    /\ UNCHANGED <<limit, cached, editing, bucket, upsets>>

\* The sleep is as long as the slowest bucket needs, and outside the lock.
Blocks(c) ==
    /\ calls[c].pc = "inside" /\ calls[c].left = {} /\ ~calls[c].ok
    /\ holder' = Unlocked(c)
    /\ \E b \in BucketsOf(c) :
          /\ calls[c].shares[b] < Cost
          /\ \A d \in BucketsOf(c) : Wait(d, calls[c].shares[d]) <= Wait(b, calls[c].shares[b])
          /\ calls' = [calls EXCEPT ![c].pc = "sleeping", ![c].shares = NewCall.shares,
                                    ![c].wait = Wait(b, calls[c].shares[b])]
    /\ UNCHANGED <<limit, cached, editing, bucket, load, upsets>>

Wakes(c) ==
    /\ calls[c].pc = "sleeping" /\ calls[c].wait = 0
    /\ calls' = [calls EXCEPT ![c].pc = "limited"]
    /\ UNCHANGED <<limit, cached, editing, bucket, holder, load, upsets>>

\* A cancelled call leaves the lock, a process that dies leaves it to its expiry;
\* buckets not written yet stay as they were.
Ends(c, died) ==
    /\ calls[c].pc = "inside" /\ upsets.deaths < MaxDeaths
    /\ upsets' = [upsets EXCEPT !.deaths = @ + 1]
    /\ calls' = [calls EXCEPT ![c] = [NewCall EXCEPT !.pc = "gone"]]
    /\ holder' = IF died THEN holder ELSE Unlocked(c)
    /\ UNCHANGED <<limit, cached, editing, bucket, load>>

\* _LOCK_EXPIRE; whoever lives leaves a lock in time.
LockLapses_Never(b) == FALSE /\ UNCHANGED limiterVars
LockLapses(b) ==
    /\ holder[b] # NoCall /\ calls[holder[b]].pc = "gone"
    /\ holder' = [holder EXCEPT ![b] = NoCall]
    /\ UNCHANGED <<limit, cached, editing, bucket, calls, load, upsets>>

\* The caller goes on to its next call of the resource, with its limiter or a new one.
CallsAgain(c) ==
    /\ calls[c].pc = "granted"
    /\ \/ calls' = [calls EXCEPT ![c] = NewCall]
       \/ calls[c].kinds # {} /\ calls' = [calls EXCEPT ![c].pc = "limited"]
    /\ UNCHANGED <<limit, cached, editing, bucket, holder, load, upsets>>

-----------------------------------------------------------------------------

\* A bucket not written for its ttl leaves the cache.
Aged(b) ==
    IF bucket[b] = NotCached \/ bucket[b].age + 1 >= BucketTtl THEN NotCached
    ELSE [bucket[b] EXCEPT !.age = @ + 1]

Less_Unclamped(n, m) == n - m
Less(n, m) == IF n <= m THEN 0 ELSE n - m

TimePasses ==
    /\ \A c \in LimitedCall : calls[c].pc # "inside"
    /\ bucket' = [b \in Bucket |-> Aged(b)]
    /\ load' = [b \in Bucket |-> Less(load[b], Rate[b])]
    /\ calls' = [c \in LimitedCall |-> [calls[c] EXCEPT !.wait = Less(@, 1)]]
    /\ UNCHANGED <<limit, cached, editing, holder, upsets>>

LimitedStep(c) ==
    \/ HitsCache(c) \/ ReadsRow(c) \/ FillsCache(c)
    \/ EntersLock(c) \/ WritesBucket(c) \/ Passes(c) \/ Blocks(c) \/ Wakes(c)

LimiterNext ==
    \/ \E c \in LimitedCall : LimitedStep(c) \/ CallsAgain(c) \/ \E died \in BOOLEAN : Ends(c, died)
    \/ \E b \in Bucket : LockLapses(b)
    \/ CacheExpires \/ InvalidateLimit \/ \E kinds \in Kinds : EditLimit(kinds)
    \/ TimePasses

\* Calls go on, locks of the dead expire and time passes.
LimiterFairness ==
    /\ \A c \in LimitedCall : WF_limiterVars(LimitedStep(c))
    /\ \A b \in Bucket : WF_limiterVars(LockLapses(b))
    /\ WF_limiterVars(TimePasses)

LimiterSpec == LimiterInit /\ [][LimiterNext]_limiterVars
LimiterFairSpec == LimiterSpec /\ LimiterFairness

-----------------------------------------------------------------------------
(* Properties *)

Call == [pc     : {"start", "read", "limited", "inside", "sleeping", "granted", "gone"},
         kinds  : Kinds,              \* the limit it has seen
         ok     : BOOLEAN,            \* all_ok
         left   : SUBSET Bucket,      \* buckets to write yet
         wait   : Nat,
         shares : [Bucket -> Nat]]    \* what it will leave in them

\* Every variable has its type.
LimiterTypeOK ==
    /\ limit \in Kinds /\ cached \in Kinds \cup {Miss} /\ editing \in BOOLEAN
    /\ bucket \in [Bucket -> Token \cup {NotCached}]
    /\ holder \in [Bucket -> LimitedCall \cup {NoCall}]
    /\ calls \in [LimitedCall -> Call]
    /\ load \in [Bucket -> Nat]
    /\ upsets \in [edits : Nat, deaths : Nat]

\* No bucket grants more than its rate and one burst of its size, whatever expires,
\* ends or dies: in t ticks at most Rate[b] calls and what the ticks brought, of all
\* users for ever, and of one user until the limit is edited (rate_limit.py, aacquire).
RateWithinLimit == \A b \in Bucket : load[b] <= Capacity(b)

Queued(c) == calls[c].pc \in {"limited", "inside", "sleeping"}

\* A call waits for ever only while calls pass for ever: neither a dead holder nor a
\* sleep that is too short or too long stops the resource (rate_limit.py,
\* _LOCK_EXPIRE and wait).
NobodyWaitsInVain ==
    \A c \in LimitedCall :
        []<>~Queued(c) \/ []<><<\E d \in LimitedCall : Passes(d)>>_limiterVars
=============================================================================
