------------------------------ MODULE McpPool ------------------------------
(***************************************************************************)
(* The embedded pool of warm MCP sessions (modules/mcp/pool.py): worker    *)
(* tasks that each own one open session, requests that lease a worker and  *)
(* send operations to its inbox, invalidation when a server is edited,     *)
(* idle retirement and shutdown.                                           *)
(*                                                                         *)
(* asyncio granularity: no critical section of the pool's lock contains an *)
(* await, so the lock is never contended and every locked section is one   *)
(* step.  What interleaves is what suspends: opening and closing sessions, *)
(* operations, waits, the delivery of a cancellation, the tool cache.      *)
(***************************************************************************)
EXTENDS Integers, Sequences, FiniteSets

CONSTANTS
    User, Server,   \* warm sessions are keyed by (user, server)
    Client,         \* requests, each serving one tool call or listing at a time
    Worker,         \* identities for worker tasks (bounds how many are alive)
    Sig,            \* configurations a server can have (config_sig)
    NoClient,       \* the caller of an operation nobody waits for any more
    NoWorker,
    PerKey,         \* max_per_server
    PerUser,        \* max_per_user
    MaxTotal,       \* max_total
    MaxEdits,       \* bound on edits of server settings
    MaxCancels,     \* bound on cancellations of requests
    Lister,         \* requests that list tools through the cache; the others call
    Refresher,      \* requests that may list them past the cache too
    MayShutdown     \* may the application shut down?

ASSUME PoolAssumption ==
    /\ NoClient \notin Client /\ "_SHUTDOWN" \notin Client
    /\ NoWorker \notin Worker
    /\ User # {} /\ Server # {} /\ Sig # {}
    /\ PerKey \in Nat \ {0} /\ PerUser \in Nat \ {0} /\ MaxTotal \in Nat \ {0}
    /\ MaxEdits \in Nat /\ MaxCancels \in Nat
    /\ Lister \subseteq Client /\ Refresher \subseteq Client /\ MayShutdown \in BOOLEAN
    /\ IsFiniteSet(Worker)

Key == User \X Server

VARIABLES
    wk,       \* wk[w]: the worker task and its session
    all,      \* _all
    perKey,   \* _per_key
    perUser,  \* _per_user
    total,    \* _total
    idle,     \* idle[k]: the deque _idle[k]
    closing,  \* _closing
    cl,       \* cl[c]: what request c is doing
    config,   \* config[s]: the settings of server s in the database
    stale,    \* stale[s]: how far the invalidation after an edit of s has come
    epoch,    \* epoch[s]: invalidations of s so far
    edits,    \* edits so far
    cancels,  \* cancellations so far
    tools     \* tools[s]: the cached listing, as the settings it was made under

poolVars == <<all, perKey, perUser, total>>
vars == <<wk, poolVars, idle, closing, cl, config, stale, epoch, edits, cancels, tools>>

-----------------------------------------------------------------------------
(* Workers *)

Shutdown == "_SHUTDOWN"
NoTools == "none"

WorkerState ==
    [task   : {"free", "new", "opening", "waiting", "op", "closing", "ended"},
     key    : Key,
     sig    : Sig,                        \* server.config_sig
     epoch  : Nat,                        \* invalidations when it was spawned
     gone   : BOOLEAN,                    \* _gone, closed.is_set(), state DEAD
     cancel : BOOLEAN,                    \* task.cancel() not delivered yet
     inbox  : Seq(Client \cup {NoClient, Shutdown}),
     cur    : Client \cup {NoClient},     \* whose operation the session runs
     old    : BOOLEAN,                    \* too_old
     err    : {"none", "error", "cancelled"}]  \* open_error

FreeWorker == [task |-> "free", key |-> CHOOSE k \in Key : TRUE,
               sig |-> CHOOSE s \in Sig : TRUE, epoch |-> 0, gone |-> TRUE,
               cancel |-> FALSE, inbox |-> <<>>, cur |-> NoClient,
               old |-> FALSE, err |-> "none"]

ClientState ==
    [pc    : {"start", "resolved", "missed", "looking", "waiting", "caching", "direct"},
     key   : Key,
     sig   : Sig,                         \* of the ResolvedServer in hand
     epoch : Nat,                         \* invalidations when it was resolved
     w     : Worker \cup {NoWorker},
     fut   : {"none", "pending", "ok", "failed", "cancelled"},
     op    : {"call", "list", "refresh"}] \* refresh: list_tools past the cache

NewClient == [pc |-> "start", key |-> CHOOSE k \in Key : TRUE,
              sig |-> CHOOSE s \in Sig : TRUE, epoch |-> 0, w |-> NoWorker,
              fut |-> "none", op |-> "call"]

Holds(c, w) == cl[c].w = w /\ cl[c].pc \in {"looking", "waiting", "caching"}
Elements(s) == {s[i] : i \in DOMAIN s}
InDeque(w) == \E k \in Key : w \in Elements(idle[k])
Alive(w) == wk[w].task \notin {"free", "ended"}
OfKey(S, k) == {w \in S : wk[w].key = k}
OfUser(S, u) == {w \in S : wk[w].key[1] = u}

\* deque.remove, of every worker of S: the others keep their order.
Without(d, S) ==
    LET kept == {i \in DOMAIN d : d[i] \notin S}
        place == [i \in kept |-> Cardinality({h \in kept : h <= i})]
    IN  [j \in 1 .. Cardinality(kept) |-> d[CHOOSE i \in kept : place[i] = j]]

\* A worker some deque or request refers to; an ended one that none refers to any
\* more is garbage, and its identity free for another.
Referenced(w) == InDeque(w) \/ \E c \in Client : Holds(c, w)
Recycled(r) == IF r.task = "ended" THEN FreeWorker ELSE r

\* Nobody waits for the operation c submitted any more.
Orphaned(r, c) ==
    [r EXCEPT !.cur = IF @ = c THEN NoClient ELSE @,
              !.inbox = [i \in DOMAIN @ |-> IF @[i] = c THEN NoClient ELSE @[i]]]

-----------------------------------------------------------------------------
(* Counting: _spawn_locked and _uncount_locked *)

\* The counters after uncounting those of S that are still counted.  The code's
\* max(0, .) is left out: TypeOK and CountersExact tell that it never acts.
Counted_Again(S) == S
Counted(S) == {w \in S : ~wk[w].gone}

Uncount_NotPerUser(S) ==
    LET fresh == Counted(S)
    IN  /\ all' = all \ fresh
        /\ perKey' = [k \in Key |-> perKey[k] - Cardinality(OfKey(fresh, k))]
        /\ total' = total - Cardinality(fresh)
        /\ UNCHANGED perUser
Uncount(S) ==
    LET fresh == Counted(S)
    IN  /\ all' = all \ fresh
        /\ perKey' = [k \in Key |-> perKey[k] - Cardinality(OfKey(fresh, k))]
        /\ perUser' = [u \in User |-> perUser[u] - Cardinality(OfUser(fresh, u))]
        /\ total' = total - Cardinality(fresh)

\* task.cancel() and _uncount_locked: _kill_locked
Killed_Uncounted(r) == [r EXCEPT !.gone = TRUE]
Killed(r) == [r EXCEPT !.gone = TRUE,
                       !.cancel = @ \/ r.task \notin {"free", "ended"}]

-----------------------------------------------------------------------------
(* Requests *)

Init ==
    /\ wk = [w \in Worker |-> FreeWorker]
    /\ all = {}
    /\ perKey = [k \in Key |-> 0]
    /\ perUser = [u \in User |-> 0]
    /\ total = 0
    /\ idle = [k \in Key |-> <<>>]
    /\ closing = FALSE
    /\ cl = [c \in Client |-> NewClient]
    /\ config \in [Server -> {CHOOSE s \in Sig : TRUE}]
    /\ stale = [s \in Server |-> "done"]
    /\ epoch = [s \in Server |-> 0]
    /\ edits = 0
    /\ cancels = 0
    /\ tools = [s \in Server |-> NoTools]

dbVars == <<config, stale, epoch, edits, cancels>>

\* The request reads the server's row (resolve_db_server).
Resolve(c) ==
    /\ cl[c].pc = "start"
    /\ \E k \in Key, op \in {IF c \in Lister THEN "list" ELSE "call"}
                              \cup {o \in {"refresh"} : c \in Refresher} :
          cl' = [cl EXCEPT ![c] = [NewClient EXCEPT
                    !.pc = "resolved", !.key = k, !.sig = config[k[2]],
                    !.epoch = epoch[k[2]], !.op = op]]
    /\ UNCHANGED <<wk, poolVars, idle, closing, dbVars, tools>>

\* list_server_tools looks in the cache before it leases anything.
CacheHit(c) ==
    /\ cl[c].pc = "resolved"
    /\ cl[c].op = "list"
    /\ tools[cl[c].key[2]] # NoTools
    /\ cl' = [cl EXCEPT ![c] = NewClient]
    /\ UNCHANGED <<wk, poolVars, idle, closing, dbVars, tools>>

CacheMiss(c) ==
    /\ cl[c].pc = "resolved"
    /\ cl[c].op = "list"
    /\ tools[cl[c].key[2]] = NoTools
    /\ cl' = [cl EXCEPT ![c].pc = "missed"]
    /\ UNCHANGED <<wk, poolVars, idle, closing, dbVars, tools>>

Usable_Dropped(w, sig) == ~wk[w].old /\ wk[w].sig = sig
Usable_AnyConfig(w, sig) == ~wk[w].gone /\ ~wk[w].old
Usable(w, sig) == ~wk[w].gone /\ ~wk[w].old /\ wk[w].sig = sig

\* One-shot session: shutting down, or at capacity.
GoDirect(c) == cl' = [cl EXCEPT ![c].pc = "direct"]

Spawned(c) == [FreeWorker EXCEPT !.task = "new", !.key = cl[c].key, !.sig = cl[c].sig,
                                 !.epoch = epoch[cl[c].key[2]], !.gone = FALSE]

\* A leased worker gets the call at once; a listing looks in the cache again first.
Lists(c) == cl[c].op # "call"
Given(r, c) == IF Lists(c) THEN r ELSE [r EXCEPT !.inbox = Append(@, c)]
Lease(c, w) ==
    cl' = [cl EXCEPT ![c].w = w,
                     ![c].pc = IF Lists(c) THEN "looking" ELSE "waiting",
                     ![c].fut = IF Lists(c) THEN "none" ELSE "pending"]

\* Everything before the first usable worker of the deque is told to shut down.
Retired(S) == [w \in Worker |-> IF w \in S
                  THEN Recycled([wk[w] EXCEPT !.gone = TRUE, !.inbox = Append(@, Shutdown)])
                  ELSE wk[w]]

Room_AtLimit(k, fresh) == total - Cardinality(fresh) <= MaxTotal
Room(k, fresh) == /\ perKey[k] - Cardinality(OfKey(fresh, k)) < PerKey
                  /\ perUser[k[1]] - Cardinality(OfUser(fresh, k[1])) < PerUser
                  /\ total - Cardinality(fresh) < MaxTotal

\* The deque after its first n workers were popped.
Popped_Peeked(d, n) == SubSeq(d, n, Len(d))
Popped(d, n) == SubSeq(d, n + 1, Len(d))

\* acquire() up to the handle: _lease, or the one-shot session.
Acquire(c) ==
    LET k == cl[c].key
        d == idle[k]
        usable == {i \in DOMAIN d : Usable(d[i], cl[c].sig)}
        first == CHOOSE i \in usable : \A j \in usable : i <= j
        skipped == IF usable = {} THEN Elements(d) ELSE {d[i] : i \in 1 .. (first - 1)}
        fresh == Counted(skipped)
    IN  /\ cl[c].pc = IF cl[c].op = "list" THEN "missed" ELSE "resolved"
        /\ UNCHANGED <<closing, dbVars, tools>>
        /\ \/ /\ closing
              /\ GoDirect(c)
              /\ UNCHANGED <<wk, poolVars, idle>>
           \/ /\ ~closing
              /\ usable # {}
              /\ Lease(c, d[first])
              /\ idle' = [idle EXCEPT ![k] = Popped(d, first)]
              /\ wk' = [Retired(skipped) EXCEPT ![d[first]] = Given(@, c)]
              /\ Uncount(skipped)
           \/ /\ ~closing
              /\ usable = {}
              /\ Room(k, fresh)
              /\ idle' = [idle EXCEPT ![k] = <<>>]
              /\ \E w \in Worker :
                    /\ wk[w].task = "free"
                    /\ Lease(c, w)
                    /\ wk' = [Retired(skipped) EXCEPT ![w] = Given(Spawned(c), c)]
                    /\ all' = (all \ fresh) \cup {w}
              /\ perKey' = [j \in Key |-> perKey[j] - Cardinality(OfKey(fresh, j))
                                             + IF j = k THEN 1 ELSE 0]
              /\ perUser' = [u \in User |-> perUser[u] - Cardinality(OfUser(fresh, u))
                                               + IF u = k[1] THEN 1 ELSE 0]
              /\ total' = total - Cardinality(fresh) + 1
           \/ /\ ~closing
              /\ usable = {}
              /\ ~Room(k, fresh)
              /\ GoDirect(c)
              /\ idle' = [idle EXCEPT ![k] = <<>>]
              /\ wk' = Retired(skipped)
              /\ Uncount(skipped)

\* The one-shot session does its operation, fails or is abandoned; a listing is
\* written to the cache.
DirectDone(c) ==
    /\ cl[c].pc = "direct"
    /\ cl' = [cl EXCEPT ![c] = NewClient]
    /\ \/ UNCHANGED tools
       \/ /\ Lists(c)
          /\ tools' = [tools EXCEPT ![cl[c].key[2]] = cl[c].sig]
    /\ UNCHANGED <<wk, poolVars, idle, closing, dbVars>>

\* The listing is still not in the cache, or a refresh is forced: _submit.
Submit(c) ==
    /\ cl[c].pc = "looking"
    /\ cl[c].op = "list" => tools[cl[c].key[2]] = NoTools
    /\ cl' = [cl EXCEPT ![c].pc = "waiting", ![c].fut = "pending"]
    /\ wk' = [wk EXCEPT ![cl[c].w].inbox = Append(@, c)]
    /\ UNCHANGED <<poolVars, idle, closing, dbVars, tools>>

\* _release: kill the worker or put it back, by what the handle knows.
KillOnRelease(w, broken) == broken \/ wk[w].old \/ wk[w].gone \/ closing

Release(c, broken) ==
    LET w == cl[c].w
        r == Orphaned(wk[w], c)
    IN  /\ cl' = [cl EXCEPT ![c] = NewClient]
        /\ IF KillOnRelease(w, broken)
           THEN /\ wk' = [wk EXCEPT ![w] = Recycled(Killed(r))]
                /\ Uncount({w})
                /\ UNCHANGED idle
           ELSE /\ wk' = [wk EXCEPT ![w] = r]
                /\ idle' = [idle EXCEPT ![r.key] = Append(@, w)]
                /\ UNCHANGED poolVars
        /\ UNCHANGED <<closing, config, stale, epoch, edits>>

\* Somebody else's listing is in the cache by now: the worker was not needed.
FoundInCache(c) ==
    /\ cl[c].pc = "looking"
    /\ cl[c].op = "list"
    /\ tools[cl[c].key[2]] # NoTools
    /\ Release(c, FALSE)
    /\ UNCHANGED <<tools, cancels>>

\* The call succeeded: the block of acquire() is left.
Answer(c) ==
    /\ cl[c].pc = "waiting"
    /\ cl[c].fut = "ok"
    /\ ~Lists(c)
    /\ Release(c, FALSE)
    /\ UNCHANGED <<tools, cancels>>

\* The listing succeeded: it goes to the cache, then the block is left.
Listed(c) ==
    /\ cl[c].pc = "waiting"
    /\ cl[c].fut = "ok"
    /\ Lists(c)
    /\ cl' = [cl EXCEPT ![c].pc = "caching"]
    /\ UNCHANGED <<wk, poolVars, idle, closing, dbVars, tools>>

SetCache(c) ==
    /\ cl[c].pc = "caching"
    /\ tools' = [tools EXCEPT ![cl[c].key[2]] = wk[cl[c].w].sig]
    /\ Release(c, FALSE)
    /\ UNCHANGED cancels

\* The future carries an exception, or the worker died before it answered
\* (open_error, McpUnreachableError): the session is suspect, the handle broken.
Failed_OnlyByFuture(c) ==
    /\ cl[c].pc = "waiting"
    /\ cl[c].fut \in {"failed", "cancelled"}
    /\ Release(c, TRUE)
    /\ UNCHANGED <<tools, cancels>>
Failed(c) ==
    /\ cl[c].pc = "waiting"
    /\ \/ cl[c].fut \in {"failed", "cancelled"}
       \/ cl[c].fut = "pending" /\ wk[cl[c].w].gone
    /\ Release(c, TRUE)
    /\ UNCHANGED <<tools, cancels>>

Timeout(c) ==
    /\ cl[c].pc = "waiting"
    /\ cl[c].fut = "pending"
    /\ Release(c, TRUE)
    /\ UNCHANGED <<tools, cancels>>

\* The request's own task is cancelled: handle.broken is still what it was.
CancelRequest(c) ==
    /\ cancels < MaxCancels
    /\ cl[c].pc \in {"looking", "waiting", "caching"}
    /\ cancels' = cancels + 1
    /\ Release(c, FALSE)
    /\ UNCHANGED tools

Request(c) == \/ Resolve(c) \/ CacheHit(c) \/ CacheMiss(c) \/ Acquire(c)
              \/ DirectDone(c) \/ Submit(c) \/ FoundInCache(c) \/ Answer(c)
              \/ Listed(c) \/ SetCache(c)
              \/ Failed(c) \/ Timeout(c) \/ CancelRequest(c)

-----------------------------------------------------------------------------
(* The worker: _Worker.run *)

\* Every queued operation gets the error that ended the session (_fail_pending).
Rejected(w, err) ==
    [c \in Client |->
        IF cl[c].fut = "pending" /\ c \in Elements(wk[w].inbox)
        THEN [cl[c] EXCEPT !.fut = IF err = "cancelled" THEN "cancelled" ELSE "failed"]
        ELSE cl[c]]

\* The finally clause: reject what is queued, then _deregister.
Ends(w, err) ==
    /\ wk' = [wk EXCEPT ![w] = IF Referenced(w)
                THEN [@ EXCEPT !.task = "ended", !.gone = TRUE, !.cancel = FALSE,
                               !.inbox = <<>>, !.cur = NoClient, !.err = err]
                ELSE FreeWorker]
    /\ cl' = Rejected(w, err)
    /\ Uncount({w})
    /\ UNCHANGED <<idle, closing, dbVars, tools>>

Starts(w) ==
    /\ wk[w].task = "new"
    /\ ~wk[w].cancel
    /\ wk' = [wk EXCEPT ![w].task = "opening"]
    /\ UNCHANGED <<poolVars, idle, closing, cl, dbVars, tools>>

\* A task cancelled before its first step never enters run(): no finally clause.
NeverStarts(w) ==
    /\ wk[w].task = "new"
    /\ wk[w].cancel
    /\ wk' = [wk EXCEPT ![w] = IF wk[w].gone /\ ~Referenced(w) THEN FreeWorker
                               ELSE [@ EXCEPT !.task = "ended", !.cancel = FALSE]]
    /\ UNCHANGED <<poolVars, idle, closing, cl, dbVars, tools>>

Opened(w) ==
    /\ wk[w].task = "opening"
    /\ wk' = [wk EXCEPT ![w].task = "waiting"]
    /\ UNCHANGED <<poolVars, idle, closing, cl, dbVars, tools>>

OpenFails(w) ==
    /\ wk[w].task = "opening"
    /\ Ends(w, "error")

\* The next item of the inbox: an operation, or the end.
Takes(w) ==
    /\ wk[w].task = "waiting"
    /\ ~wk[w].cancel
    /\ wk[w].inbox # <<>>
    /\ LET item == Head(wk[w].inbox)
       IN  wk' = [wk EXCEPT ![w].inbox = Tail(@),
                            ![w].task = IF item = Shutdown THEN "closing" ELSE "op",
                            ![w].cur = IF item = Shutdown THEN NoClient ELSE item]
    /\ UNCHANGED <<poolVars, idle, closing, cl, dbVars, tools>>

\* The operation ends; after a failure the session is closed.
Resolved(w, fut) ==
    cl' = [c \in Client |-> IF c = wk[w].cur THEN [cl[c] EXCEPT !.fut = fut] ELSE cl[c]]

OpDone(w) ==
    /\ wk[w].task = "op"
    /\ \/ /\ Resolved(w, "ok")
          /\ wk' = [wk EXCEPT ![w].task = "waiting", ![w].cur = NoClient]
       \/ /\ Resolved(w, "failed")
          /\ wk' = [wk EXCEPT ![w].task = "closing", ![w].cur = NoClient]
    /\ UNCHANGED <<poolVars, idle, closing, dbVars, tools>>

\* The idle TTL passed: _retire_if_idle, unless a request got the worker first.
IdleTooLong(w) ==
    LET k == wk[w].key
    IN  /\ wk[w].task = "waiting"
        /\ ~wk[w].cancel
        /\ w \in Elements(idle[k])
        /\ idle' = [idle EXCEPT ![k] = Without(@, {w})]
        /\ wk' = [wk EXCEPT ![w].task = "closing", ![w].gone = TRUE]
        /\ Uncount({w})
        /\ UNCHANGED <<closing, cl, dbVars, tools>>

\* The session's context managers have exited.
SessionClosed(w) ==
    /\ wk[w].task = "closing"
    /\ Ends(w, wk[w].err)

\* The cancellation reaches the task where it is suspended.
Cancelled(w) ==
    /\ wk[w].cancel
    /\ \/ /\ wk[w].task = "op"
          /\ Resolved(w, "cancelled")
          /\ wk' = [wk EXCEPT ![w].task = "closing", ![w].cancel = FALSE,
                              ![w].cur = NoClient]
          /\ UNCHANGED <<poolVars, idle, closing, dbVars, tools>>
       \/ /\ wk[w].task = "waiting"
          /\ wk' = [wk EXCEPT ![w].task = "closing", ![w].cancel = FALSE,
                              ![w].err = "cancelled"]
          /\ UNCHANGED <<poolVars, idle, closing, cl, dbVars, tools>>
       \/ /\ wk[w].task \in {"opening", "closing"}
          /\ Ends(w, "cancelled")

\* max_lifetime passes.
Ages(w) ==
    /\ ~wk[w].gone
    /\ ~wk[w].old
    /\ wk' = [wk EXCEPT ![w].old = TRUE]
    /\ UNCHANGED <<poolVars, idle, closing, cl, dbVars, tools>>

Work(w) == \/ Starts(w) \/ NeverStarts(w) \/ Opened(w) \/ OpenFails(w) \/ Takes(w)
           \/ OpDone(w) \/ IdleTooLong(w) \/ SessionClosed(w) \/ Cancelled(w) \/ Ages(w)

-----------------------------------------------------------------------------
(* Settings, cache and shutdown *)

\* McpServerRepository.update commits new settings, or an OAuth callback or a
\* refresh asks for an invalidation alone.
Edit(s) ==
    /\ edits < MaxEdits
    /\ stale[s] = "done"
    /\ edits' = edits + 1
    /\ stale' = [stale EXCEPT ![s] = "edited"]
    /\ \E sig \in Sig : config' = [config EXCEPT ![s] = sig]
    /\ UNCHANGED <<wk, poolVars, idle, closing, cl, epoch, cancels, tools>>

\* invalidate_tools_cache: the listing first ...
DropTools(s) ==
    /\ stale[s] = "edited"
    /\ stale' = [stale EXCEPT ![s] = "dropped"]
    /\ tools' = [tools EXCEPT ![s] = NoTools]
    /\ UNCHANGED <<wk, poolVars, idle, closing, cl, config, epoch, edits, cancels>>

\* ... then the warm sessions, leased or not.
Victims(s) == {w \in all : wk[w].key[2] = s}

Invalidate(s) ==
    LET victims == Victims(s)
    IN  /\ stale[s] = "dropped"
        /\ stale' = [stale EXCEPT ![s] = "done"]
        /\ epoch' = [epoch EXCEPT ![s] = @ + 1]
        /\ idle' = [k \in Key |-> Without(idle[k], victims)]
        /\ wk' = [w \in Worker |-> IF w \in victims THEN Killed(wk[w]) ELSE wk[w]]
        /\ Uncount(victims)
        /\ UNCHANGED <<closing, cl, config, edits, cancels, tools>>

\* _TOOLS_CACHE_TTL
ToolsExpire(s) ==
    /\ tools[s] # NoTools
    /\ tools' = [tools EXCEPT ![s] = NoTools]
    /\ UNCHANGED <<wk, poolVars, idle, closing, cl, dbVars>>

\* shutdown(): no new leases, every counted worker's task is cancelled.
ShutdownPool_NoLeases ==
    /\ MayShutdown
    /\ ~closing
    /\ closing' = TRUE
    /\ UNCHANGED <<wk, poolVars, idle, cl, dbVars, tools>>
ShutdownPool ==
    /\ MayShutdown
    /\ ~closing
    /\ closing' = TRUE
    /\ wk' = [w \in Worker |-> IF w \in all /\ Alive(w)
                                THEN [wk[w] EXCEPT !.cancel = TRUE] ELSE wk[w]]
    /\ UNCHANGED <<poolVars, idle, cl, dbVars, tools>>

Next ==
    \/ \E c \in Client : Request(c)
    \/ \E w \in Worker : Work(w)
    \/ \E s \in Server : Edit(s) \/ DropTools(s) \/ Invalidate(s) \/ ToolsExpire(s)
    \/ ShutdownPool

\* The event loop runs what can run, sessions open or fail, operations end, and
\* an invalidation that has begun goes on.  No fairness for time-outs, idle TTLs
\* and ageing, nor for users.
Fairness ==
    /\ \A c \in Client :
          /\ WF_vars(Submit(c) \/ FoundInCache(c)) /\ WF_vars(Answer(c))
          /\ WF_vars(Listed(c)) /\ WF_vars(SetCache(c)) /\ WF_vars(Failed(c))
    /\ \A w \in Worker :
          /\ WF_vars(Starts(w) \/ NeverStarts(w))
          /\ WF_vars(Opened(w) \/ OpenFails(w))
          /\ WF_vars(Takes(w)) /\ WF_vars(OpDone(w))
          /\ WF_vars(SessionClosed(w)) /\ WF_vars(Cancelled(w))
    /\ \A s \in Server : WF_vars(DropTools(s)) /\ WF_vars(Invalidate(s))

Spec == Init /\ [][Next]_vars
FairSpec == Spec /\ Fairness

-----------------------------------------------------------------------------
(* Properties *)

\* Types of the workers, the requests and the pool's bookkeeping.
TypeOK ==
    /\ wk \in [Worker -> WorkerState]
    /\ all \in SUBSET Worker
    /\ perKey \in [Key -> Nat]
    /\ perUser \in [User -> Nat]
    /\ total \in Nat
    /\ idle \in [Key -> Seq(Worker)]
    /\ closing \in BOOLEAN
    /\ cl \in [Client -> ClientState]
    /\ config \in [Server -> Sig]
    /\ stale \in [Server -> {"edited", "dropped", "done"}]
    /\ epoch \in [Server -> Nat]
    /\ edits \in Nat /\ cancels \in Nat
    /\ tools \in [Server -> Sig \cup {NoTools}]

\* The counters equal what is in _all, however workers come to their ends, and
\* never exceed the limits (_uncount_locked uncounts exactly once).
CountersExact ==
    /\ all = {w \in Worker : ~wk[w].gone}
    /\ \A k \in Key : perKey[k] = Cardinality(OfKey(all, k)) /\ perKey[k] <= PerKey
    /\ \A u \in User : perUser[u] = Cardinality(OfUser(all, u)) /\ perUser[u] <= PerUser
    /\ total = Cardinality(all) /\ total <= MaxTotal

\* Exclusive checkout: no two requests hold one worker, no held worker is in a
\* deque, no worker is in a deque twice or under another key.
ExclusiveCheckout ==
    /\ \A c, d \in Client, w \in Worker : Holds(c, w) /\ Holds(d, w) => c = d
    /\ \A c \in Client, w \in Worker : Holds(c, w) => ~InDeque(w)
    /\ \A k \in Key : \A i, j \in DOMAIN idle[k] :
          /\ idle[k][i] = idle[k][j] => i = j
          /\ wk[idle[k][i]].key = k

\* A request is served under the settings it resolved, by a session spawned after
\* every invalidation the request came after.
LeaseIsFresh ==
    \A c \in Client, w \in Worker :
        Holds(c, w) => wk[w].sig = cl[c].sig /\ wk[w].epoch >= cl[c].epoch

\* The pool keeps its promise (SessionPool): every step is a lease of a free
\* session, a return, a drop of sessions, or none of the users' business.
Promise == INSTANCE SessionPool WITH
    Session <- Worker, Caller <- Client, NoSession <- NoWorker, Limit <- MaxTotal,
    live <- all,
    lease <- [c \in Client |-> IF cl[c].pc \in {"looking", "waiting", "caching"}
                              THEN cl[c].w ELSE NoWorker]
PoolPromise == Promise!Spec

\* An operation is answered without the help of its time-out: by the session, or
\* by the news that the worker died (closed, _fail_pending).  Not so once the pool
\* shuts down: a worker cancelled before it first ran leaves its caller to the
\* time-out.
OperationsAnswered ==
    \A c \in Client : cl[c].pc = "waiting" ~> cl[c].pc # "waiting" \/ closing

\* The session of a worker that was dropped from the pool is closed in the end.
DroppedSessionsClose ==
    \A w \in Worker : wk[w].gone /\ Alive(w) ~> ~Alive(w)

\* After shutdown every session is closed in the end.
ShutdownClosesAll == closing ~> \A w \in Worker : ~Alive(w)
=============================================================================
