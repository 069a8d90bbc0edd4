---------------------------- MODULE SessionPool ----------------------------
(***************************************************************************)
(* What a pool of sessions promises to its users (McpSessionPool.acquire   *)
(* and invalidate in modules/mcp/pool.py), whatever tasks, queues, caches  *)
(* and counters it is built from: a bounded set of live sessions, each in  *)
(* the hands of at most one request, and no lease of a dropped session.    *)
(***************************************************************************)
EXTENDS Integers, FiniteSets

CONSTANTS
    Session,
    Caller,
    NoSession,
    Limit       \* how many sessions the pool may keep (max_total)

VARIABLES
    live,       \* the sessions the pool keeps
    lease       \* lease[c]: the session request c works on

vars == <<live, lease>>

Leased == {lease[c] : c \in Caller} \ {NoSession}

Init ==
    /\ live = {}
    /\ lease = [c \in Caller |-> NoSession]

\* A kept session nobody works on, or a new one, is leased; sessions nobody works
\* on may be dropped on the way.
Take(c, s) ==
    /\ lease[c] = NoSession
    /\ s \notin Leased
    /\ lease' = [lease EXCEPT ![c] = s]
    /\ \E D \in SUBSET (live \ Leased) :
          /\ live' = (live \ D) \cup {s}
          /\ s \notin D
          /\ s \in live \/ Cardinality(live') <= Limit

\* A session is given back; it need not be kept.
Return(c) ==
    /\ lease[c] # NoSession
    /\ lease' = [lease EXCEPT ![c] = NoSession]
    /\ live' \in {live, live \ {lease[c]}}

\* Sessions are dropped, leased or not: invalidated, idle too long, broken.
Drop ==
    /\ live' \in SUBSET live
    /\ UNCHANGED lease

Next ==
    \/ \E c \in Caller, s \in Session : Take(c, s)
    \/ \E c \in Caller : Return(c)
    \/ Drop

Spec == Init /\ [][Next]_vars
=============================================================================
