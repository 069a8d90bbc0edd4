------------------------------ MODULE KernelPool ------------------------------
(***************************************************************************)
(* The kernels of the server inside a sandbox image (sandbox/server):      *)
(* KernelPool of kernels.py with the handlers of app.py that call it.  One *)
(* asyncio process serves requests that create, interrupt, restart and     *)
(* delete kernels, and websockets that execute a cell on one.  A kernel's  *)
(* entry has a lock that a request holds while it streams its cell; a new  *)
(* cell displaces the one that runs (take-over).                           *)
(*                                                                         *)
(* A step goes from one await to the next.  An asyncio lock is taken at    *)
(* once only if it is free and nobody waits; released, it goes to the      *)
(* first waiter, but is free until that waiter runs.                       *)
(*                                                                         *)
(* External (jupyter_client and the kernels, as kernels.py uses them): a   *)
(* kernel runs its cells in their order; SIGINT ends the cell that runs,   *)
(* unless it is stubborn, and stop_on_error drops the ones behind it; a    *)
(* restart loses them all, and breaks the channels of whoever reads if     *)
(* ChannelsTear (kernels.py:281); a closed channel raises.                 *)
(***************************************************************************)
EXTENDS Integers, Sequences, FiniteSets, SequencesExt

CONSTANTS
    MaxStarts,     \* bound on the kernels ever started
    MaxCallers,    \* bound on requests, of one operation each
    CellKinds,     \* what a cell may do, a subset of AllCellKinds
    PoolOps,       \* operations besides execute, a subset of AllPoolOps
    MaxKernels,    \* max_kernels, not 0
    ChannelsTear,  \* does a restart break the channels of the cell's reader?
    MaxKernelFaults, \* bound on kernels that do not get ready
    MaxLeaves      \* bound on clients that disconnect

AllCellKinds == {"quick",    \* ends by itself
                 "loop",     \* goes on in silence until it is interrupted
                 "prints",   \* goes on and prints
                 "asks",     \* reads a line of stdin
                 "stubborn"} \* goes on in silence and does not take SIGINT
AllPoolOps == {"create", "interrupt", "restart", "delete"}

ASSUME KernelPoolAssumption ==
    /\ MaxStarts \in Nat /\ MaxCallers \in Nat
    /\ CellKinds \subseteq AllCellKinds /\ PoolOps \subseteq AllPoolOps
    /\ MaxKernels \in Nat \ {0} /\ ChannelsTear \in BOOLEAN
    /\ MaxKernelFaults \in Nat /\ MaxLeaves \in Nat

\* Kernels and requests are numbered in the order they come.
KernelId == 1..MaxStarts
Caller == 1..MaxCallers
NewKernel == 0   \* kernel_id "new"
Nobody == 0

VARIABLES
    entries,   \* _entries: ids, the least recently used first
    managed,   \* kernels the AsyncMultiKernelManager knows
    alive,     \* kernels that have a process
    used,      \* how many kernels were started
    cells,     \* cells[k]: callers whose cells kernel k has, the running one first
    client,    \* client[k]: generation of entry.client, and is it open?
    poolLock,  \* who holds KernelPool._lock
    holder,    \* holder[k]: who holds entry.lock
    waiting,   \* waiting[k]: who waits for it
    caller,    \* caller[c]: the request
    mishaps    \* faults and disconnects so far

lockVars == <<holder, waiting>>
kernelVars == <<managed, alive, used>>
poolVars == <<entries, kernelVars, cells, client, poolLock, lockVars, caller, mishaps>>

-----------------------------------------------------------------------------
CallerState ==
    [op     : AllPoolOps \cup {"execute"},
     pc     : {"new", "lookup", "create", "evict", "evicting", "starting", "ready",
               "preempt", "polling", "restarted", "queued", "rebuilding", "run", "input",
               "interrupt", "restart", "delete", "deleting", "shutdown", "done"},
     then   : {"run", "rebuild", "restart", "shutdown"}, \* what it wants the entry's lock for
     k      : KernelId \cup {NewKernel},
     cell   : AllCellKinds,
     fate   : {"none", "sent", "ended", "lost"},  \* of the cell
     reads  : Nat,                                \* generation of the client it reads
     gone   : BOOLEAN]                            \* its websocket is closed

NewCaller == [op |-> "execute", pc |-> "new", k |-> NewKernel, then |-> "run",
              cell |-> "quick", fate |-> "none", reads |-> 0, gone |-> FALSE]

KernelPoolInit ==
    /\ entries = <<>>
    /\ managed = {}
    /\ alive = {}
    /\ used = 0
    /\ cells = [k \in KernelId |-> <<>>]
    /\ client = [k \in KernelId |-> [gen |-> 0, open |-> FALSE]]
    /\ poolLock = Nobody
    /\ holder = [k \in KernelId |-> Nobody]
    /\ waiting = [k \in KernelId |-> <<>>]
    /\ caller = [c \in Caller |-> NewCaller]
    /\ mishaps = [faults |-> 0, leaves |-> 0]

InPool(k) == \E i \in DOMAIN entries : entries[i] = k
\* _entries without k, which has at most one place in it.
Popped(k) == IF InPool(k) THEN RemoveAt(entries, CHOOSE i \in DOMAIN entries : entries[i] = k)
             ELSE entries
PoolFault == /\ mishaps.faults < MaxKernelFaults
             /\ mishaps' = [mishaps EXCEPT !.faults = @ + 1]

Moved(c, pc) == [caller EXCEPT ![c].pc = pc]
MoveTo(c, pc) == caller' = Moved(c, pc)

-----------------------------------------------------------------------------
(* The entry's lock *)

LockFree(k) == holder[k] = Nobody /\ waiting[k] = <<>>
Releases(k) == holder' = [holder EXCEPT ![k] = Nobody]

\* What c does first with the lock: its cell is sent (a client that was closed
\* raises), or the client replaced by a new one, whose kernel is then waited for.
Replaced(k) == client' = [client EXCEPT ![k] = [gen |-> @.gen + 1, open |-> TRUE]]
GoesOn(c, then) ==
    LET k == caller[c].k
    IN  CASE then = "run" /\ client[k].open ->
                /\ holder' = [holder EXCEPT ![k] = c]
                /\ cells' = [cells EXCEPT ![k] = Append(@, c)]
                /\ caller' = [caller EXCEPT ![c].pc = "run", ![c].fate = "sent",
                                            ![c].reads = client[k].gen]
                /\ UNCHANGED client
          [] then = "run" /\ ~client[k].open ->
                Releases(k) /\ MoveTo(c, "done") /\ UNCHANGED <<cells, client>>
          [] then = "rebuild" ->
                /\ holder' = [holder EXCEPT ![k] = c]
                /\ Replaced(k)
                /\ MoveTo(c, "rebuilding") /\ UNCHANGED cells
          [] OTHER ->
                /\ holder' = [holder EXCEPT ![k] = c]
                /\ MoveTo(c, then) /\ UNCHANGED <<cells, client>>

\* entry.lock.acquire(): the lock is taken at once, or waited for.
Acquires(c, then) ==
    LET k == caller[c].k
    IN  IF LockFree(k)
        THEN GoesOn(c, then) /\ UNCHANGED waiting
        ELSE /\ waiting' = [waiting EXCEPT ![k] = Append(@, c)]
             /\ caller' = [caller EXCEPT ![c].pc = "queued", ![c].then = then]
             /\ UNCHANGED <<holder, cells, client>>

\* The first waiter runs, with the lock.
GetsLock(c) ==
    LET k == caller[c].k
    IN  /\ caller[c].pc = "queued"
        /\ Head(waiting[k]) = c /\ holder[k] = Nobody
        /\ GoesOn(c, caller[c].then)
        /\ waiting' = [waiting EXCEPT ![k] = Tail(@)]
        /\ UNCHANGED <<entries, kernelVars, poolLock, mishaps>>

-----------------------------------------------------------------------------
(* The kernel's process *)

\* What became of the cells of the callers in s.
Fates(s, fate, callers) ==
    [c \in Caller |-> IF c \in ToSet(s) THEN [callers[c] EXCEPT !.fate = fate] ELSE callers[c]]

\* SIGINT: KeyboardInterrupt in the cell that runs.
Interruptible(k) == k \in alive /\ cells[k] # <<>> /\ caller[Head(cells[k])].cell # "stubborn"
SigInt(k, callers) ==
    IF Interruptible(k)
    THEN /\ cells' = [cells EXCEPT ![k] = <<>>]
         /\ caller' = Fates(cells[k], "ended", callers)
    ELSE caller' = callers /\ UNCHANGED cells

\* The process ends: its cells are lost ...
Killed(k, callers) == /\ cells' = [cells EXCEPT ![k] = <<>>]
                      /\ caller' = Fates(cells[k], "lost", callers)

\* ... or is restarted, even after the manager has let go of the kernel.
Restarted(k, callers) == Killed(k, callers) /\ alive' = alive \cup {k}

ShutDown(k, callers) == /\ Killed(k, callers)
                        /\ managed' = managed \ {k}
                        /\ alive' = alive \ {k}

CellEnds(k) ==
    /\ k \in alive /\ cells[k] # <<>> /\ caller[Head(cells[k])].cell = "quick"
    /\ cells' = [cells EXCEPT ![k] = Tail(@)]
    /\ caller' = Fates(<<Head(cells[k])>>, "ended", caller)
    /\ UNCHANGED <<entries, kernelVars, client, poolLock, lockVars, mishaps>>

-----------------------------------------------------------------------------
(* Requests *)

Arrives(c) == caller[c].pc = "new" /\ \A d \in 1..(c - 1) : caller[d].pc # "new"

\* A client executes a cell, on a kernel of its choice or a new one ...
Execute(c) ==
    /\ Arrives(c)
    /\ \E k \in 0..used, cell \in CellKinds :
          caller' = [caller EXCEPT ![c].pc = "lookup", ![c].k = k, ![c].cell = cell]
    /\ UNCHANGED <<entries, kernelVars, cells, client, poolLock, lockVars, mishaps>>

\* ... or asks for an operation.
KernelRequest(c) ==
    /\ Arrives(c)
    /\ \E op \in PoolOps, k \in 0..used :
          /\ op = "create" <=> k = NewKernel
          /\ caller' = [caller EXCEPT ![c].op = op, ![c].k = k,
                        ![c].pc = CASE op = "create" -> "create"
                                    [] op = "interrupt" -> "interrupt"
                                    [] op = "restart" -> "ready"
                                    [] op = "delete" -> "lookup"]
    /\ UNCHANGED <<entries, kernelVars, cells, client, poolLock, lockVars, mishaps>>

\* get_or_create: the entry, which becomes the most recently used one, or create.
LooksUp(c) ==
    LET k == caller[c].k
        found == k # NewKernel /\ InPool(k) /\ k \in managed
    IN  /\ caller[c].op = "execute" /\ caller[c].pc = "lookup"
        /\ poolLock = Nobody
        /\ entries' = IF found THEN Append(Popped(k), k) ELSE entries
        /\ MoveTo(c, IF found THEN "ready" ELSE "create")
        /\ UNCHANGED <<kernelVars, cells, client, poolLock, lockVars, mishaps>>

\* create, under the pool's lock ...
CreatesKernel(c) ==
    /\ caller[c].pc = "create" /\ poolLock = Nobody
    /\ poolLock' = c
    /\ MoveTo(c, "evict")
    /\ UNCHANGED <<entries, kernelVars, cells, client, lockVars, mishaps>>

\* ... first _enforce_limit_locked: the least recently used entry goes, whatever it runs ...
Full == Len(entries) >= MaxKernels
Evicts(c) ==
    LET k == Head(entries)
    IN  /\ caller[c].pc = "evict" /\ Full
        /\ entries' = Tail(entries)
        /\ client' = [client EXCEPT ![k].open = FALSE]
        /\ caller' = [caller EXCEPT ![c].pc = "evicting", ![c].k = k]
        /\ UNCHANGED <<kernelVars, cells, poolLock, lockVars, mishaps>>
Evicted(c) ==
    LET k == caller[c].k
    IN  /\ caller[c].pc = "evicting"
        /\ ShutDown(k, Moved(c, "evict"))
        /\ UNCHANGED <<entries, used, client, poolLock, lockVars, mishaps>>

\* ... then a kernel is started ...
Starts(c) ==
    /\ caller[c].pc = "evict" /\ ~Full
    /\ used < MaxStarts /\ used' = used + 1
    /\ managed' = managed \cup {used'}
    /\ alive' = alive \cup {used'}
    /\ caller' = [caller EXCEPT ![c].pc = "starting", ![c].k = used']
    /\ UNCHANGED <<entries, cells, client, poolLock, lockVars, mishaps>>

\* ... and gets ready, or is shut down again.
Started(c) ==
    LET k == caller[c].k
    IN  /\ caller[c].pc = "starting"
        /\ entries' = Append(entries, k)
        /\ client' = [client EXCEPT ![k] = [gen |-> 1, open |-> TRUE]]
        /\ poolLock' = Nobody
        /\ MoveTo(c, IF caller[c].op = "execute" THEN "ready" ELSE "done")
        /\ UNCHANGED <<kernelVars, cells, lockVars, mishaps>>
AfterFailedStart_Forgotten(c) == MoveTo(c, "done") /\ UNCHANGED <<managed, alive, cells>>
AfterFailedStart(c) == ShutDown(caller[c].k, Moved(c, "done"))
StartingFails(c) ==
    /\ caller[c].pc = "starting"
    /\ PoolFault
    /\ AfterFailedStart(c)
    /\ poolLock' = Nobody
    /\ UNCHANGED <<entries, used, client, lockVars>>

-----------------------------------------------------------------------------
(* execute *)

\* The kernel's id is sent; then a cell under way is displaced, or the lock asked for.
Enters(c) ==
    LET k == caller[c].k
    IN  /\ caller[c].op = "execute" /\ caller[c].pc = "ready"
        /\ IF caller[c].gone \/ (holder[k] # Nobody /\ k \in managed)
           THEN /\ MoveTo(c, IF caller[c].gone THEN "done" ELSE "preempt")
                /\ UNCHANGED <<cells, client, lockVars>>
           ELSE Acquires(c, "run")
        /\ UNCHANGED <<entries, kernelVars, poolLock, mishaps>>

\* _preempt: softly ...
Preempts(c) ==
    /\ caller[c].pc = "preempt"
    /\ SigInt(caller[c].k, Moved(c, "polling"))
    /\ UNCHANGED <<entries, kernelVars, client, poolLock, lockVars, mishaps>>
SeesLockFree(c) ==
    /\ caller[c].pc = "polling" /\ holder[caller[c].k] = Nobody
    /\ Acquires(c, "run")
    /\ UNCHANGED <<entries, kernelVars, poolLock, mishaps>>

\* ... and, after preempt_timeout_sec, by a restart; the client is rebuilt under the
\* lock, which is waited for.
LosesPatience_Never(c) == FALSE
LosesPatience(c) == caller[c].pc = "polling" /\ holder[caller[c].k] # Nobody
PreemptsHard(c) ==
    /\ LosesPatience(c)
    /\ Restarted(caller[c].k, Moved(c, "restarted"))
    /\ UNCHANGED <<entries, managed, used, client, poolLock, lockVars, mishaps>>
WantsRebuild_Unlocked(c) ==
    /\ caller[c].pc = "restarted"
    /\ Replaced(caller[c].k) /\ MoveTo(c, "rebuilding")
    /\ UNCHANGED <<entries, kernelVars, cells, poolLock, lockVars, mishaps>>
WantsRebuild(c) ==
    /\ caller[c].pc = "restarted"
    /\ Acquires(c, "rebuild")
    /\ UNCHANGED <<entries, kernelVars, poolLock, mishaps>>

\* The kernel is ready: the lock is released, and taken for the cell itself.
Rebuilt(c) ==
    LET k == caller[c].k
    IN  /\ caller[c].pc = "rebuilding" /\ k \in alive
        /\ CASE caller[c].op = "restart" ->
                  Releases(k) /\ MoveTo(c, "done") /\ UNCHANGED <<cells, client, waiting>>
             [] caller[c].op = "execute" /\ waiting[k] = <<>> ->
                  GoesOn(c, "run") /\ UNCHANGED waiting
             [] OTHER ->
                  /\ Releases(k)
                  /\ waiting' = [waiting EXCEPT ![k] = Append(@, c)]
                  /\ caller' = [caller EXCEPT ![c].pc = "queued", ![c].then = "run"]
                  /\ UNCHANGED <<cells, client>>
        /\ UNCHANGED <<entries, kernelVars, poolLock, mishaps>>
RebuildFails(c) ==
    LET k == caller[c].k
    IN  /\ caller[c].pc = "rebuilding"
        /\ PoolFault \/ (k \notin alive /\ UNCHANGED mishaps)
        /\ Releases(k) /\ MoveTo(c, "done") /\ UNCHANGED waiting
        /\ UNCHANGED <<entries, kernelVars, cells, client, poolLock>>

\* Its idle status is read: done.  A client that is gone is noticed when it is told.
Ends(c) ==
    LET k == caller[c].k
    IN  /\ caller[c].pc = "run" /\ caller[c].fate = "ended" /\ client[k].open
        /\ Releases(k)
        /\ MoveTo(c, IF caller[c].gone THEN "interrupt" ELSE "done")
        /\ UNCHANGED <<entries, kernelVars, cells, client, poolLock, waiting, mishaps>>

\* "iopub channel error": the channels were closed under it, or broke with a restart.
Torn(c) ==
    LET k == caller[c].k
    IN  /\ caller[c].pc = "run"
        /\ ~client[k].open \/ (caller[c].fate = "lost" /\ ChannelsTear)
        /\ Releases(k)
        /\ MoveTo(c, "done")
        /\ UNCHANGED <<entries, kernelVars, cells, client, poolLock, waiting, mishaps>>

\* A line of output is sent to the client; one that is gone is noticed: aclose().
Runs(c, kind) == /\ caller[c].pc = "run" /\ caller[c].cell = kind
                 /\ cells[caller[c].k] # <<>> /\ Head(cells[caller[c].k]) = c
                 /\ client[caller[c].k].open
Noticed(c) == caller[c].gone
OutputNoticesDisconnect(c) ==
    /\ Runs(c, "prints") /\ Noticed(c)
    /\ Releases(caller[c].k)
    /\ MoveTo(c, "interrupt")
    /\ UNCHANGED <<entries, kernelVars, cells, client, poolLock, waiting, mishaps>>

\* The cell's input() is put to the client, and its reply awaited; nothing is read
\* meanwhile.
AsksInput(c) ==
    /\ Runs(c, "asks")
    /\ MoveTo(c, "input")
    /\ UNCHANGED <<entries, kernelVars, cells, client, poolLock, lockVars, mishaps>>
Replies(c) ==
    /\ caller[c].pc = "input" /\ ~caller[c].gone
    /\ caller' = [caller EXCEPT ![c].pc = "run", ![c].cell = "quick"]
    /\ UNCHANGED <<entries, kernelVars, cells, client, poolLock, lockVars, mishaps>>
InputNoticesDisconnect(c) ==
    /\ caller[c].pc = "input" /\ Noticed(c)
    /\ Releases(caller[c].k)
    /\ MoveTo(c, "interrupt")
    /\ UNCHANGED <<entries, kernelVars, cells, client, poolLock, waiting, mishaps>>

\* interrupt(), for a client that left or asked for it.
Interrupts(c) ==
    /\ caller[c].pc = "interrupt"
    /\ IF caller[c].k \in managed THEN SigInt(caller[c].k, Moved(c, "done"))
                                  ELSE MoveTo(c, "done") /\ UNCHANGED cells
    /\ UNCHANGED <<entries, kernelVars, client, poolLock, lockVars, mishaps>>

\* The client's websocket closes; the server sees it when it next sends or receives.
Leaves(c) ==
    /\ caller[c].op = "execute" /\ caller[c].pc \notin {"new", "interrupt", "done"}
    /\ ~caller[c].gone /\ mishaps.leaves < MaxLeaves
    /\ caller' = [caller EXCEPT ![c].gone = TRUE]
    /\ mishaps' = [mishaps EXCEPT !.leaves = @ + 1]
    /\ UNCHANGED <<entries, kernelVars, cells, client, poolLock, lockVars>>

-----------------------------------------------------------------------------
(* restart and delete *)

\* restart waits for the lock: the client is not replaced while a cell is read from it.
RestartBegins_Unlocked(c) == MoveTo(c, "restart") /\ UNCHANGED <<cells, client, lockVars>>
RestartBegins(c) == Acquires(c, "restart")
WantsRestart(c) ==
    LET k == caller[c].k
    IN  /\ caller[c].op = "restart" /\ caller[c].pc = "ready"
        /\ IF InPool(k) /\ k \in managed
           THEN RestartBegins(c)
           ELSE MoveTo(c, "done") /\ UNCHANGED <<cells, client, lockVars>>
        /\ UNCHANGED <<entries, kernelVars, poolLock, mishaps>>
Restarts(c) ==
    /\ caller[c].pc = "restart"
    /\ Restarted(caller[c].k, Moved(c, "rebuilding"))
    /\ Replaced(caller[c].k)
    /\ UNCHANGED <<entries, managed, used, poolLock, lockVars, mishaps>>

\* delete takes the entry out of the pool ...
Deletes(c) ==
    LET k == caller[c].k
    IN  /\ caller[c].op = "delete" /\ caller[c].pc = "lookup"
        /\ poolLock = Nobody
        /\ entries' = Popped(k)
        /\ MoveTo(c, IF InPool(k) THEN "delete"
                     ELSE IF k \in managed THEN "shutdown" ELSE "done")
        /\ UNCHANGED <<kernelVars, cells, client, poolLock, lockVars, mishaps>>

\* ... interrupts its cell, waits for the lock, and shuts the kernel down.
DeleteInterrupts(c) ==
    /\ caller[c].pc = "delete"
    /\ SigInt(caller[c].k, Moved(c, "deleting"))
    /\ UNCHANGED <<entries, kernelVars, client, poolLock, lockVars, mishaps>>
DeleteWaits(c) ==
    /\ caller[c].pc = "deleting"
    /\ Acquires(c, "shutdown")
    /\ UNCHANGED <<entries, kernelVars, poolLock, mishaps>>
ShutsDown(c) ==
    LET k == caller[c].k
    IN  /\ caller[c].pc = "shutdown"
        /\ IF holder[k] = c
           THEN /\ client' = [client EXCEPT ![k].open = FALSE]
                /\ Releases(k)
           ELSE UNCHANGED <<client, holder>>
        /\ IF k \in managed
           THEN ShutDown(k, Moved(c, "done"))
           ELSE MoveTo(c, "done") /\ UNCHANGED <<cells, managed, alive>>
        /\ UNCHANGED <<entries, used, poolLock, waiting, mishaps>>

-----------------------------------------------------------------------------
\* What the server does for a request that has come.
Serves(c) ==
    \/ LooksUp(c) \/ CreatesKernel(c) \/ Evicts(c) \/ Evicted(c) \/ Starts(c) \/ Started(c)
    \/ StartingFails(c) \/ Enters(c) \/ Preempts(c) \/ SeesLockFree(c) \/ PreemptsHard(c)
    \/ WantsRebuild(c) \/ GetsLock(c) \/ Rebuilt(c) \/ RebuildFails(c)
    \/ Ends(c) \/ Torn(c) \/ OutputNoticesDisconnect(c) \/ AsksInput(c)
    \/ InputNoticesDisconnect(c) \/ Interrupts(c) \/ WantsRestart(c) \/ Restarts(c)
    \/ Deletes(c) \/ DeleteInterrupts(c) \/ DeleteWaits(c) \/ ShutsDown(c)

KernelPoolNext ==
    \/ \E c \in Caller : Execute(c) \/ KernelRequest(c) \/ Serves(c) \/ Replies(c) \/ Leaves(c)
    \/ \E k \in KernelId : CellEnds(k)

\* The server's tasks go on, and a cell that ends by itself ends.  A client need not
\* ask, reply or leave.
KernelPoolFairness == /\ \A c \in Caller : WF_poolVars(Serves(c))
                      /\ \A k \in KernelId : WF_poolVars(CellEnds(k))

KernelPoolSpec == KernelPoolInit /\ [][KernelPoolNext]_poolVars
KernelPoolFairSpec == KernelPoolSpec /\ KernelPoolFairness

-----------------------------------------------------------------------------
(* Properties *)

HoldsLock == {"run", "input", "restart", "rebuilding"}

\* Types; and who holds or waits for a lock is where the code holds or waits for it.
KernelPoolTypeOK ==
    /\ entries \in Seq(KernelId) /\ managed \cup alive \subseteq 1..used /\ used <= MaxStarts
    /\ caller \in [Caller -> CallerState]
    /\ \A k \in KernelId : /\ cells[k] \in Seq(Caller) /\ waiting[k] \in Seq(Caller)
                          /\ client[k].gen \in Nat /\ client[k].open \in BOOLEAN
                          /\ holder[k] \in Caller \cup {Nobody}
    /\ \A c \in Caller :
          /\ caller[c].pc = "queued" <=> \E k \in KernelId : c \in ToSet(waiting[k])
          /\ caller[c].pc \in HoldsLock => holder[caller[c].k] = c
    /\ poolLock \in Caller \cup {Nobody}

\* The pool never has more than max_kernels, and every kernel the manager knows is in
\* it, or on its way in or out: none is forgotten (create, delete and the eviction).
InTransit(k) ==
    \E c \in Caller : caller[c].k = k /\
        \/ caller[c].pc \in {"evicting", "starting", "shutdown"}
        \/ caller[c].op = "delete" /\ caller[c].pc \in {"delete", "deleting", "queued"}
PoolHasEveryKernel ==
    /\ Len(entries) <= MaxKernels
    /\ \A k \in managed : InPool(k) \/ InTransit(k)

\* The client is never replaced under the cell that reads from it (the comment in
\* restart), whoever restarts, displaces and rebuilds at once.
ReaderKeepsClient ==
    \A c \in Caller : caller[c].pc \in {"run", "input"} 
                         => caller[c].reads = client[caller[c].k].gen

\* Take-over: a cell that is in the way of a request leaves the kernel to others, unless
\* it waits for its client's input; a hard restart serves where SIGINT does not
\* (kernels.py:202-203, 265-271).
InTheWay(d) == /\ caller[d].pc = "run"
               /\ \E c \in Caller : /\ caller[c].pc \in {"preempt", "polling"}
                                    /\ holder[caller[c].k] = d
TakesOver == \A d \in Caller : InTheWay(d) ~> caller[d].pc # "run"

\* "a client that left during the execution: interrupt the kernel, so that the
\* abandoned cell (e.g. while True) does not burn the CPU in the background".
AbandonedCellsEnd ==
    \A c \in Caller : caller[c].gone /\ caller[c].fate = "sent" ~> caller[c].fate # "sent"
=============================================================================
