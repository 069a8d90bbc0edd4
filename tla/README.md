# TLA+ verification of giga_agent

giga_agent is an agent server: a FastAPI application around a LangGraph agent,
with sandboxes in which the agent executes code, warm sessions to external MCP
servers, scheduled background runs, chat channels and a React front end. This
directory holds TLA+ models of the parts of the backend where several actors
meet (processes, asyncio tasks, users, crashes, timeouts) or where a long
conversation meets its own history, the TLC configurations that check them, and
TLAPS proofs about them. Paths below are relative to `src/backend/giga_agent/`
unless they start with `src/` or `sandbox/server/` (which is
`src/backend/sandbox/server/`).

To check: `tlc -config <run>.cfg <Module>.tla` for a run (section 4 names the
module), `tlapm <Module>Proofs.tla` for the proofs. `PROJECT.json` lists runs,
mutants, the lines every definition stands for, hazards and theorems.

## 1. Inventory

### Modelled

**Scheduled tasks** (`scheduled/scheduler.py`, `scheduled/runner.py`,
`models/scheduled_task.py`, `modules/scheduler/`): `ScheduledTasks`.
State: rows of `core_scheduled_tasks`; in each server process a sweeper task,
the batch it claimed and a semaphore; a sweeper lock in the shared cache.
Operations: create, edit, patch, cancel, delete; the sweeper's select-and-claim;
execution (graph run, save result, deliver, finalize); `reset_stale_running` at
start-up. Interaction: runner → agent graph → delivery targets.
Hard: several processes over one table, a lock with a TTL, a crash between any
two commits, user edits between the runner's read and its write.
Correct when: a claim is executed by one process, no row is stranded in
`running`, a saved result is delivered as saved and not recomputed, a due row is
claimed, a user's decision is not overwritten.

**MCP session pool** (`modules/mcp/pool.py`, `modules/mcp/client.py`,
`models/mcp_server.py`): `McpPool`, `SessionPool`.
State: deques of idle workers per (user, server), the set of all workers, three
counters, an epoch per server; each worker a task with a queue and a `closed`
event; the tool-discovery cache. Operations: acquire, submit and wait for
answer, death or time-out, release, invalidate, retire, shutdown.
Interaction: repository edits call `invalidate`; requests are agent tool calls.
Hard: requests, workers, invalidations and cancellations interleave at every
`await`; a worker can be cancelled before its first step.
Correct when: one request per session, settings of a leased session are the
current ones, counters equal what they count and respect their limits, every
waiting operation is answered, every dropped session is closed.

**Sandbox lifecycle** (`sandbox/manager/lifecycle_service.py`,
`resolve_service.py`, `models/sandbox.py`, `sandbox/local_docker/runtime.py`,
`sandbox/idle_sweeper.py`, `sandbox/orphan_sweeper.py`): `SandboxLifecycle`.
State: rows, labelled Docker containers, a lifecycle lock per sandbox and a
capacity lock per provider, the ORM objects every session holds. Operations:
ensure-running, stop with forced fallback, capacity reservation, idle sweep,
reconciliation of stale starts, orphan clean-up.
Hard: database and Docker change separately, operations are cut short by lock
time-outs and crashes, sweepers plan before they lock, and a SELECT does not
refresh an object the session already holds.
Correct when: active rows stay within `max_active_sandboxes`, a RUNNING row
names its own container, starts heal, stray containers are reaped and living
ones are not.

**Kernels of the sandbox image** (`sandbox/server/kernels.py`,
`sandbox/server/app.py`): `KernelPool`.
State: an LRU of kernels, a lock for the pool and one per kernel, a client with
channels per kernel, the cells a kernel has been sent. Operations: create with
eviction, execute over a websocket with take-over of a busy kernel, stdin,
interrupt, restart, delete.
Interaction: the sandbox runtimes call it over HTTP and websockets.
Hard: a request waits for a lock another one holds while its cell runs; a
client is rebuilt or replaced while somebody reads it; a cell may ignore SIGINT.
Correct when: no kernel runs outside the pool, nobody reads a replaced client, a
request for a busy kernel gets it.

**Shell sessions of the sandbox image** (`sandbox/server/shell.py`,
`sandbox/server/app.py`): `ShellSessions`.
State: a session per command with its log file, the offset up to which its
output was delivered, an exit task and a size guard. Operations: run, await
(what is new since the offset), kill, collection of old sessions.
Hard: the offset is read before a wait and written after it, while the command
prints or ends, the guard kills it and cuts the log, and others read.
Correct when: readers get the output once and whole.

**Agent graph, tool node, middlewares** (`core/agent/graph_factory.py`,
`core/agent/tool_node.py`, `anti_loop.py`, `repair.py`, `think.py`,
`multi_tool_use.py`, `middlewares/tool_result.py`,
`middlewares/repair_messages.py`, `modules/clarify/`): `AgentTurn`.
State: the history of a thread, the node under way, the calls in hand, the
python kernel, the autonomy flag. Operations: the nodes; refusal, approval,
answers and client results of the user; stop; retry.
Hard: an interrupt runs its node again from its start; a stopped run leaves
calls without results; the history is repaired and rewritten in two ways before
the model sees it; python calls run in a chain beside parallel calls.
Correct when: the model is shown an acceptable history, refused calls stay
unrun, python keeps its kernel, a turn ends.

**Presentation graph** (`agents/experimental/graph.py`): `ExperimentalTurn`.
State: an outer thread with a cursor over the messages of a hidden inner thread,
inner runs, an activity log and its boundary in the cache, status markers.
Operations: kickoff, pump, the interrupt node, and what the LangGraph server does
with inner runs.
Hard: the inner run goes on between any two awaits; the user stops the outer
run; a process restarts inside a node, whose calls are then made again; reads and
deletions that fail are swallowed.
Correct when: messages are shown once, in order and none is skipped, an answer
reaches its question, the activity is that of the turn, the turn ends.

**Deep research** (`modules/deep_research/`): `DeepResearch`.
State: plan, sources by id, searched queries, counters, draft and verdict, and
the file last uploaded; all of it stays in the thread for the next research.
Hard: failing searches, two loops ended by counters, threads continued.
Correct when: a citation keeps its page, no page has two numbers, it ends.

**Rate limiter** (`core/rate_limit.py`, `models/rate_limit.py`,
`routes/rate_limits.py`): `RateLimiter`.
State: one token bucket for all users and one per user in the cache, the locks
under which they are read and written, the limit's row and its cache entry.
Hard: buckets expire, locks expire, holders die between two writes, the limit
is edited while calls wait.
Correct when: no bucket grants more than its rate and one burst, and nobody
waits in vain.

### Not modelled

| Component | State and operations | Why not |
|---|---|---|
| Local Jupyter manager (`sandbox/local_jupyter/manager.py`) | server process, metadata file, kernels per owner | its comments' promises (a singleton, a kernel limit) do not hold under the interleavings a model would have; section 5 lists how |
| Process supervisor (`core/process_supervisor.py`) | registry file, lock file | as above: registry reads and writes are separate critical sections |
| Telegram and channels (`channels/`) | thread mapping, pending prompts, media groups | what is interesting is what the Telegram and LangGraph servers do between check and call; section 5 lists what follows |
| Memory (`memory/`) | notes and their index | two indexers share no lock, so no relation of index and notes is invariant; section 5 |
| Permissions (`models/resource_permission.py`, `models/group.py`) | grants to users and groups | one query each, no interleaving |
| Invites, sessions, login throttle (`modules/auth/`) | invites, counters in the cache | guarded single statements |
| OAuth integrations (`core/integrations/`) | tokens, pending states | external protocol |
| RAG (`modules/rag/`), skills, files and IO, projects | rows and files, one request at a time | CRUD |
| File routes and idle watchdog of the sandbox image | files, a time of last activity | one request at a time; section 5 for the watchdog |
| Other agent graphs, adapters of LLMs, embeddings, images, search, connectors | none of their own between two calls | content of model calls |
| REST routes, cache and database glue, module registry, CLI, migrations, logging, front end, documentation | none shared | no protocol |

## 2. The plan and where it stands

| Order | Module | Composes / refines | Status |
|---|---|---|---|
| 1 | `ScheduledTasks`, `ScheduledTasksProofs` | rows × processes × users | checked; all its safety properties proved |
| 2 | `McpPool`, `McpPoolProofs` | refines `SessionPool` | checked; its invariants, the refinement and the safety half of its liveness proved |
| 3 | `SandboxLifecycle`, `SandboxLifecycleProofs` | rows × containers × requests × sweepers | checked; its invariants proved |
| 4 | `AgentTurn`, `AgentTurnProofs` | history × user × tools | checked; its invariants proved |
| 5 | `ExperimentalTurn`, `ExperimentalTurnProofs` | outer × inner runs × user | checked; its invariants proved |
| 6 | `DeepResearch`, `ConversationProofs` | researches of a thread | checked; its safety property and a bound on its steps proved |
| 7 | `KernelPool`, `ShellSessions`, `SandboxModesProofs` | kernels × requests, commands × readers × guards | checked; their invariants proved |
| 8 | `RateLimiter`, `RateLimiterProofs` | buckets × calls × edits | checked; its safety properties and the exactness of its sleeps proved |
| 9 | `MCConversations`, `MCSandboxModes` with the same proof modules | the parts next to one another | checked; that they are behaviours of the parts proved |

Modules of different components that share no state are put into one TLC model
where their runs have the same shape: `MCConversations` (the three kinds of
threads), `MCSandboxModes` and `MCSandboxLive` (the manager of sandboxes and the
kernels and shells inside one), `MCTasksAndLimits` (scheduled tasks and rate
limits). A variable chosen at the start (`part`, `mode`) says which of them runs;
the others stay at their initial state, and the fairness of each is conditional
on its own part. They add nothing to what the components do.

## 3. The modules

Every module models one step per stretch of code between two awaits that can
matter, unless it says otherwise. Variables and bounds carry a comment where
they are declared.

### ScheduledTasks

`row`, `stage`: the table. `up`, `cand`, `exec`: what each process holds; it is
lost in `Crash`, rows survive. `exec[p][t].mem` is the ORM object as last
loaded: `Finalized` writes only attributes that differ from it, as SQLAlchemy
does. `lock` is the cashews lock with its TTL (`ExpireLock`).

| Code | Actions |
|---|---|
| REST / chat operations | `Create`, `Edit`, `Patch`, `Cancel`, `Delete` |
| `ScheduledTaskSweeper` tick, `claim_due` | `LockAndSelect`, then `Claim` (the UPDATEs hold row locks until their commit, so they are one step) |
| `execute_due_task` | `Begin`, `NoToken`, `GraphDone` (with `save_result`), `GraphFails`, `Deliver`, `Finish` |
| start-up, death | `Start` (with `reset_stale_running`), `Crash` |

A prompt is a model value and a result is the prompt it was computed from; a
cron expression is its period; recipients are a set. Assumed: no database
errors; each user operation is one transaction. Not modelled: `run_task_now`,
which writes only `last_run_at` and `last_error`.

### McpPool and SessionPool

`wk` holds the workers (`_Worker`, its task, queue and events), `idle`, `all`,
`perKey`, `perUser`, `total`, `epoch` the pool, `cl` the requests, `config`,
`stale`, `tools` the server rows and the discovery cache. A request calls a tool
(`"call"`), lists tools through the cache, or lists them past it (`Lister`,
`Refresher` say which requests may).

| Code | Actions |
|---|---|
| `client.py` before the pool | `Resolve`, `CacheHit`, `CacheMiss` |
| `acquire`, `_lease`, `_spawn_locked`, one-shot sessions | `Acquire`, `DirectDone` |
| `submit` and its wait, the listing cached | `Submit`, `FoundInCache`, `Answer`, `Listed`, `SetCache`, `Failed`, `Timeout`, `CancelRequest` |
| `release` | `Release`, part of those that leave the block of `acquire` |
| `_Worker._run` | `Starts`, `NeverStarts`, `Opened`, `OpenFails`, `Takes`, `Resolved`, `OpDone`, `IdleTooLong`, `SessionClosed`, `Cancelled`, `Ages` |
| `models/mcp_server.py`, `invalidate`, `shutdown` | `Edit`, `DropTools`, `Invalidate`, `ToolsExpire`, `ShutdownPool` |

Worker identities are reused once nothing refers to an ended worker.
`SessionPool` is what the pool promises: sessions are taken by at most one
caller, returned or dropped, and never more than the limit live. `PoolPromise`
maps the pool's `all` and the requests' leases onto it. Abstracted: transports,
tool arguments, token refresh. Invalidation is for all users of a server, one at
a time per server.

### SandboxLifecycle

`row` is the database, `box` Docker, `task` the operations under way with the
object their session holds (`seen`) and the runtime object (`rt`), `lock` the
lifecycle locks. `Read` is the SELECT under the lock: it returns the session's
object when there is one (`core/db.py:147` sets `expire_on_commit=False`, and a
SELECT does not refresh a loaded object). `Committed` is a commit: only changed
attributes are written, and `set_status` refreshes the object.

| Code | Actions |
|---|---|
| `ensure_running_for_user` | `WantRunning`, then `EnsureReuses` / `EnsureRecreates` / `EnsureRestarts` / `EnsureStarts` |
| `_start_unlocked`, `up` | `Reserve`, `Up`, `Replaces`, `Ready`, `StartFails` |
| `_recreate_unlocked` | `EnsureRecreates`, `Recreate` |
| `_stop_runtime_for_sandbox` with `_handle_forced_stop_fallback` | `Stops`, `StopSucceeds`, `StopFails` |
| idle sweeper | `SelectIdle`, `SelectStale`, `Reconciles` |
| orphan sweeper | `SelectRows`, `ListBoxes`, `OrphanActs` |
| lock time limit, cancelled request, crash | `Abandon` |

A stop of a row in STARTING, STOPPING or ERROR, and every stop before a restart or
by the orphan sweeper, has a fallback (`Forced`): if Docker fails for the probe as
well, `is_up` says no and the row is STOPPED while its container may run
(`StopSucceeds`, second disjunct). `Recreate` swallows a failing stop and a failing
removal and clears the id all the same. Both use up a fault.

Times are abstracted to two sets: rows past the idle time-out (`idle`) and rows
past the STARTING TTL (`aged`). The lock's TTL exceeds the time limit of an
operation and the STARTING TTL exceeds both, so a lock never expires under its
holder and a row never ages while its lock is held (`Ages`).
`max_active_sandboxes` is counted under a lock of its own, hence one step
(`Reserve`). Not modelled: the deletion of sandboxes and providers, proxy
containers, hot resource updates.

### KernelPool

`entries` is the LRU, `managed` what the `AsyncMultiKernelManager` knows,
`alive` the processes, `cells` what each kernel has been sent, `client` the
entry's client (a generation and whether it is open), `poolLock`, `holder` and
`waiting` the asyncio locks, `caller` the requests. An asyncio lock that is
released is free until its first waiter runs, and nobody else gets it meanwhile
(`Acquires`, `GetsLock`).

| Code | Actions |
|---|---|
| `get_or_create`, `create`, `_enforce_limit_locked` | `LooksUp`, `CreatesKernel`, `Evicts`, `Evicted`, `Starts`, `Started`, `StartingFails` |
| `execute`, `_preempt` | `Execute`, `Enters`, `Preempts`, `SeesLockFree`, `PreemptsHard`, `WantsRebuild`, `GetsLock`, `Rebuilt`, `RebuildFails`, `Ends`, `Torn` |
| the websocket handler of `app.py` | `OutputNoticesDisconnect`, `AsksInput`, `Replies`, `InputNoticesDisconnect`, `Interrupts`, `Leaves` |
| REST operations | `KernelRequest`, `WantsRestart`, `Restarts`, `Deletes`, `DeleteInterrupts`, `DeleteWaits`, `ShutsDown` |
| kernels (external) | `CellEnds`, and `SigInt`, `Killed`, `Restarted` in the steps above |

A cell is one of five kinds: it ends by itself, loops in silence, prints for
ever, reads a line, or ignores SIGINT. Not modelled: the file routes and the
idle watchdog.

### ShellSessions

`session` is each command's `ShellSession` with its process and its log,
`ended` the completed sessions in the order `_gc` looks at them, `request` what
each waiting `run` or `await_shell` waits for. `told` is a ghost: in how many
answers each chunk of output was, and what answers said they leave out.

| Code | Actions |
|---|---|
| `run`, `_gc` | `RunShell` with `Forgets`, then `ShellAnswers` |
| `await_shell`, `_read_range` | `AwaitShell` with `Since`, then `ShellAnswers` |
| `kill` | `KillShell` with `ShellKilled` |
| `_await_exit` | `ExitSeen` |
| `_size_guard`, `_truncate_log` | `GuardKills`, `GuardWaited`, `GuardEnds`, `Truncates` |
| commands (external) | `Prints`, `Exits`, `Dies`, `ChildDies` |

Output is counted in chunks. A waiting request may answer at any poll, which
covers its deadline, its pattern and the end of the command. The process is
started and its session registered in one step, as nobody else knows the session
before; the wait of `kill` delays its reply, and the guard, only. The TTL takes
any prefix of `ended`. A command may leave a child in the background, which goes
on printing where it was in the file after the command, the guard and even the
cut are over. Answers are taken to reach the client. Not modelled: `list`, which
changes nothing, and `shutdown_all`, which is `kill` once per session at the end.

### AgentTurn

`hist` is the thread's message list, `at` and `phase` the run, `work` the calls
of the tools node in their order, `chain` and `kernel` the python kernel in the
node and in the state, `auto` the autonomy flag. A message is a record of its
sender, its calls, the call it answers and whether its status is "error". What a
node returns reaches `hist` when the node returns; a node that an interrupt or
a stop cuts short runs from its start (`UserAnswers`, `Stop`).

| Code | Actions and operators |
|---|---|
| `before_agent`, `repair_dangling_tool_calls` | `BeforeAgent` with `Repaired` |
| `amodel_node`, `detect_loop` | `CallModel`, `ThinksTooLong`, `ModelFails` with `Loops` (`Duplicate`, `Oscillation`, `OverBudget`, `Failing`) and `ThinkHops` |
| the message list sent to the model | `LlmView` (`CollapsedTools`, `CollapsedThinks`) |
| `ToolResultMiddleware.after_model`, `model_to_tools` | `AfterModelAsks`, `AfterModelGoes`, `UserRejects`, `UserApproves`, `ClientReturns`, each with `Goes` |
| `ToolNode`, `_arun_tool_calls`, `process_tool_result`, `_combine_tool_outputs` | `ToolEnds`, `CommitTools` |
| `ask_questions` | `AskInterrupts`, `AskEnds`, `UserAnswers` |
| the user, LangGraph | `NewMessage`, `Retry`, `Stop`, `ToggleAuto` |

The model is nondeterministic: any batch of `Batches`, or an answer. Tools
differ in what the code tells apart (`think`, `python`, a front-end tool,
`ask_questions`, others). Arguments are not modelled, so two calls of the same
tool are duplicates.

### ExperimentalTurn

`thread`, `runs`, `question` are the hidden inner thread on the LangGraph
server; `node` and `local` the outer run with its local variables, `state` what
it has committed; `shown`, `marker` what the user sees, `activity` the log and its
boundary in the cache.

| Code | Actions |
|---|---|
| `kickoff` | `Submit`, `KickoffReuses`, `KickoffCreates`, `KickoffRun`, `KickoffCommits` |
| `pump` | `Poll`, `Surface`, `Check`, `SettleQuestion`, `SettleTurn`, `ForgetActivity`, `TurnCommits` |
| `interrupt_node` | `Answer`, `InterruptRun`, `InterruptCommits` |
| stops and restarts | `StopPump` (its handler), `StopNode`, `Restart` |
| the cache's TTL | `ActivityExpires` |
| inner runs (external) | `RunStarts`, `RunWrites`, `RunAsks`, `RunSucceeds`, `RunFails` |

A message id is its position in the thread; rewriting of texts and the live
status are not modelled.

A restart runs the node under way again, whichever it is, from the committed state
and the input of its run: `kickoff` and `interrupt_node` then create a second inner
run, with the same message or the same answer, and `pump` looks anew. `KickoffReuses`
reads the length of the inner thread, or fails and takes 0. The log is completed,
deleted with its boundary (each deletion may fail) and the turn committed in three
steps. `KickoffCommits` resets the log and commits in one: until the commit nobody
records into the log, and a kickoff that runs again resets it again. `clean` is a
ghost: the boundary in the cache is one that kickoff could read while no inner run
was under way.

### DeepResearch

One action per node of the graph (`Planner`, `SearchSkips` / `SearchFails` /
`SearchBegins` / `SearchTakes` / `SearchEnds`, `Read`, `ReflectStops` /
`Reflect`, `ComposeFallsBack` / `Compose`, `Accepts` / `Revises`, `Finalize`);
`AfterReflect` and `AfterCritique` are its conditional edges, `Research` the
tool that starts it on a new or an old thread, `Abandoned` a run cut short. A
page is a normalised URL, a source an id with a page and a summary; what the
model says is any value of its type, failure and silence included. To which
sub-question a source belongs is in prompts only and left out.

### RateLimiter

`limit` and `cached` are the limit's row and its cache entry, `bucket` the two
kinds of token buckets, `holder` the cache's locks, `calls` the callers of
`aacquire`. `load` is a ghost: the calls that passed, as water in a bucket that
leaks at the permitted rate.

| Code | Actions |
|---|---|
| `get_for_resource`, `build_runtime_rate_limiter` | `HitsCache`, `ReadsRow`, `FillsCache` with `Limited` |
| `upsert`, `delete`, `invalidate_cache` | `EditLimit`, `InvalidateLimit` |
| `aacquire` | `EntersLock`, `WritesBucket` (once per bucket), `Passes`, `Blocks`, `Wakes` |
| cache (external) | `LockLapses`, `CacheExpires`, `Aged` |
| callers, clock | `CallsAgain`, `Ends`, `TimePasses` |

Time is in ticks, tokens in shares of a call, so all arithmetic is over the
integers. The clock is read once per lock; a live holder leaves its lock before
`_LOCK_EXPIRE`; a bucket's ttl is two periods (its minimum of 10 s is left out).
An edit changes which kinds of limit there are, not their numbers. Non-blocking
calls, which only tests make, and the synchronous `acquire` are left out.

## 4. What the runs check

| Run | Module | Bounds | Shows |
|---|---|---|---|
| `ScheduledTasks_shared` | `MCScheduledTasks` | 2 processes, 1 row, 2 prompts, clock 0..2, 2 user operations, 1 crash, lock may expire | `TypeOK`, `ClaimHandedOnce`, `RunningHasOwner`, `ResultKeptUntilDelivered`, `CancelHolds` |
| `ScheduledTasks_restart` | `MCTasksAndLimits` | tasks: 1 process, 2 rows, claim limit 1, 2 crashes, 2 cancellations, fair; limits: 1 user, 2 calls, 2 per period for the user and 1 for all, 1 edit, 1 death, fair | `PersistedResultNotRecomputed`, `RunningEnds`, `DueIsClaimed`; `LimiterTypeOK`, `RateWithinLimit`, `NobodyWaitsInVain` |
| `ScheduledTasks_oneworker` | `MCScheduledTasks` | 2 processes | **violated**: `OneWorkerPerRow` |
| `McpPool_checkout` | `MCMcpPool` | 2 requests, 2 workers, 2 configurations, 1 edit, 1 cancellation | `TypeOK`, `CountersExact`, `ExclusiveCheckout`, `LeaseIsFresh`, and the refinement `PoolPromise` |
| `McpPool_live` | `MCMcpPool` | 2 requests that call and list, 2 workers, limit 1, shutdown, fair | `OperationsAnswered`, `DroppedSessionsClose`, `ShutdownClosesAll` |
| `SandboxLifecycle_modes` | `MCSandboxModes` | many: 2 sandboxes, room for 1, 3 requests, 1 fault or abandoned operation, idle and orphan sweeps; one: 1 kept sandbox, 5 requests, 3 abandoned operations, idle sweep and reconciliation; kernels: 3 requests, 2 kernels started, 1 fault or disconnect; shells: 2 readers, 4 requests, 2 commands of which the first prints up to 3 chunks and is cut at 3, answers of at most 2 chunks, 1 ended session kept | `ModesTypes`, `RunningIsBound`, `CapacityOfMany`, `OneKeepsBox`, `PoolHasEveryKernel`, `ReaderKeepsClient`; `OutputGivenOnce` |
| `SandboxLifecycle_live` | `MCSandboxLive` | 1 sandbox, all sweeps, stale objects, 1 fault, 1 abandoned operation, fair; 3 requests for 1 kernel, fair | `StaleStartsHeal`, `UnboundBoxesReaped`, `TakesOver` |
| `SandboxLifecycle_stale` | `MCSandboxLifecycle` | 2 sandboxes, room for 1 | **violated**: `RunningBounded` |
| `SandboxLifecycle_orphan` | `MCSandboxLifecycle` | 1 sandbox, 1 request, orphan sweep | **violated**: `SweepSparesRunning` |
| `Conversations` | `MCConversations` | chat: 2 messages, 4 batches, 1 upset, all thresholds at 2 or 3; presentation: 3 inner runs (repeated ones included) of 3 messages, 2 submits, 1 stop, 1 fault (a restart, a failed run, read or deletion, a lost cache entry); research: 2 queries, 4 pages, 2 sources, 1 revision, 2 researches on one thread or two | `ConversationTypes`, `ModelSeesAnsweredCalls`, `RefusedStayUnrun`, `OneKernel`, `ChatTurnEnds`; `ShownInOrder`, `AnswersMatch`, `ActivityIsOfTheTurn`, `TurnSettles`; `CitationsKeepTheirPage`, `ResearchEnds` |
| `KernelPool_abandoned` | `KernelPool` | 1 request, a looping cell, a disconnect | **violated**: `AbandonedCellsEnd` |
| `Presentation_done` | `ExperimentalTurn` | 1 message, no stop, no fault | **violated**: `DoneMeansShown` |

Why the bounds suffice: each hazard needs at most two or three actors in
conflict over one resource plus one disturbance (crash, edit, cancellation,
fault, stop), and every run has these. Two rows matter only for the claim limit
and order; two sandboxes only for the capacity; two configurations only for
freshness; a third request for a kernel only as the one that waits behind a
take-over; a second message of the chat only for the repair of what the first
left, a second research only for the state it inherits. A bucket of two calls a
period is the smallest whose half-filled state differs from both ends. An inner run
may ask or call a tool while it has room for the answer and a text after it, and no
node is restarted that would have no inner run left to create. `Conversations` has
1.4 million distinct states, `SandboxLifecycle_modes` 1.2 million,
`SandboxLifecycle_live` 124 thousand. Deadlock
checking is off everywhere because the bounds on users, crashes and the clock
let the models stop. Every property of a passing run has a mutant, a plausible
slip in the code's place, that breaks it.

What passing runs do not say.

- `CapacityOfMany` is checked where every operation reads the row anew
  (`CacheMiss = FALSE`) and without the reconciler, so that no row is revived from a
  stale object there; where one is, the limit fails, which is what
  `SandboxLifecycle_stale` shows. `LimitIsKept` (section 7) is about all settings.
- `RunningIsBound` is checked with `Preserve`, fresh objects, and no fault of Docker
  where the reconciler runs: `_recreate_unlocked` clears the id of a container it
  failed to remove, which the reconciler may find up and commit as RUNNING. Without
  `not_remove`, a late `set_stopped` of the orphan sweeper can clear the id of a
  row that runs again, and the reconciler can commit RUNNING over a row whose id
  is gone; `RunningRowsAreBound` states exactly when neither can happen.
- `OneKeepsBox` assumes Docker does not fail: a reused container that is not
  ready is replaced.
- `PersistedResultNotRecomputed` is checked with one process; a second process
  that starts resets rows the first one executes.
- `RateWithinLimit` watches a user's own bucket until the first edit of the
  limit; the bucket of all users is watched for ever.
- `RefusedStayUnrun` exempts calls whose refusal was made void by switching
  autonomy on, `OneKernel` threads in which a python call raised or was cut
  short: there the code does otherwise (section 5).
- `AnswersMatch` exempts the second answer of an `interrupt_node` that ran again
  after `runs.create` (`Repeated`), which may meet the next question; the first one
  is not exempt, nor is what the user is asked.
- `ActivityIsOfTheTurn` exempts turns that began while an inner run was under way,
  and those whose boundary is 0 because it could not be read or has left the cache
  (`~activity.clean`): their log lists calls of other turns.
- `TakesOver` is about cells that are not waiting for input.
- `OutputGivenOnce` speaks of sessions `_gc` has not collected (a reader that was
  waiting then gets nothing), and of repetition only where no two requests read
  a session at once and its log was not cut.

## 5. Divergences between code and documentation

The five runs marked **violated** each show one, quoted in `PROJECT.json`:

- `reset_stale_running` resets rows another live process is executing
  (`ScheduledTasks_oneworker`).
- An ensure operation with a stale STARTING object reserves no capacity, because
  setting the status it already has emits no UPDATE (`SandboxLifecycle_stale`).
- The orphan sweeper removes a container that was created after it read the rows
  and bound before it took the lock (`SandboxLifecycle_orphan`).
- A turn of the presentation graph is settled on a snapshot older than the
  status that settles it, so its last answer can stay unshown
  (`Presentation_done`).
- A client that leaves during a silent endless cell is never noticed
  (`KernelPool_abandoned`).

Others were met while modelling and have no run of their own; models and
properties are stated so that they allow for them.

**Scheduled tasks.** `_finalize` overwrites a cancellation or a reschedule that
came during the execution; a text edited after an interrupted delivery delivers
the old text's result (`scheduled/runner.py`). A row disabled between SELECT and
UPDATE of `claim_due` is claimed.

**MCP pool** (`modules/mcp/pool.py`). A cancelled request returns a worker whose
operation still runs (375), against "one in-flight operation per warm session"
(15). An invalidation sends a request the worker's own `CancelledError`; a
listing obtained before an invalidation is cached after it; a second request at
a limit of one opens a one-shot session beside the warm one; a worker that
`shutdown` cancels before its first step never answers, nor does its request
hear of it before its time-out.

**Sandbox lifecycle** (`sandbox/manager/lifecycle_service.py`). The reconciler
decides on the object its own query loaded; a failed stop is taken for a stop when
the probe fails as well (300-317), and a container that could not be removed
loses its row's id (233-252); a sandbox used after its selection
as idle is stopped; a row left in STOPPING is looked at by no sweeper and
counted by no capacity check.

**Kernels of the image** (`sandbox/server/`). A cell that waits for `input()`
holds the lock, and a take-over waits with it; `restart` waits for ever behind
an endless cell, `delete` behind one that ignores SIGINT; of two requests that
displace a stubborn cell the second queues behind the first; a restart of an
evicted kernel revives a process the manager no longer knows; the interrupt
after a disconnect may hit the next request's cell, and its stop_on_error drops
cells queued behind it; a cancelled `create` leaves a kernel. A background job of
a shell command outlives its size guard; the idle watchdog counts a long cell as
idleness.

**Agent.** `process_tool_result` builds every tool message anew without its
status, so the detector of error streaks sees only errors raised by the
wrapper. The computed `tool_choice` is not passed to `bind_tools`.
`destructive.py:3-6` promises a confirmation that `ToolResultMiddleware` does
not ask for. Switching autonomy on while an approval is pending makes the
user's rejection void. Of a batch with front-end and server tools the latter run
without approval once the client has returned. An answer to `ask_questions` runs
its sibling calls again. The kernel's id is lost when the last python call of a
batch raises or the node is cut short. A `multi_tool_use` call without calls ends
the run in silence. The metadata cache of threads (`utils/thread_metadata.py`)
can keep a value read before a write.

**Presentation graph** (`agents/experimental/graph.py`). A stop between
`runs.create` and the node's return leaves an inner run nobody watches. A restart
there creates a second one: the user's message is put twice (821-874), or the answer
is sent twice (1057-1071), and the second answer meets whatever the first one's run
asks next. The boundary of a turn's activity is 0 when `get_state` failed (817-820),
when its cache entry is over, and when `pump` runs again after it forgot the log and
before it committed (997-1005): the log then lists the calls of the whole thread. A
new kickoff does not reset `interrupt_value`.

**Deep research** (`modules/deep_research/`). A failed upload on a continued
thread returns the old report as ready (`graph.py:127-141`), and so does a run
whose stream reports an error; `revision_count` is never reset, so a continued
thread is not revised; `compose.py:76-77` says a fallback draft is final, but the
edge to `critique` is unconditional; `searched_queries` and `max_sources` count
all researches of a thread, so a continued one may search nothing.

**Rate limiter** (`core/rate_limit.py`). A call that has seen both limits locks
the bucket of all users, one that has seen only the user's locks that; after an
edit both kinds of calls read and write the user's bucket at once, against
"serialized" (5-12). A limit read before an edit and cached after its
invalidation stays for five minutes. A single call may starve while others pass.

**Local Jupyter** (`sandbox/local_jupyter/manager.py`). The error path of a
failed start calls `stop_pid`, which awaits the lock its caller holds, until the
lifecycle time-out (108-131, 321-334). When `_get_active_handle`'s probes fail
and the probe of `_cleanup_stale_state_unlocked` succeeds, a second server is
started beside the adopted one, against "singleton". A death between Popen and
registration leaves an unregistered server; the kernel limit is checked before
the kernel is created; two agent processes write one `server.json`; `stop` of a
server that does not answer its probe forgets it without ending it.

**Process supervisor** (`core/process_supervisor.py`). `list_processes` reads and
writes the registry in two critical sections; two processes may both judge one
lock file stale.

**Memory** (`memory/`). Two indexers share no lock, so points may be doubled,
stale or missing while the row says indexed; a file deleted while it is indexed
leaves points that the search returns, against "harmless" (`service.py:250-252`);
an embedding change is skipped while the migration lock is held
(`events.py:110-123`).

**Telegram** (`channels/telegram/`). A button carries only its index, so a press
under an old prompt answers the newer one; labels are numbered over all buttons
but resolved over the non-empty ones; the check for an active run is apart from
the start of one; after ten prompts answered automatically the eleventh stays
unsent.

## 6. Fairness

- Scheduled tasks: the event loop resumes runnable coroutines and a graph run
  ends by `run_timeout`, so sweeper and runner steps are weakly fair; the lock
  has a TTL; a process that died is started again (container restart policy).
  Users, crashes and the clock are not fair.
- MCP pool: worker and request steps are weakly fair for the same reason;
  transports answer, fail or are cut off by the operation's time-out. The
  time-out itself is not assumed in `OperationsAnswered`.
- Sandboxes: an operation that holds the lock goes on or is abandoned; sweepers
  run every interval, so selecting a row that stays, or again and again
  becomes, selectable is strongly fair; time passes (`GetsIdle`, `Ages`). Users
  and faults are not fair, and both are bounded.
- Kernels: only the server's own steps are fair, all requests' together; nothing
  is assumed of clients or of cells. `TakesOver` rests on `ChannelsTear`: that a
  restart of the kernel breaks the channels of whoever reads the old one, which
  is what `kernels.py:281` says; without it the displaced reader would wait for
  ever for an idle status that does not come.
- Chat: the steps of a graph run are weakly fair (`GraphStep`); messages,
  answers, retries and stops of the user are not, nor is a failure of the model.
- Presentation: outer and inner runs are weakly fair, each as a whole, since the
  LangGraph server runs them apart.
- Research: the graph's steps as a whole are weakly fair.
- Rate limits: every call's steps are weakly fair by themselves, locks of the
  dead expire, time passes. `NobodyWaitsInVain` is not that every call passes:
  the code does not promise it.

In composite models each is conditional on its own part.

## 7. Proofs

Every theorem holds for all values of the constants that satisfy the module's
named assumption: any numbers of processes, rows, workers, containers, kernels,
users, any limits, any bounds on faults and requests. Theorems with a condition
say so. Each component has an inductive invariant; a theorem about a
property is `Init => Inv`, `Inv /\ [Next]_vars => Inv'` (one lemma per action or
per kind of step) and `Inv => property`. The invariants were checked by TLC on
the instances of section 4 before they were proved.

**`ScheduledTasksProofs`.** `TypeCorrect`, and with it:

- `RunningRowsHaveOwners` (`RunningHasOwner`) is inductive only with `Owns`,
  which also tells that a row in a batch is held by a process that is up. The
  interesting steps are `Start` (resets every running row), `Crash` (the row's
  owner goes down, so it has a process that will reset it) and `Finalize` (an
  execution leaves only a row it has just moved out of `running`, or one that
  another process still holds).
- `ClaimsAreExclusive` (`ClaimHandedOnce`): `ClaimsMade` bounds every
  execution's claim number by `claims[t]`; `Claim` hands out a number above all
  of them because the conditional UPDATE matches only `pending` rows.
- `ResultsAreKept`, `ResultsNotRecomputed`, `CancelsHold` are action properties.
  They rest on `ExecsLoaded`: an execution that runs the graph has loaded a row
  without a result, so only a row that had none can be written by it.
  `ResultsNotRecomputed` assumes one process (section 5: with two it is false).

**`RateLimiterProofs`.** `LimiterTypes`: what a call leaves in a bucket and the
time it sleeps never go below zero. `RateIsKept` (`RateWithinLimit`): the bound
on `load` alone is not inductive, since what passed may be written back by a
call that has read the bucket and not yet written it. `LimiterInv` adds, for
each watched bucket, that load and level together fit into its capacity
(`Covered`) and that this holds of every call inside the lock with what it will
write and what it is about to pay (`Booked`); that a call inside holds the lock
of its first bucket (`LocksHeld`); that before the first edit all calls have
seen the same limit (`LimitSeen`); and that what a call has yet to write is its
own (`LeftAreOwn`). `InsideAlone` concludes that no two calls are inside with the
same watched bucket. `LocksComeFree` is the safety half of `NobodyWaitsInVain`: a
held lock has a holder that can leave it (`CanLeave`: it writes, passes, or knows
the bucket it will sleep for, since a refused call lacks a price in one,
`RefusedLacks`) or one that is gone and leaves it to the lock's expiry.
`SleepsAreExact` is about the formula of `wait`: when the sleep is over every
bucket of the call would have a price if nobody else took it, and a tick earlier
one would not (`WaitIsExact`, for all rates and periods).

**`McpPoolProofs`.** `PoolTypes`, `CountersAreExact`, `CheckoutIsExclusive`,
`LeasesAreFresh`. `PoolInv` joins the four with three facts: an identity without
a task is in no deque and no request's hands (`FreeIsGone`), what a request has
leased is a worker (`HeldIsWorker`), and a counted worker was spawned after the
last invalidation of its server, while nobody resolved its server later than now
(`Epochs`). That `max(0, ..)` of `_uncount_locked` never acts is part of
`CountersExact`: the counters are cardinalities of sets of live workers. What
`acquire` does to a deque is described by `Thinner` (entries go, none comes or
moves between deques). `PoolKeepsPromise` is the refinement: every step of the
pool is a step of `SessionPool` under the mapping of `Promise`, or leaves it
alone.

Three more theorems say of the workers what their liveness rests on. `OperationsInv`
relates a request that waits to the worker it holds: its operation is the current
one or in the inbox once, nobody else waits there (`OwnAt`), and the worker goes
on, or is out of the pool, or the pool shuts down (`OperationsAreServed`). With it
an answer, a failure or a cancellation of an operation is set only at the request
that awaits it (`AnswersReachWhoAsked`), although a session is handed on while the
operation of a cancelled request is still under way in it. `SessionsAreToldToEnd`
(`EndsAreTold`): a worker that was skipped, killed, invalidated or idle for too
long, and every worker once the pool shuts down, has a cancellation or a shutdown on
its way to it, or is closing its session, as long as its task lives; that a request
that goes away leaves the shutdown behind its operation where it is needs that the
sentinel is no request (`PoolAssumption`).

**`SandboxLifecycleProofs`.** `SandboxTypes` holds whatever the settings and
includes that exactly the operations inside a sandbox's lifecycle lock hold it.
`RunningRowsAreBound` (`RunningIsBound`) and `BoxesAreKept` (`StoppedKeepsBox`)
hold under the settings they name; TLC finds counterexamples when a setting is
dropped. `LimitIsKept` (`CapacityRespected`) names no setting: sessions may hold
stale objects, all sweeps may run, Docker may fail. Its hypothesis is about steps:
none is a `StaleRevival`, an operation that has held the row's object since before
the lock and commits RUNNING over a row that is not active any more, which is what
`SandboxLifecycle_stale` shows. So that is the only way past the limit: every
other step makes a row active where `Reserve` counted room, or leaves it as active
as it was (`Admits`). With `CacheMiss = FALSE` and without the reconciler, as in
the runs of `CapacityOfMany`, no operation holds an object and no step is one.
`LifecycleInv` says what the object in an operation's hands is worth: from its
first commit under the lock on it is the row (`FreshOK`), and whatever names a
container for a sandbox names one of that sandbox (`OwnedOK`). For rows that keep
their ids it adds that a start took over the row's container if there was one
(`ReusesOK`), hence the container a reconciling sweep has seen is the row's or is
gone (`StaleOK`); under a docker network, that a name has one container
(`OneBox`). Steps are proved by their kind: of an operation that ends, goes on,
gets a container, begins or plans (`OperationEnds`, `MoveStep`, `GotStep`,
`BeginKeeps`), all from `LockedStep`, that a step under the lock of one sandbox
disturbs nobody else.

**`ConversationProofs`.** Of the research: `ResearchTypes` and `CitationsAreStable`
(`CitationsKeepTheirPage`): `ResearchInv` says that the ids of the sources are
1..n, that searches under way go on where they end (`Numbered`) and that no page
has two (`PagesOnce`). `ResearchTakesBoundedSteps` is the safety half of
`ResearchEnds`: `StepsLeft` counts what rounds, sources and revisions are left to a
research; it is a natural number, zero exactly when none is under way, every step of
a research lowers it, whatever the model answers, and a call begins with at most
`2 * MaxRevisions + MaxSources + 4 * RoundsAtFirst + 10`. That something that goes
down in the naturals ends is left to the reader and to TLC, since it needs fairness.

Of the three kinds of threads together: `ConversationsAreOfTheGraphs` shows that
what `MCConversations` lets happen is a behaviour of each graph's specification, so
that `ConversationsTyped` (`ConversationTypes`) and `ConversationsKeepPromises`
follow from the theorems of the parts.

**`ExperimentalTurnProofs`.** `TurnTypes`, `MessagesShownInOrder`
(`ShownInOrder`), `AnswersReachQuestions` (`AnswersMatch`), `LogIsOfTheTurn`
(`ActivityIsOfTheTurn`). `TurnInv` places the outer node with respect to the
inner runs (`NodeIsPlaced`), the cursor with respect to what was shown
(`CursorInOrder`), runs in the order of their turns (`RunsInOrder`), and keeps
that what is written beyond a boundary kickoff could read, and what may still be, is
of one turn (`Boundary`). `AnswersMatch` needs that the pending question stays the
asked one until its first answer starts (`QuestionKept`), over repeated
`interrupt_node`s and runs queued behind others (`Answered`).

**`SandboxModesProofs`.** Of the shells: `ShellTypes` and `OutputReachesReaders`
(`OutputGivenOnce`), where the offset a reader starts from is still the delivered
one if it is alone (`ShellInv`). Of the kernels: `KernelTypesHold`,
`PoolForgetsNone` (`PoolHasEveryKernel`), `ReadersAreSafe`
(`ReaderKeepsClient`). `KernelInv` says who holds and who queues for an entry's
lock (`LocksExact`, `QueuesExact`), that one creation is under way
(`CreatesAlone`), that nobody pursues a kernel that is being started
(`StartsUnseen`) and that named kernels were started (`PlacesOK`). From it,
`LocksDoNotWait`: who holds the pool's lock or an entry's waits for neither, hence
requests wait for one another neither in a circle nor in a chain, and the first of
a queue waits for a holder or may go.

Of the modes of `MCSandboxModes`: `ModesAreOfTheParts` and `ModesKeepPromises` as
for the conversations. `LimitIsKeptByMany` (`CapacityOfMany`) is `LimitIsKept` of the
modes. `OneKeepsItsBox` (`OneKeepsBox`) needs the invariant of the manager under
settings that only one mode has. A mode that leaves sweeps and faults out is the
manager with other constants, so `SandboxLifecycleProofs` is instantiated with those
(`One`): a step of the mode is a step of the instance, and the instance's invariant is
the mode's. What is instantiated is proved for all constants, so nothing is proved
twice.

**`AgentTurnProofs`.** `ThreadTypes`, `ModelIsShownAnsweredCalls`
(`ModelSeesAnsweredCalls`), `RefusedCallsStayUnrun` (`RefusedStayUnrun`),
`ThreadHasOneKernel` (`OneKernel`). The argument has three layers:

- What the operators return: `FlattenPlaces` and `PlaceOf` say where every part
  of a flattened sequence is, `LastOfIs`, `BlockIs`, `ThoseIs`, `LastIdIs` what a
  selection or the greatest id is. `FlattenSeq` is a recursive function, so
  `FlattenJoins` proves by induction over the set of lengths that its values
  exist.
- What histories are like: in a `Shaped` one only AI messages have calls, of
  different ids, and every result answers a call of a message from which on
  there are only results, no two the same call. `RepairKeeps`: the repair of a
  shaped history that ends with a message of the user has every call answered,
  and loses no message. `ResultsJoin`: results to the calls the last AI message
  has open leave the history shaped. `CollapsedIsPaired` and `ThinksArePaired`:
  the two collapses make of an answered history one the API accepts.
- The invariant `ThreadInv`: where the run is tells the history's shape
  (`Placed`: all answered at the model, only the last AI message open at
  after_model and in the tools node); the tools node works on the open calls
  (`WorkIs`), which makes the results it commits answer them and nothing else;
  calls get ids above all earlier ones, so what was refused once is not asked
  for again (`LogOK`); and the one kernel is named by the thread, by the chain of
  the node or not needed yet (`KernelOK`), so that a python call without a
  kernel is the first. One lemma per action; `GoesKeeps` is shared by the ways
  out of after_model.

Assumptions: `AgentTurnAssumption`, `ConstantsAssumption`, `RateAssumption`, `PoolAssumption`,
`LifecycleAssumption`, `ResearchAssumption`, `ExperimentalAssumption`,
`KernelPoolAssumption`, `ShellAssumption`. They say that bounds are numbers, that
sets the code never has empty are not, that sandboxes and containers are finite,
and that special values are outside the sets they are special to; TLC evaluates
them in the runs of their modules.

The safety properties of the passing runs, invariants and action properties, are
all stated by theorems. Some of these have a condition on the constants, which their
runs meet: `ResultsNotRecomputed` (one process) and those of
`SandboxLifecycleProofs` above; `LimitIsKeptByMany` has one on steps
(`~StaleRevival`), which all steps of its run meet in the mode it is about.

Only model-checked are the twelve liveness properties (`RunningEnds`,
`DueIsClaimed`, `NobodyWaitsInVain`, `OperationsAnswered`, `DroppedSessionsClose`,
`ShutdownClosesAll`, `StaleStartsHeal`, `UnboundBoxesReaped`, `TakesOver`,
`ChatTurnEnds`, `TurnSettles`, `ResearchEnds`): they need fairness and ENABLED. Of
`OperationsAnswered`, `DroppedSessionsClose`, `ShutdownClosesAll`, `ResearchEnds`
and `NobodyWaitsInVain` the safety half is proved: that nobody is left where no
step would ever help him, or that what is left to do goes down.

## 8. Not modelled

The components in the second part of section 1. Of the modelled ones: contents
of prompts, messages, reports and files; SQL isolation below the level of a
statement; failures of the database and of the cache other than expiry; clock
skew between processes.
