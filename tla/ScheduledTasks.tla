--------------------------- MODULE ScheduledTasks ---------------------------
(***************************************************************************)
(* Scheduled tasks: rows of core_scheduled_tasks, the background sweeper   *)
(* that claims due rows (scheduled/scheduler.py), the runner that executes *)
(* a claimed row and delivers its result (scheduled/runner.py), and the    *)
(* REST / chat operations that edit rows while all of this goes on.        *)
(*                                                                         *)
(* Several server processes share the database.  Everything a process      *)
(* holds (its batch, the ORM copy of a row it works on) is lost when it    *)
(* crashes; rows survive.                                                  *)
(***************************************************************************)
EXTENDS Integers, FiniteSets

CONSTANTS
    Proc,          \* server processes, each with one sweeper
    Task,          \* identities of task rows (uuids, never reused)
    Prompt,        \* prompt texts
    Target,        \* recipients a result can be delivered to
    Cron,          \* cron expressions, abstracted to their period
    NoResult,      \* last_result IS NULL
    Nobody,        \* the sweeper lock is free
    ClaimLimit,    \* claim_due(limit=...)
    MaxConcurrent, \* GIGA_AGENT_SCHEDULER_MAX_CONCURRENT_RUNS
    LockExpires,   \* may the lock's TTL run out under a live holder?
    UserOps,       \* which of the user's operations this instance has
    MaxTime,       \* bound on the clock
    MaxUserOps,    \* bound on user operations after creation
    MaxCrashes     \* bound on crashes

NoCron == 0

ASSUME ConstantsAssumption ==
    /\ Prompt # {}
    /\ Cron \subseteq Nat \ {0}
    /\ NoResult \notin Prompt
    /\ Nobody \notin Proc
    /\ ClaimLimit \in Nat \ {0}
    /\ MaxConcurrent \in Nat \ {0}
    /\ LockExpires \in BOOLEAN
    /\ UserOps \subseteq {"edit", "patch", "cancel", "delete"}
    /\ MaxTime \in Nat
    /\ MaxUserOps \in Nat
    /\ MaxCrashes \in Nat

VARIABLES
    now,      \* wall clock
    stage,    \* stage[t]: has row t been created, deleted?
    row,      \* row[t]: the committed row of a live task
    up,       \* up[p]: is process p running?
    lock,     \* holder of the cashews lock
    cand,     \* cand[p]: candidate ids p's open claim_due has selected
    exec,     \* exec[p][t]: p's execution of task t
    claims,   \* claims[t]: how often row t moved from pending to running
    ops,      \* user operations so far
    crashes   \* crashes so far

vars == <<now, stage, row, up, lock, cand, exec, claims, ops, crashes>>

-----------------------------------------------------------------------------
(* Rows *)

Terminal == {"done", "done_no_delivery", "partially_failed", "failed", "cancelled"}
Status == {"pending", "running"} \cup Terminal

Row == [prompt  : Prompt,
        cron    : Cron \cup {NoCron},    \* kind = "cron" iff not NoCron
        runAt   : Nat,
        status  : Status,
        enabled : BOOLEAN,
        result  : Prompt \cup {NoResult}] \* the prompt it was computed from

BlankRow == [prompt |-> CHOOSE p \in Prompt : TRUE, cron |-> NoCron, runAt |-> 0,
             status |-> "pending", enabled |-> FALSE, result |-> NoResult]

Live(t) == stage[t] = "live"
Is(t, st) == Live(t) /\ row[t].status = st

\* The next fire time strictly after a moment.
NextRun(c, after) == c * (after \div c + 1)

\* What _resolve_schedule and parse_when return: cron, or a date in the future.
Schedules == {[cron |-> c, runAt |-> NextRun(c, now)] : c \in Cron}
             \cup {[cron |-> NoCron, runAt |-> r] : r \in (now + 1) .. MaxTime}

\* Where claim_due looks for candidates.
Due(t) == Is(t, "pending") /\ row[t].enabled /\ row[t].runAt <= now
DueTasks_StrictlyPast == {t \in Task : Due(t) /\ row[t].runAt < now}
DueTasks == {t \in Task : Due(t)}

-----------------------------------------------------------------------------
(* Executions *)

Exec == [phase   : {"none", "waiting", "graph", "deliver"},
         mem     : Row,                        \* the ORM object, as last loaded
         parts   : Prompt \cup {NoResult},     \* result (to be) delivered
         todo    : SUBSET Target,              \* targets still to be tried
         outcome : {"done", "done_no_delivery", "partially_failed"},
         claim   : Nat]                        \* which claim handed it out

NoExec == [phase |-> "none", mem |-> BlankRow, parts |-> NoResult,
           todo |-> {}, outcome |-> "done", claim |-> 0]

Busy(p) == \E t \in Task : exec[p][t].phase # "none"
Active(p) == {t \in Task : exec[p][t].phase \in {"graph", "deliver"}}

Init ==
    /\ now = 0
    /\ stage = [t \in Task |-> "unborn"]
    /\ row = [t \in Task |-> BlankRow]
    /\ up = [p \in Proc |-> FALSE]
    /\ lock = Nobody
    /\ cand = [p \in Proc |-> {}]
    /\ exec = [p \in Proc |-> [t \in Task |-> NoExec]]
    /\ claims = [t \in Task |-> 0]
    /\ ops = 0
    /\ crashes = 0

Tick ==
    /\ now < MaxTime
    /\ now' = now + 1
    /\ UNCHANGED <<stage, row, up, lock, cand, exec, claims, ops, crashes>>

-----------------------------------------------------------------------------
(* The user: REST API and chat tools *)

sweeperVars == <<now, up, lock, cand, exec, claims, crashes>>

UserOp(op) ==
    /\ op \in UserOps
    /\ ops < MaxUserOps
    /\ ops' = ops + 1
    /\ UNCHANGED sweeperVars

Create(t) ==
    /\ stage[t] = "unborn"
    /\ stage' = [stage EXCEPT ![t] = "live"]
    /\ \E p \in Prompt, s \in Schedules, e \in BOOLEAN :
          row' = [row EXCEPT ![t] = [prompt |-> p, cron |-> s.cron, runAt |-> s.runAt,
                                     status |-> "pending", enabled |-> e,
                                     result |-> NoResult]]
    /\ UNCHANGED ops
    /\ UNCHANGED sweeperVars

\* edit_scheduled_task: a new text, a new time, or both.
Retext(r, p) == [r EXCEPT !.prompt = p]
Reschedule(r, s) == [r EXCEPT !.cron = s.cron, !.runAt = s.runAt,
                              !.status = "pending", !.enabled = TRUE]

Edit(t) ==
    /\ Live(t)
    /\ UserOp("edit")
    /\ \E p \in Prompt :
          \/ row' = [row EXCEPT ![t] = Retext(@, p)]
          \/ \E s \in Schedules : row' = [row EXCEPT ![t] = Reschedule(Retext(@, p), s)]
    /\ UNCHANGED stage

\* PATCH /tasks/{id}: text, enabled flag and schedule, but never the status.
Patch(t) ==
    /\ Live(t)
    /\ UserOp("patch")
    /\ \E p \in Prompt, e \in BOOLEAN,
          s \in Schedules \cup {[cron |-> row[t].cron, runAt |-> row[t].runAt]} :
          row' = [row EXCEPT ![t].prompt = p, ![t].enabled = e,
                             ![t].cron = s.cron, ![t].runAt = s.runAt]
    /\ UNCHANGED stage

Cancel(t) ==
    /\ Live(t)
    /\ UserOp("cancel")
    /\ row' = [row EXCEPT ![t].status = "cancelled", ![t].enabled = FALSE]
    /\ UNCHANGED stage

Delete(t) ==
    /\ Live(t)
    /\ UserOp("delete")
    /\ stage' = [stage EXCEPT ![t] = "deleted"]
    /\ row' = [row EXCEPT ![t] = BlankRow]

User(t) == Create(t) \/ Edit(t) \/ Patch(t) \/ Cancel(t) \/ Delete(t)

-----------------------------------------------------------------------------
(* The sweeper: one tick claims a batch, then waits for the whole batch *)

\* cache.lock(wait=False), then the SELECT of claim_due: the oldest due rows.
LockAndSelect(p) ==
    /\ up[p]
    /\ cand[p] = {}
    /\ ~Busy(p)
    /\ lock = Nobody
    /\ DueTasks # {}
    /\ \E C \in SUBSET DueTasks :
          /\ Cardinality(C) = IF Cardinality(DueTasks) < ClaimLimit
                              THEN Cardinality(DueTasks) ELSE ClaimLimit
          /\ \A a \in C, b \in DueTasks \ C : row[a].runAt <= row[b].runAt
          /\ cand' = [cand EXCEPT ![p] = C]
    /\ lock' = p
    /\ UNCHANGED <<now, stage, row, up, exec, claims, ops, crashes>>

\* UPDATE ... WHERE id = :id AND status = 'pending'
Claimable_AnyStatus(t) == Live(t)
Claimable(t) == Is(t, "pending")

Waiting(t, n) == [NoExec EXCEPT !.phase = "waiting", !.claim = n]

\* The conditional UPDATEs, their commit and the release of the lock.  The rows
\* are locked from their UPDATE to the commit, so the claim is one step.
Claim(p) ==
    LET taken == {t \in cand[p] : Claimable(t)}
        number(t) == IF Is(t, "pending") THEN claims[t] + 1 ELSE claims[t]
    IN  /\ cand[p] # {}
        /\ row' = [t \in Task |-> IF t \in taken
                                  THEN [row[t] EXCEPT !.status = "running"] ELSE row[t]]
        /\ claims' = [t \in Task |-> IF t \in taken THEN number(t) ELSE claims[t]]
        /\ exec' = [exec EXCEPT ![p] = [t \in Task |->
                        IF t \in taken THEN Waiting(t, number(t)) ELSE exec[p][t]]]
        /\ cand' = [cand EXCEPT ![p] = {}]
        /\ lock' = IF lock = p THEN Nobody ELSE lock
        /\ UNCHANGED <<now, stage, up, ops, crashes>>

\* The lock's TTL: always frees a lock nobody is under, and with LockExpires
\* also one whose holder is still in claim_due.
ExpireLock ==
    /\ lock # Nobody
    /\ LockExpires \/ cand[lock] = {}
    /\ lock' = Nobody
    /\ UNCHANGED <<now, stage, row, up, cand, exec, claims, ops, crashes>>

-----------------------------------------------------------------------------
(* The runner: execute_due_task *)

runnerFrame == <<now, stage, up, lock, cand, claims, ops, crashes>>

Become(p, t, e) == exec' = [exec EXCEPT ![p][t] = e]

\* Set attributes of the ORM object and commit: only attributes that differ from
\* what was loaded are written, everything else keeps what the table has.
Finalized_BlindWrite(m, r, st) ==
    [r EXCEPT !.status = IF m.cron # NoCron THEN "pending" ELSE st,
              !.runAt = IF m.cron # NoCron THEN NextRun(m.cron, now) ELSE @,
              !.result = NoResult]
Finalized(m, r, st) ==
    LET status == IF m.cron # NoCron THEN "pending" ELSE st
        runAt == IF m.cron # NoCron THEN NextRun(m.cron, now) ELSE m.runAt
    IN  [r EXCEPT !.status = IF status = m.status THEN @ ELSE status,
                  !.runAt = IF runAt = m.runAt THEN @ ELSE runAt,
                  !.result = IF m.result = NoResult THEN @ ELSE NoResult]

\* _finalize and the end of the execution.  The UPDATE of a deleted row raises,
\* which ends the execution just the same.
Finalize(p, t, st) ==
    /\ row' = IF Live(t) THEN [row EXCEPT ![t] = Finalized(exec[p][t].mem, @, st)] ELSE row
    /\ Become(p, t, NoExec)

\* After a result exists: the targets are read, explicit ones or the defaults.
ReadyToDeliver(e, parts, S) ==
    [e EXCEPT !.phase = "deliver", !.parts = parts, !.todo = S,
              !.outcome = IF S = {} THEN "done_no_delivery" ELSE "done"]

NeedsGraph_Always(r) == TRUE
NeedsGraph(r) == r.result = NoResult

\* The semaphore is acquired and the row is loaded, whatever its status is now.
Begin(p, t) ==
    /\ exec[p][t].phase = "waiting"
    /\ Cardinality(Active(p)) < MaxConcurrent
    /\ LET e == [exec[p][t] EXCEPT !.mem = row[t]]
       IN  \/ /\ ~Live(t)
              /\ Become(p, t, NoExec)
           \/ /\ Live(t)
              /\ NeedsGraph(row[t])
              /\ Become(p, t, [e EXCEPT !.phase = "graph", !.parts = row[t].prompt])
           \/ /\ Live(t)
              /\ ~NeedsGraph(row[t])
              /\ \E S \in SUBSET Target :
                    Become(p, t, ReadyToDeliver(e, row[t].result, S))
    /\ UNCHANGED row
    /\ UNCHANGED runnerFrame

\* No token for the owner (the user is gone): failed before anything ran.
NoToken(p, t) ==
    /\ exec[p][t].phase = "waiting"
    /\ Cardinality(Active(p)) < MaxConcurrent
    /\ row' = IF Live(t) THEN [row EXCEPT ![t] = Finalized(@, @, "failed")] ELSE row
    /\ Become(p, t, NoExec)
    /\ UNCHANGED runnerFrame

\* save_result: the result is committed and the ORM object reloaded.
GraphDone(p, t) ==
    /\ exec[p][t].phase = "graph"
    /\ IF Live(t)
       THEN LET saved == [row[t] EXCEPT !.result = exec[p][t].parts]
            IN  /\ row' = [row EXCEPT ![t] = saved]
                /\ \E S \in SUBSET Target :
                      Become(p, t, ReadyToDeliver([exec[p][t] EXCEPT !.mem = saved],
                                                  exec[p][t].parts, S))
       ELSE /\ Become(p, t, NoExec)
            /\ UNCHANGED row
    /\ UNCHANGED runnerFrame

\* The graph raised, or run_timeout passed.
GraphFails(p, t) ==
    /\ exec[p][t].phase = "graph"
    /\ Finalize(p, t, "failed")
    /\ UNCHANGED runnerFrame

Deliver(p, t) ==
    /\ exec[p][t].phase = "deliver"
    /\ \E g \in exec[p][t].todo, ok \in BOOLEAN :
          Become(p, t, [exec[p][t] EXCEPT
                          !.todo = @ \ {g},
                          !.outcome = IF ok THEN @ ELSE "partially_failed"])
    /\ UNCHANGED row
    /\ UNCHANGED runnerFrame

Finish(p, t) ==
    /\ exec[p][t].phase = "deliver"
    /\ exec[p][t].todo = {}
    /\ Finalize(p, t, exec[p][t].outcome)
    /\ UNCHANGED runnerFrame

Run(p, t) == \/ Begin(p, t) \/ NoToken(p, t) \/ GraphDone(p, t) \/ GraphFails(p, t)
             \/ Deliver(p, t) \/ Finish(p, t)

-----------------------------------------------------------------------------
(* Processes *)

AfterReset_KeepsRunning(r) == r
AfterReset_UnknownStatus(r) == [r EXCEPT !.status = IF @ = "running" THEN "stale" ELSE @]
AfterReset(r) == [r EXCEPT !.status = IF @ = "running" THEN "pending" ELSE @]

\* Startup: reset_stale runs over the whole table, then the sweeper starts.
Start(p) ==
    /\ ~up[p]
    /\ up' = [up EXCEPT ![p] = TRUE]
    /\ row' = [t \in Task |-> IF Live(t) THEN AfterReset(row[t]) ELSE row[t]]
    /\ UNCHANGED <<now, stage, lock, cand, exec, claims, ops, crashes>>

\* A crash, or a shutdown that cancels the sweeper: an open claim is rolled back.
Crash(p) ==
    /\ up[p]
    /\ crashes < MaxCrashes
    /\ crashes' = crashes + 1
    /\ up' = [up EXCEPT ![p] = FALSE]
    /\ cand' = [cand EXCEPT ![p] = {}]
    /\ exec' = [exec EXCEPT ![p] = [t \in Task |-> NoExec]]
    /\ UNCHANGED <<now, stage, row, lock, claims, ops>>

Sweep(p) == LockAndSelect(p) \/ Claim(p) \/ \E t \in Task : Run(p, t)

Next ==
    \/ Tick
    \/ ExpireLock
    \/ \E t \in Task : User(t)
    \/ \E p \in Proc : Start(p) \/ Crash(p) \/ Sweep(p)

\* The event loop resumes every runnable coroutine, a run ends by run_timeout at
\* the latest, the lock has a TTL, and a process that died is started again.
Fairness ==
    /\ WF_vars(ExpireLock)
    /\ \A p \in Proc :
          /\ WF_vars(Start(p))
          /\ WF_vars(LockAndSelect(p))
          /\ WF_vars(Claim(p))
          /\ \A t \in Task : WF_vars(Run(p, t))

Spec == Init /\ [][Next]_vars
FairSpec == Spec /\ Fairness

-----------------------------------------------------------------------------
(* Properties *)

\* Types of the rows, the processes' memory and the counters.
TypeOK ==
    /\ now \in Nat
    /\ stage \in [Task -> {"unborn", "live", "deleted"}]
    /\ row \in [Task -> Row]
    /\ up \in [Proc -> BOOLEAN]
    /\ lock \in Proc \cup {Nobody}
    /\ cand \in [Proc -> SUBSET Task]
    /\ exec \in [Proc -> [Task -> Exec]]
    /\ claims \in [Task -> Nat]
    /\ ops \in Nat
    /\ crashes \in Nat

\* claim_due hands every pending-to-running move of a row to one process only,
\* with or without the lock: two processes never execute the same claim.
ClaimHandedOnce ==
    \A t \in Task : \A p, q \in Proc :
        p # q /\ exec[p][t].phase # "none" /\ exec[q][t].phase # "none"
            => exec[p][t].claim # exec[q][t].claim

\* A row is never stuck in running: a process has it in its batch, or a process
\* is down and will reset it when it starts (reset_stale_running).
RunningHasOwner ==
    \A t \in Task : Is(t, "running") =>
        \E p \in Proc : ~up[p] \/ exec[p][t].phase # "none"

\* A result saved before a restart is delivered, not computed again: nobody runs
\* the graph of a row that has a last_result (execute_due_task's idempotency).
PersistedResultNotRecomputed ==
    \A p \in Proc, t \in Task :
        Live(t) /\ exec[p][t].phase = "graph" => row[t].result = NoResult

\* A saved result leaves the row only when an execution has tried every target,
\* had no token to deliver it with, or with the row: an execution whose graph
\* fails never drops what a concurrent execution has saved (execute_due_task).
ResultKeptUntilDelivered ==
    [][\A t \in Task :
          Live(t) /\ row[t].result # NoResult /\ row'[t].result = NoResult =>
             \/ stage'[t] # "live"
             \/ \E p \in Proc : /\ exec[p][t].phase \in {"waiting", "deliver"}
                                /\ exec[p][t].todo = {}
                                /\ exec'[p][t].phase = "none"]_vars

\* No two processes execute one row at the same time.
OneWorkerPerRow ==
    \A t \in Task : \A p, q \in Proc :
        exec[p][t].phase # "none" /\ exec[q][t].phase # "none" => p = q

\* A cancelled row that nobody has claimed stays cancelled, whatever was selected
\* before: only the user, or an execution that had begun, gives it another status.
CancelHolds ==
    [][\A t \in Task : Is(t, "cancelled") /\ row'[t].status # "cancelled" =>
          \/ stage'[t] # "live" \/ ops' = ops + 1
          \/ \E p \in Proc : exec[p][t].phase # "none"]_vars

\* A row left running by a crash, or executing, leaves that status in the end.
RunningEnds == \A t \in Task : Is(t, "running") ~> ~Is(t, "running")

\* A row that is due is claimed in the end, unless the user takes it away.
DueIsClaimed == \A t \in Task : Due(t) ~> ~Due(t)
=============================================================================
