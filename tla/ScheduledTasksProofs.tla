------------------------ MODULE ScheduledTasksProofs ------------------------
(***************************************************************************)
(* Proofs about ScheduledTasks for every number of processes, tasks,       *)
(* prompts and recipients and every bound.                                 *)
(***************************************************************************)
EXTENDS ScheduledTasks, TLAPS

-----------------------------------------------------------------------------
(* Values *)

\* compute_next_run returns a moment strictly after the one it is given.
LEMMA NextRunLater ==
    ASSUME NEW c \in Nat \ {0}, NEW n \in Nat
    PROVE  NextRun(c, n) \in Nat /\ NextRun(c, n) > n
BY SMT DEF NextRun

\* A row that was never written is a row.
LEMMA BlankRowType == BlankRow \in Row
BY ConstantsAssumption DEF BlankRow, Row, Status, NoCron

\* An executor without an execution has the type of one.
LEMMA NoExecType == NoExec \in Exec
BY BlankRowType DEF NoExec, Exec

\* Schedules hold well-typed schedules only.
LEMMA SchedulesType ==
    ASSUME now \in Nat, NEW s \in Schedules
    PROVE  s.cron \in Cron \cup {NoCron} /\ s.runAt \in Nat
<1>1. CASE \E c \in Cron : s = [cron |-> c, runAt |-> NextRun(c, now)]
  BY <1>1, NextRunLater, ConstantsAssumption
<1>2. CASE \E r \in (now + 1) .. MaxTime : s = [cron |-> NoCron, runAt |-> r]
  BY <1>2, ConstantsAssumption
<1>. QED  BY <1>1, <1>2 DEF Schedules

\* _finalize keeps rows well typed.
LEMMA FinalizedType ==
    ASSUME now \in Nat, NEW m \in Row, NEW r \in Row, NEW st \in Status
    PROVE  Finalized(m, r, st) \in Row
<1>1. m.cron # NoCron => NextRun(m.cron, now) \in Nat
  BY NextRunLater, ConstantsAssumption DEF Row
<1>. QED  BY <1>1 DEF Finalized, Row, Status

\* Resetting a row gives a row (reset_stale_running).
LEMMA AfterResetType ==
    ASSUME NEW r \in Row
    PROVE  AfterReset(r) \in Row
BY DEF AfterReset, Row, Status

\* A finished graph leaves an execution ready to deliver.
LEMMA ReadyToDeliverType ==
    ASSUME NEW e \in Exec, NEW parts \in Prompt \cup {NoResult}, NEW S \in SUBSET Target
    PROVE  ReadyToDeliver(e, parts, S) \in Exec
BY DEF ReadyToDeliver, Exec

-----------------------------------------------------------------------------
(* Types *)

\* What the runner's steps share: they change one row and one execution.
LEMMA RunnerType ==
    ASSUME TypeOK, NEW p \in Proc, NEW t \in Task, NEW r \in Row, NEW e \in Exec,
           row' = row \/ row' = [row EXCEPT ![t] = r],
           Become(p, t, e), UNCHANGED runnerFrame
    PROVE  TypeOK'
BY DEF TypeOK, Become, runnerFrame

\* _finalize writes a well-typed row.
LEMMA FinalizeType ==
    ASSUME TypeOK, NEW p \in Proc, NEW t \in Task, NEW st \in Status,
           Finalize(p, t, st), UNCHANGED runnerFrame
    PROVE  TypeOK'
<1>1. row[t] \in Row /\ exec[p][t].mem \in Row
  BY DEF TypeOK, Exec
<1>2. Finalized(exec[p][t].mem, row[t], st) \in Row
  BY <1>1, FinalizedType DEF TypeOK
<1>. QED  BY <1>1, <1>2, NoExecType, RunnerType DEF Finalize

\* The user's requests keep the types.
LEMMA UserType ==
    ASSUME TypeOK, NEW t \in Task, User(t)
    PROVE  TypeOK'
<1>1. row[t] \in Row
  BY DEF TypeOK
<1>2. CASE Create(t)
  <2>1. PICK p \in Prompt, s \in Schedules, e \in BOOLEAN :
           row' = [row EXCEPT ![t] = [prompt |-> p, cron |-> s.cron, runAt |-> s.runAt,
                                      status |-> "pending", enabled |-> e,
                                      result |-> NoResult]]
    BY <1>2 DEF Create
  <2>2. row' \in [Task -> Row]
    BY <2>1, SchedulesType DEF TypeOK, Row, Status
  <2>. QED  BY <1>2, <2>2 DEF Create, TypeOK, sweeperVars
<1>3. CASE Edit(t)
  <2>1. ASSUME NEW p \in Prompt
        PROVE  Retext(row[t], p) \in Row
    BY <1>1 DEF Retext, Row
  <2>2. ASSUME NEW p \in Prompt, NEW s \in Schedules
        PROVE  Reschedule(Retext(row[t], p), s) \in Row
    <3>. DEFINE r == Retext(row[t], p)
    <3>1. r \in Row
      BY <2>1
    <3>2. s.cron \in Cron \cup {NoCron} /\ s.runAt \in Nat
      BY SchedulesType DEF TypeOK
    <3>. HIDE DEF r
    <3>3. Reschedule(r, s) \in Row
      BY <3>1, <3>2 DEF Reschedule, Row, Status
    <3>. QED  BY <3>3 DEF r
  <2>3. row' \in [Task -> Row]
    BY <1>3, <2>1, <2>2 DEF Edit, TypeOK
  <2>. QED  BY <1>3, <2>3 DEF Edit, UserOp, TypeOK, sweeperVars
<1>4. CASE Patch(t)
  <2>1. PICK p \in Prompt, e \in BOOLEAN,
             s \in Schedules \cup {[cron |-> row[t].cron, runAt |-> row[t].runAt]} :
           row' = [row EXCEPT ![t].prompt = p, ![t].enabled = e,
                              ![t].cron = s.cron, ![t].runAt = s.runAt]
    BY <1>4 DEF Patch
  <2>2. s.cron \in Cron \cup {NoCron} /\ s.runAt \in Nat
    BY <1>1, <2>1, SchedulesType DEF Row, TypeOK
  <2>3. row' \in [Task -> Row]
    BY <2>1, <2>2, <1>1 DEF TypeOK, Row
  <2>. QED  BY <1>4, <2>3 DEF Patch, UserOp, TypeOK, sweeperVars
<1>5. CASE Cancel(t)
  <2>1. row' \in [Task -> Row]
    BY <1>1, <1>5 DEF Cancel, TypeOK, Row, Status, Terminal
  <2>. QED  BY <1>5, <2>1 DEF Cancel, UserOp, TypeOK, sweeperVars
<1>6. CASE Delete(t)
  BY <1>6, BlankRowType DEF Delete, UserOp, TypeOK, sweeperVars
<1>. QED  BY <1>2, <1>3, <1>4, <1>5, <1>6 DEF User

\* claim_due_tasks keeps the types.
LEMMA ClaimType ==
    ASSUME TypeOK, NEW p \in Proc, Claim(p)
    PROVE  TypeOK'
<1>. DEFINE taken == {t \in cand[p] : Claimable(t)}
            number(t) == IF Is(t, "pending") THEN claims[t] + 1 ELSE claims[t]
<1>1. row' \in [Task -> Row]
  <2>1. \A t \in Task : row[t] \in Row /\ [row[t] EXCEPT !.status = "running"] \in Row
    BY DEF TypeOK, Row, Status
  <2>2. row' = [t \in Task |-> IF t \in taken
                               THEN [row[t] EXCEPT !.status = "running"] ELSE row[t]]
    BY DEF Claim
  <2>. HIDE DEF taken
  <2>. QED  BY <2>1, <2>2
<1>2. \A t \in Task : number(t) \in Nat
  BY DEF TypeOK
<1>3. \A t \in Task : Waiting(t, number(t)) \in Exec
  BY <1>2, NoExecType DEF Waiting, Exec
<1>4. exec' = [exec EXCEPT ![p] = [t \in Task |->
                  IF t \in taken THEN Waiting(t, number(t)) ELSE exec[p][t]]]
  BY DEF Claim
<1>5. exec' \in [Proc -> [Task -> Exec]]
  BY <1>3, <1>4 DEF TypeOK
<1>6. claims' = [t \in Task |-> IF t \in taken THEN number(t) ELSE claims[t]]
  BY DEF Claim
<1>7. claims' \in [Task -> Nat]
  BY <1>2, <1>6 DEF TypeOK
<1>. QED  BY <1>1, <1>5, <1>7 DEF Claim, TypeOK

\* The steps of a runner keep the types.
LEMMA RunType ==
    ASSUME TypeOK, NEW p \in Proc, NEW t \in Task, Run(p, t)
    PROVE  TypeOK'
<1>1. row[t] \in Row /\ exec[p][t] \in Exec
  BY DEF TypeOK
<1>2. CASE Begin(p, t)
  <2>. DEFINE e == [exec[p][t] EXCEPT !.mem = row[t]]
  <2>1. e \in Exec
    BY <1>1 DEF Exec
  <2>2. [e EXCEPT !.phase = "graph", !.parts = row[t].prompt] \in Exec
    BY <1>1, <2>1 DEF Exec, Row
  <2>3. \A S \in SUBSET Target : ReadyToDeliver(e, row[t].result, S) \in Exec
    BY <1>1, <2>1, ReadyToDeliverType DEF Row
  <2>4. \E f \in Exec : Become(p, t, f)
    BY <1>2, <2>2, <2>3, NoExecType DEF Begin
  <2>. QED  BY <1>1, <1>2, <2>4, RunnerType DEF Begin
<1>3. CASE NoToken(p, t)
  <2>1. Finalized(row[t], row[t], "failed") \in Row
    BY <1>1, FinalizedType DEF TypeOK, Status, Terminal
  <2>. QED  BY <1>1, <1>3, <2>1, NoExecType, RunnerType DEF NoToken
<1>4. CASE GraphDone(p, t)
  <2>. DEFINE saved == [row[t] EXCEPT !.result = exec[p][t].parts]
              e == [exec[p][t] EXCEPT !.mem = saved]
  <2>1. saved \in Row
    BY <1>1 DEF Row, Exec
  <2>2. e \in Exec
    BY <1>1, <2>1 DEF Exec
  <2>3. exec[p][t].parts \in Prompt \cup {NoResult}
    BY <1>1 DEF Exec
  <2>4. \A S \in SUBSET Target : ReadyToDeliver(e, exec[p][t].parts, S) \in Exec
    BY <2>2, <2>3, ReadyToDeliverType
  <2>. HIDE DEF saved, e
  <2>5. CASE Live(t)
    <3>1. row' = [row EXCEPT ![t] = saved]
      BY <1>4, <2>5 DEF GraphDone, saved
    <3>2. PICK S \in SUBSET Target : Become(p, t, ReadyToDeliver(e, exec[p][t].parts, S))
      BY <1>4, <2>5 DEF GraphDone, e, saved
    <3>. QED  BY <1>4, <2>1, <2>4, <3>1, <3>2, RunnerType DEF GraphDone
  <2>6. CASE ~Live(t)
    BY <1>1, <1>4, <2>6, NoExecType, RunnerType DEF GraphDone
  <2>. QED  BY <2>5, <2>6
<1>5. CASE GraphFails(p, t)
  BY <1>5, FinalizeType DEF GraphFails, Status, Terminal
<1>6. CASE Deliver(p, t)
  <2>1. PICK g \in exec[p][t].todo, ok \in BOOLEAN :
           Become(p, t, [exec[p][t] EXCEPT
                           !.todo = @ \ {g},
                           !.outcome = IF ok THEN @ ELSE "partially_failed"])
    BY <1>6 DEF Deliver
  <2>2. [exec[p][t] EXCEPT !.todo = @ \ {g},
                           !.outcome = IF ok THEN @ ELSE "partially_failed"] \in Exec
    BY <1>1 DEF Exec
  <2>. QED  BY <1>1, <1>6, <2>1, <2>2, RunnerType DEF Deliver
<1>7. CASE Finish(p, t)
  <2>1. exec[p][t].outcome \in Status
    BY <1>1 DEF Exec, Status, Terminal
  <2>. QED  BY <1>7, <2>1, FinalizeType DEF Finish
<1>. QED  BY <1>2, <1>3, <1>4, <1>5, <1>6, <1>7 DEF Run

\* Every step keeps the types.
LEMMA TypeStep == TypeOK /\ [Next]_vars => TypeOK'
<1>. SUFFICES ASSUME TypeOK, [Next]_vars
              PROVE  TypeOK'
  OBVIOUS
<1>1. CASE Tick
  BY <1>1 DEF Tick, TypeOK
<1>2. CASE ExpireLock
  BY <1>2 DEF ExpireLock, TypeOK
<1>3. ASSUME NEW t \in Task, User(t)
      PROVE  TypeOK'
  BY <1>3, UserType
<1>4. ASSUME NEW p \in Proc, Start(p)
      PROVE  TypeOK'
  <2>1. row' \in [Task -> Row]
    BY <1>4, AfterResetType DEF Start, TypeOK
  <2>. QED  BY <1>4, <2>1 DEF Start, TypeOK
<1>5. ASSUME NEW p \in Proc, Crash(p)
      PROVE  TypeOK'
  BY <1>5, NoExecType DEF Crash, TypeOK
<1>6. ASSUME NEW p \in Proc, LockAndSelect(p)
      PROVE  TypeOK'
  <2>1. PICK C \in SUBSET DueTasks : cand' = [cand EXCEPT ![p] = C]
    BY <1>6 DEF LockAndSelect
  <2>2. C \in SUBSET Task
    BY <2>1 DEF DueTasks
  <2>. QED  BY <1>6, <2>1, <2>2 DEF LockAndSelect, TypeOK
<1>7. ASSUME NEW p \in Proc, Claim(p)
      PROVE  TypeOK'
  BY <1>7, ClaimType
<1>8. ASSUME NEW p \in Proc, NEW t \in Task, Run(p, t)
      PROVE  TypeOK'
  BY <1>8, RunType
<1>9. CASE UNCHANGED vars
  BY <1>9 DEF vars, TypeOK
<1>. QED  BY <1>1, <1>2, <1>3, <1>4, <1>5, <1>6, <1>7, <1>8, <1>9 DEF Next, Sweep

\* The initial state is well typed.
LEMMA TypeInit == Init => TypeOK
BY BlankRowType, NoExecType DEF Init, TypeOK

\* Every reachable state is well typed: in particular a row's status is always
\* one of the STATUS_ constants and a run date is never negative.
THEOREM TypeCorrect == Spec => []TypeOK
BY TypeInit, TypeStep, PTL DEF Spec

-----------------------------------------------------------------------------
(* Running rows have owners *)

\* The execution that will move a running row on: it has not loaded the row yet,
\* or has loaded it as running, so that _finalize has a status to write.
Owns(p, t) == \/ exec[p][t].phase = "waiting"
              \/ /\ exec[p][t].phase \in {"graph", "deliver"}
                 /\ exec[p][t].mem.status = "running"

OwnedRunning ==
    \A t \in Task : Is(t, "running") => \E p \in Proc : ~up[p] \/ Owns(p, t)

\* Whoever loaded a row as running leaves it in another status.
LEMMA FinalizedLeavesRunning ==
    ASSUME NEW m \in Row, NEW r \in Row, NEW st \in Status \ {"running"},
           m.status = "running"
    PROVE  Finalized(m, r, st).status # "running"
BY DEF Finalized, Row

\* A step of p on t leaves the rows of all other tasks and the executions of all
\* other processes alone, so only p's own claim to t needs an argument.
LEMMA OwnedRunnerStep ==
    ASSUME TypeOK, OwnedRunning, NEW p \in Proc, NEW t \in Task, NEW e \in Exec,
           Become(p, t, e), UNCHANGED runnerFrame,
           row' \in [Task -> Row],
           \A u \in Task \ {t} : row'[u] = row[u],
           Is(t, "running")' => Is(t, "running"),
           Is(t, "running")' /\ Owns(p, t) => Owns(p, t)'
    PROVE  OwnedRunning'
<1>. SUFFICES ASSUME NEW u \in Task, Is(u, "running")'
              PROVE  \E q \in Proc : ~up'[q] \/ Owns(q, u)'
  BY DEF OwnedRunning
<1>1. Is(u, "running")
  BY DEF Is, Live, runnerFrame
<1>2. PICK q \in Proc : ~up[q] \/ Owns(q, u)
  BY <1>1 DEF OwnedRunning
<1>3. CASE ~up[q]
  BY <1>3 DEF runnerFrame
<1>4. CASE Owns(q, u) /\ q = p /\ u = t
  BY <1>4
<1>5. CASE Owns(q, u) /\ ~(q = p /\ u = t)
  <2>1. exec'[q][u] = exec[q][u]
    BY <1>5 DEF Become, TypeOK
  <2>. QED  BY <1>5, <2>1 DEF Owns
<1>. QED  BY <1>2, <1>3, <1>4, <1>5

\* _finalize takes the row out of "running", or leaves it to its owner.
LEMMA OwnedFinalize ==
    ASSUME TypeOK, OwnedRunning, NEW p \in Proc, NEW t \in Task,
           NEW st \in Status \ {"running"},
           exec[p][t].phase \in {"graph", "deliver"},
           Finalize(p, t, st), UNCHANGED runnerFrame
    PROVE  OwnedRunning'
<1>. DEFINE m == exec[p][t].mem
            f == Finalized(m, row[t], st)
<1>1. m \in Row /\ row[t] \in Row
  BY DEF TypeOK, Exec
<1>2. row' \in [Task -> Row] /\ \A u \in Task \ {t} : row'[u] = row[u]
  <2>1. f \in Row
    BY <1>1, FinalizedType DEF TypeOK
  <2>. QED  BY <2>1 DEF Finalize, TypeOK
<1>3. Live(t) => row'[t] = f
  BY DEF Finalize, TypeOK
<1>4. m.status = "running" => f.status # "running"
  BY <1>1, FinalizedLeavesRunning
<1>5. f.status = "running" => row[t].status = "running"
  BY <1>1 DEF Finalized, Row
<1>. HIDE DEF m, f
<1>6. Live(t)' <=> Live(t)
  BY DEF Live, runnerFrame
<1>7. Is(t, "running")' => Is(t, "running")
  BY <1>3, <1>5, <1>6 DEF Is
<1>8. ~(Is(t, "running")' /\ Owns(p, t))
  BY <1>3, <1>4, <1>6 DEF Is, Owns, m
<1>9. Become(p, t, NoExec)
  BY DEF Finalize
<1>. QED  BY <1>2, <1>7, <1>8, <1>9, NoExecType, OwnedRunnerStep

\* The steps of a runner leave every running row with an owner.
LEMMA OwnedRun ==
    ASSUME TypeOK, OwnedRunning, NEW p \in Proc, NEW t \in Task, Run(p, t)
    PROVE  OwnedRunning'
<1>1. row[t] \in Row /\ exec[p][t] \in Exec
  BY DEF TypeOK
<1>2. CASE Begin(p, t)
  <2>. DEFINE e == [exec[p][t] EXCEPT !.mem = row[t]]
  <2>1. e \in Exec
    BY <1>1 DEF Exec
  <2>2. PICK f \in Exec : /\ Become(p, t, f)
                          /\ Live(t) => /\ f.phase \in {"graph", "deliver"}
                                        /\ f.mem = row[t]
    <3>1. CASE ~Live(t)
      BY <1>2, <3>1, NoExecType DEF Begin
    <3>2. CASE Live(t) /\ NeedsGraph(row[t])
      <4>. DEFINE f == [e EXCEPT !.phase = "graph", !.parts = row[t].prompt]
      <4>1. f \in Exec /\ f.phase = "graph" /\ f.mem = row[t]
        BY <1>1, <2>1 DEF Exec, Row
      <4>. QED  BY <1>2, <3>2, <4>1 DEF Begin
    <3>3. CASE Live(t) /\ ~NeedsGraph(row[t])
      <4>1. PICK S \in SUBSET Target : Become(p, t, ReadyToDeliver(e, row[t].result, S))
        BY <1>2, <3>3 DEF Begin
      <4>2. ReadyToDeliver(e, row[t].result, S) \in Exec
        BY <1>1, <2>1, ReadyToDeliverType DEF Row
      <4>3. /\ ReadyToDeliver(e, row[t].result, S).phase = "deliver"
            /\ ReadyToDeliver(e, row[t].result, S).mem = row[t]
        BY <1>1 DEF ReadyToDeliver, Exec
      <4>. QED  BY <4>1, <4>2, <4>3
    <3>. QED  BY <3>1, <3>2, <3>3
  <2>3. row' = row /\ UNCHANGED runnerFrame
    BY <1>2 DEF Begin
  <2>4. Is(t, "running")' => Is(t, "running") /\ Live(t)
    BY <2>3 DEF Is, Live, runnerFrame
  <2>5. exec'[p][t] = f
    BY <2>2 DEF Become, TypeOK
  <2>6. Is(t, "running")' => Owns(p, t)'
    BY <2>2, <2>4, <2>5 DEF Is, Owns
  <2>7. row' \in [Task -> Row] /\ \A u \in Task \ {t} : row'[u] = row[u]
    BY <2>3 DEF TypeOK
  <2>. QED  BY <2>2, <2>3, <2>4, <2>6, <2>7, OwnedRunnerStep
<1>3. CASE NoToken(p, t)
  <2>. DEFINE f == Finalized(row[t], row[t], "failed")
  <2>1. f \in Row
    BY <1>1, FinalizedType DEF TypeOK, Status, Terminal
  <2>2. row[t].status = "running" => f.status # "running"
    BY <1>1, FinalizedLeavesRunning DEF Status, Terminal
  <2>3. f.status = "running" => row[t].status = "running"
    BY <1>1 DEF Finalized, Row
  <2>. HIDE DEF f
  <2>4. row' \in [Task -> Row] /\ \A u \in Task \ {t} : row'[u] = row[u]
    BY <1>3, <2>1 DEF NoToken, TypeOK, f
  <2>5. Live(t) => row'[t] = f
    BY <1>3 DEF NoToken, TypeOK, f
  <2>6. ~Is(t, "running")'
    BY <1>3, <2>2, <2>3, <2>5 DEF NoToken, Is, Live, runnerFrame
  <2>7. Become(p, t, NoExec) /\ UNCHANGED runnerFrame
    BY <1>3 DEF NoToken
  <2>. QED  BY <2>4, <2>6, <2>7, NoExecType, OwnedRunnerStep
<1>4. CASE GraphDone(p, t)
  <2>. DEFINE saved == [row[t] EXCEPT !.result = exec[p][t].parts]
              e == [exec[p][t] EXCEPT !.mem = saved]
  <2>1. saved \in Row /\ saved.status = row[t].status
    BY <1>1 DEF Row, Exec
  <2>2. e \in Exec /\ e.mem = saved
    BY <1>1, <2>1 DEF Exec
  <2>3. exec[p][t].parts \in Prompt \cup {NoResult}
    BY <1>1 DEF Exec
  <2>. HIDE DEF saved, e
  <2>4. UNCHANGED runnerFrame
    BY <1>4 DEF GraphDone
  <2>5. CASE Live(t)
    <3>1. row' = [row EXCEPT ![t] = saved]
      BY <1>4, <2>5 DEF GraphDone, saved
    <3>2. PICK S \in SUBSET Target : Become(p, t, ReadyToDeliver(e, exec[p][t].parts, S))
      BY <1>4, <2>5 DEF GraphDone, e, saved
    <3>. DEFINE f == ReadyToDeliver(e, exec[p][t].parts, S)
    <3>3. f \in Exec
      BY <2>2, <2>3, ReadyToDeliverType
    <3>4. f.phase = "deliver" /\ f.mem = saved
      BY <2>2 DEF ReadyToDeliver, Exec
    <3>. HIDE DEF f
    <3>5. exec'[p][t] = f
      BY <3>2 DEF Become, TypeOK, f
    <3>6. row' \in [Task -> Row] /\ row'[t] = saved /\ \A u \in Task \ {t} : row'[u] = row[u]
      BY <2>1, <3>1 DEF TypeOK
    <3>7. Is(t, "running")' => Is(t, "running")
      BY <2>1, <2>4, <3>6 DEF Is, Live, runnerFrame
    <3>8. Is(t, "running")' => Owns(p, t)'
      BY <3>4, <3>5, <3>6 DEF Is, Owns
    <3>9. Become(p, t, f)
      BY <3>2 DEF f
    <3>. QED  BY <2>4, <3>3, <3>6, <3>7, <3>8, <3>9, OwnedRunnerStep
  <2>6. CASE ~Live(t)
    <3>1. Become(p, t, NoExec) /\ row' = row
      BY <1>4, <2>6 DEF GraphDone
    <3>2. ~Is(t, "running")'
      BY <2>4, <2>6 DEF Is, Live, runnerFrame
    <3>. QED  BY <2>4, <3>1, <3>2, NoExecType, OwnedRunnerStep DEF TypeOK
  <2>. QED  BY <2>5, <2>6
<1>5. CASE GraphFails(p, t)
  BY <1>5, OwnedFinalize DEF GraphFails, Status, Terminal
<1>6. CASE Deliver(p, t)
  <2>1. PICK g \in exec[p][t].todo, ok \in BOOLEAN :
           Become(p, t, [exec[p][t] EXCEPT
                           !.todo = @ \ {g},
                           !.outcome = IF ok THEN @ ELSE "partially_failed"])
    BY <1>6 DEF Deliver
  <2>. DEFINE f == [exec[p][t] EXCEPT
                      !.todo = @ \ {g},
                      !.outcome = IF ok THEN @ ELSE "partially_failed"]
  <2>2. f \in Exec /\ f.phase = exec[p][t].phase /\ f.mem = exec[p][t].mem
    BY <1>1 DEF Exec
  <2>. HIDE DEF f
  <2>3. Become(p, t, f)
    BY <2>1 DEF f
  <2>4. exec'[p][t] = f
    BY <2>3 DEF Become, TypeOK
  <2>5. Owns(p, t) => Owns(p, t)'
    BY <2>2, <2>4 DEF Owns
  <2>6. row' = row /\ UNCHANGED runnerFrame
    BY <1>6 DEF Deliver
  <2>7. Is(t, "running")' => Is(t, "running")
    BY <2>6 DEF Is, Live, runnerFrame
  <2>8. row' \in [Task -> Row] /\ \A u \in Task \ {t} : row'[u] = row[u]
    BY <2>6 DEF TypeOK
  <2>. QED  BY <2>2, <2>3, <2>5, <2>6, <2>7, <2>8, OwnedRunnerStep
<1>7. CASE Finish(p, t)
  <2>1. exec[p][t].outcome \in Status \ {"running"}
    BY <1>1 DEF Exec, Status, Terminal
  <2>. QED  BY <1>7, <2>1, OwnedFinalize DEF Finish
<1>. QED  BY <1>2, <1>3, <1>4, <1>5, <1>6, <1>7 DEF Run

\* A claim makes its process the owner of the rows it marks.
LEMMA OwnedClaim ==
    ASSUME TypeOK, OwnedRunning, NEW p \in Proc, Claim(p)
    PROVE  OwnedRunning'
<1>. DEFINE taken == {t \in cand[p] : Claimable(t)}
            number(t) == IF Is(t, "pending") THEN claims[t] + 1 ELSE claims[t]
<1>. SUFFICES ASSUME NEW t \in Task, Is(t, "running")'
              PROVE  \E q \in Proc : ~up'[q] \/ Owns(q, t)'
  BY DEF OwnedRunning
<1>1. exec' = [exec EXCEPT ![p] = [u \in Task |->
                  IF u \in taken THEN Waiting(u, number(u)) ELSE exec[p][u]]]
  BY DEF Claim
<1>2. \A u \in Task : Waiting(u, number(u)).phase = "waiting"
  BY NoExecType DEF Waiting, Exec
<1>. HIDE DEF number
<1>3. CASE t \in taken
  <2>1. exec'[p][t] = Waiting(t, number(t))
    BY <1>1, <1>3 DEF TypeOK
  <2>. QED  BY <1>2, <2>1 DEF Owns
<1>4. CASE t \notin taken
  <2>1. Is(t, "running")
    BY <1>4 DEF Claim, Is, Live, TypeOK
  <2>2. PICK q \in Proc : ~up[q] \/ Owns(q, t)
    BY <2>1 DEF OwnedRunning
  <2>3. exec'[q][t] = exec[q][t]
    BY <1>1, <1>4 DEF TypeOK
  <2>4. up' = up
    BY DEF Claim
  <2>. QED  BY <2>2, <2>3, <2>4 DEF Owns
<1>. QED  BY <1>3, <1>4

\* The user's requests make no row running.
LEMMA OwnedUser ==
    ASSUME TypeOK, OwnedRunning, NEW t \in Task, User(t)
    PROVE  OwnedRunning'
<1>1. UNCHANGED <<exec, up>>
  BY DEF User, Create, Edit, Patch, Cancel, Delete, UserOp, sweeperVars
<1>2. ASSUME NEW u \in Task, Is(u, "running")'
      PROVE  Is(u, "running")
  <2>1. row[t] \in Row
    BY DEF TypeOK
  <2>2. CASE Create(t)
    BY <1>2, <2>2 DEF Create, Is, Live, TypeOK
  <2>3. CASE Edit(t)
    <3>1. \A p \in Prompt : Retext(row[t], p) \in Row /\ Retext(row[t], p).status = row[t].status
      BY <2>1 DEF Retext, Row
    <3>2. \A r \in Row, s \in Schedules : Reschedule(r, s).status = "pending"
      BY DEF Reschedule, Row
    <3>3. row' = [row EXCEPT ![t] = row'[t]] /\ stage' = stage
      BY <2>3 DEF Edit, TypeOK
    <3>4. row'[t].status \in {row[t].status, "pending"}
      BY <2>3, <3>1, <3>2 DEF Edit, TypeOK
    <3>. QED  BY <1>2, <3>3, <3>4 DEF Is, Live, TypeOK
  <2>4. CASE Patch(t)
    BY <1>2, <2>1, <2>4 DEF Patch, Is, Live, TypeOK, Row
  <2>5. CASE Cancel(t)
    BY <1>2, <2>1, <2>5 DEF Cancel, Is, Live, TypeOK, Row
  <2>6. CASE Delete(t)
    BY <1>2, <2>6 DEF Delete, Is, Live, TypeOK
  <2>. QED  BY <2>2, <2>3, <2>4, <2>5, <2>6 DEF User
<1>. QED  BY <1>1, <1>2 DEF OwnedRunning, Owns

\* Every step leaves every running row with an owner.
LEMMA OwnedStep == TypeOK /\ OwnedRunning /\ [Next]_vars => OwnedRunning'
<1>. SUFFICES ASSUME TypeOK, OwnedRunning, [Next]_vars
              PROVE  OwnedRunning'
  OBVIOUS
<1>1. CASE Tick
  BY <1>1 DEF Tick, OwnedRunning, Owns, Is, Live
<1>2. CASE ExpireLock
  BY <1>2 DEF ExpireLock, OwnedRunning, Owns, Is, Live
<1>3. ASSUME NEW t \in Task, User(t)
      PROVE  OwnedRunning'
  BY <1>3, OwnedUser
<1>4. ASSUME NEW p \in Proc, Start(p)
      PROVE  OwnedRunning'
  \* The reset leaves no row in running.
  <2>1. \A t \in Task : AfterReset(row[t]).status # "running"
    BY DEF AfterReset, TypeOK, Row
  <2>2. \A t \in Task : ~Is(t, "running")'
    BY <1>4, <2>1 DEF Start, Is, Live
  <2>. QED  BY <2>2 DEF OwnedRunning
<1>5. ASSUME NEW p \in Proc, Crash(p)
      PROVE  OwnedRunning'
  <2>1. ~up'[p]
    BY <1>5 DEF Crash, TypeOK
  <2>. QED  BY <2>1 DEF OwnedRunning
<1>6. ASSUME NEW p \in Proc, LockAndSelect(p)
      PROVE  OwnedRunning'
  BY <1>6 DEF LockAndSelect, OwnedRunning, Owns, Is, Live
<1>7. ASSUME NEW p \in Proc, Claim(p)
      PROVE  OwnedRunning'
  BY <1>7, OwnedClaim
<1>8. ASSUME NEW p \in Proc, NEW t \in Task, Run(p, t)
      PROVE  OwnedRunning'
  BY <1>8, OwnedRun
<1>9. CASE UNCHANGED vars
  BY <1>9 DEF vars, OwnedRunning, Owns, Is, Live
<1>. QED  BY <1>1, <1>2, <1>3, <1>4, <1>5, <1>6, <1>7, <1>8, <1>9 DEF Next, Sweep

\* No row is ever stranded in running: a live process is working on it, or one
\* that is down resets it when it starts.
THEOREM RunningRowsHaveOwners == Spec => []RunningHasOwner
<1>1. Init => OwnedRunning
  BY DEF Init, OwnedRunning, Is, Live
<1>2. OwnedRunning => RunningHasOwner
  BY DEF OwnedRunning, Owns, RunningHasOwner
<1>. QED  BY <1>1, <1>2, TypeInit, TypeStep, OwnedStep, PTL DEF Spec

-----------------------------------------------------------------------------
(* Claims are exclusive *)

\* No execution carries a claim that has not been made yet.
ClaimsMade == \A p \in Proc, t \in Task : exec[p][t].claim <= claims[t]

ClaimInv == ClaimsMade /\ ClaimHandedOnce

\* A step that leaves the claims alone, and leaves every execution either as it
\* is, ended, or under the same claim.
LEMMA ClaimKept ==
    ASSUME TypeOK, ClaimInv, claims' = claims,
           \A p \in Proc, t \in Task :
              \/ exec'[p][t] = NoExec
              \/ /\ exec'[p][t].claim = exec[p][t].claim
                 /\ exec[p][t].phase # "none"
              \/ exec'[p][t] = exec[p][t]
    PROVE  ClaimInv'
<1>1. NoExec.claim = 0 /\ NoExec.phase = "none"
  BY DEF NoExec
<1>2. \A t \in Task : claims[t] \in Nat
  BY DEF TypeOK
<1>3. ClaimsMade'
  BY <1>1, <1>2 DEF ClaimInv, ClaimsMade
<1>4. ClaimHandedOnce'
  BY <1>1 DEF ClaimInv, ClaimHandedOnce
<1>. QED  BY <1>3, <1>4 DEF ClaimInv

\* The steps of a runner hand out no claim.
LEMMA ClaimRun ==
    ASSUME TypeOK, ClaimInv, NEW p \in Proc, NEW t \in Task, Run(p, t)
    PROVE  ClaimInv'
<1>1. row[t] \in Row /\ exec[p][t] \in Exec /\ claims' = claims
  BY DEF TypeOK, Run, Begin, NoToken, GraphDone, GraphFails, Deliver, Finish, runnerFrame
<1>2. exec[p][t].phase # "none"
  BY DEF Run, Begin, NoToken, GraphDone, GraphFails, Deliver, Finish
<1>3. ASSUME NEW e, NEW parts, NEW S, e \in Exec
      PROVE  ReadyToDeliver(e, parts, S).claim = e.claim
  BY <1>3 DEF ReadyToDeliver, Exec
<1>4. \E e : Become(p, t, e) /\ (e = NoExec \/ e.claim = exec[p][t].claim)
  <2>1. CASE Begin(p, t)
    <3>. DEFINE e == [exec[p][t] EXCEPT !.mem = row[t]]
    <3>1. e \in Exec /\ e.claim = exec[p][t].claim
      BY <1>1 DEF Exec
    <3>2. [e EXCEPT !.phase = "graph", !.parts = row[t].prompt].claim = e.claim
      BY <3>1 DEF Exec
    <3>3. \A S \in SUBSET Target : ReadyToDeliver(e, row[t].result, S).claim = e.claim
      BY <1>3, <3>1
    <3>4. \/ Become(p, t, NoExec)
          \/ Become(p, t, [e EXCEPT !.phase = "graph", !.parts = row[t].prompt])
          \/ \E S \in SUBSET Target : Become(p, t, ReadyToDeliver(e, row[t].result, S))
      BY <2>1 DEF Begin
    <3>. HIDE DEF e
    <3>. QED  BY <3>1, <3>2, <3>3, <3>4
  <2>2. CASE NoToken(p, t)
    BY <2>2 DEF NoToken
  <2>3. CASE GraphDone(p, t)
    <3>. DEFINE saved == [row[t] EXCEPT !.result = exec[p][t].parts]
                e == [exec[p][t] EXCEPT !.mem = saved]
    <3>1. saved \in Row
      BY <1>1 DEF Row, Exec
    <3>2. e \in Exec /\ e.claim = exec[p][t].claim
      BY <1>1, <3>1 DEF Exec
    <3>3. \A S \in SUBSET Target : ReadyToDeliver(e, exec[p][t].parts, S).claim = e.claim
      BY <1>3, <3>2
    <3>4. \/ Become(p, t, NoExec)
          \/ \E S \in SUBSET Target : Become(p, t, ReadyToDeliver(e, exec[p][t].parts, S))
      BY <2>3 DEF GraphDone
    <3>. HIDE DEF e, saved
    <3>. QED  BY <3>2, <3>3, <3>4
  <2>4. CASE GraphFails(p, t)
    BY <2>4 DEF GraphFails, Finalize
  <2>5. CASE Deliver(p, t)
    <3>1. PICK g \in exec[p][t].todo, ok \in BOOLEAN :
             Become(p, t, [exec[p][t] EXCEPT
                             !.todo = @ \ {g},
                             !.outcome = IF ok THEN @ ELSE "partially_failed"])
      BY <2>5 DEF Deliver
    <3>2. [exec[p][t] EXCEPT
             !.todo = @ \ {g},
             !.outcome = IF ok THEN @ ELSE "partially_failed"].claim = exec[p][t].claim
      BY <1>1 DEF Exec
    <3>. QED  BY <3>1, <3>2
  <2>6. CASE Finish(p, t)
    BY <2>6 DEF Finish, Finalize
  <2>. QED  BY <2>1, <2>2, <2>3, <2>4, <2>5, <2>6 DEF Run
<1>5. PICK e : Become(p, t, e) /\ (e = NoExec \/ e.claim = exec[p][t].claim)
  BY <1>4
<1>6. exec'[p][t] = e
  BY <1>5 DEF Become, TypeOK
<1>7. \A q \in Proc, u \in Task : ~(q = p /\ u = t) => exec'[q][u] = exec[q][u]
  BY <1>5 DEF Become, TypeOK
<1>. QED  BY <1>1, <1>2, <1>5, <1>6, <1>7, ClaimKept

\* A claim takes pending rows only, so each gets a number nobody holds.
LEMMA ClaimFresh ==
    ASSUME TypeOK, ClaimInv, NEW p \in Proc, Claim(p)
    PROVE  ClaimInv'
<1>. DEFINE taken == {t \in cand[p] : Claimable(t)}
            number(t) == IF Is(t, "pending") THEN claims[t] + 1 ELSE claims[t]
<1>1. \A t \in taken : number(t) = claims[t] + 1
  BY DEF Claimable
<1>2. exec' = [exec EXCEPT ![p] = [t \in Task |->
                  IF t \in taken THEN Waiting(t, number(t)) ELSE exec[p][t]]]
  BY DEF Claim
<1>3. claims' = [t \in Task |-> IF t \in taken THEN number(t) ELSE claims[t]]
  BY DEF Claim
<1>4. \A t \in Task : Waiting(t, number(t)).claim = number(t)
  BY NoExecType DEF Waiting, Exec
<1>5. \A t \in Task : claims[t] \in Nat
  BY DEF TypeOK
<1>6. \A q \in Proc, t \in Task : exec[q][t].claim \in Nat
  BY DEF TypeOK, Exec
<1>. HIDE DEF taken, number
<1>7. \A q \in Proc, t \in Task :
         exec'[q][t] = IF q = p /\ t \in taken THEN Waiting(t, number(t)) ELSE exec[q][t]
  BY <1>2 DEF TypeOK
<1>8. ClaimsMade'
  BY <1>1, <1>3, <1>4, <1>5, <1>6, <1>7 DEF ClaimInv, ClaimsMade
<1>9. ClaimHandedOnce'
  <2>. SUFFICES ASSUME NEW t \in Task, NEW q \in Proc, NEW r \in Proc, q # r,
                       exec'[q][t].phase # "none", exec'[r][t].phase # "none"
                PROVE  exec'[q][t].claim # exec'[r][t].claim
    BY DEF ClaimHandedOnce
  <2>1. CASE t \in taken /\ (q = p \/ r = p)
    BY <1>1, <1>4, <1>5, <1>6, <1>7, <2>1 DEF ClaimInv, ClaimsMade
  <2>2. CASE ~(t \in taken /\ (q = p \/ r = p))
    BY <1>7, <2>2 DEF ClaimInv, ClaimHandedOnce
  <2>. QED  BY <2>1, <2>2
<1>. QED  BY <1>8, <1>9 DEF ClaimInv

\* Every step keeps the invariant of the claims.
LEMMA ClaimStep == TypeOK /\ ClaimInv /\ [Next]_vars => ClaimInv'
<1>. SUFFICES ASSUME TypeOK, ClaimInv, [Next]_vars
              PROVE  ClaimInv'
  OBVIOUS
<1>1. CASE UNCHANGED <<exec, claims>>
  BY <1>1, ClaimKept
<1>2. ASSUME NEW p \in Proc, Crash(p)
      PROVE  ClaimInv'
  BY <1>2, ClaimKept DEF Crash, TypeOK
<1>3. ASSUME NEW p \in Proc, Claim(p)
      PROVE  ClaimInv'
  BY <1>3, ClaimFresh
<1>4. ASSUME NEW p \in Proc, NEW t \in Task, Run(p, t)
      PROVE  ClaimInv'
  BY <1>4, ClaimRun
<1>5. ASSUME NEW t \in Task, User(t)
      PROVE  UNCHANGED <<exec, claims>>
  BY <1>5 DEF User, Create, Edit, Patch, Cancel, Delete, UserOp, sweeperVars
<1>6. ASSUME NEW p \in Proc, Start(p) \/ LockAndSelect(p)
      PROVE  UNCHANGED <<exec, claims>>
  BY <1>6 DEF Start, LockAndSelect
<1>7. CASE Tick \/ ExpireLock \/ UNCHANGED vars
  BY <1>1, <1>7 DEF Tick, ExpireLock, vars
<1>. QED  BY <1>1, <1>2, <1>3, <1>4, <1>5, <1>6, <1>7 DEF Next, Sweep

\* Each move of a row from pending to running is executed by one process only,
\* with or without the sweeper lock: claim_due's conditional UPDATE suffices.
THEOREM ClaimsAreExclusive == Spec => []ClaimHandedOnce
<1>1. Init => ClaimInv
  BY DEF Init, ClaimInv, ClaimsMade, ClaimHandedOnce, NoExec
<1>2. ClaimInv => ClaimHandedOnce
  BY DEF ClaimInv
<1>. QED  BY <1>1, <1>2, TypeInit, TypeStep, ClaimStep, PTL DEF Spec

-----------------------------------------------------------------------------
(* Saved results *)

\* An execution that has not loaded its row has no recipients left; one whose graph
\* runs has loaded a row without a result, and will have one to save.
Loaded(e) == /\ e.phase = "waiting" => e.todo = {}
             /\ e.phase = "graph" => e.mem.result = NoResult /\ e.parts \in Prompt

ExecsLoaded == \A p \in Proc, t \in Task : Loaded(exec[p][t])

\* A step of a runner on t that drops the result of its row ends an execution which
\* had nobody left to tell; one that stays in the graph has a row without a result.
LEMMA RunnerResults ==
    ASSUME TypeOK, ExecsLoaded, NEW p \in Proc, NEW t \in Task, Run(p, t)
    PROVE  /\ stage' = stage
           /\ \A u \in Task \ {t} : row'[u] = row[u]
           /\ Loaded(exec'[p][t])
           /\ row[t].result # NoResult /\ row'[t].result = NoResult =>
                 /\ exec[p][t].phase \in {"waiting", "deliver"} /\ exec[p][t].todo = {}
                 /\ exec'[p][t].phase = "none"
           /\ Live(t) /\ exec'[p][t].phase = "graph" => row'[t].result = NoResult
           /\ \A q \in Proc, u \in Task : <<q, u>> # <<p, t>> => exec'[q][u] = exec[q][u]
<1> DEFINE x == exec[p][t]
<1>1. row[t] \in Row /\ x \in Exec /\ Loaded(x)
  BY DEF TypeOK, ExecsLoaded
<1>2. Loaded(NoExec) /\ NoExec.phase = "none"
  BY DEF Loaded, NoExec
<1>3. ASSUME NEW e, Become(p, t, e)
      PROVE  /\ exec'[p][t] = e
             /\ \A q \in Proc, u \in Task : <<q, u>> # <<p, t>> => exec'[q][u] = exec[q][u]
  BY <1>3 DEF Become, TypeOK
<1>4. ASSUME NEW st, Finalize(p, t, st), UNCHANGED runnerFrame
      PROVE  /\ stage' = stage
             /\ \A u \in Task \ {t} : row'[u] = row[u]
             /\ exec'[p][t] = NoExec
             /\ row[t].result # NoResult /\ row'[t].result = NoResult =>
                   x.mem.result # NoResult
             /\ \A q \in Proc, u \in Task : <<q, u>> # <<p, t>> => exec'[q][u] = exec[q][u]
  <2>1. Finalized(x.mem, row[t], st).result =
           IF x.mem.result = NoResult THEN row[t].result ELSE NoResult
    BY <1>1 DEF Finalized, Row
  <2>2. /\ Live(t) => row' = [row EXCEPT ![t] = Finalized(x.mem, row[t], st)]
        /\ ~Live(t) => row' = row
        /\ Become(p, t, NoExec) /\ stage' = stage
    BY <1>4 DEF Finalize, runnerFrame
  <2>3. row \in [Task -> Row]
    BY DEF TypeOK
  <2> HIDE DEF x
  <2> QED
    BY <1>3, <2>1, <2>2, <2>3
<1>5. \A e \in Exec : \A parts, S :
         /\ ReadyToDeliver(e, parts, S).phase = "deliver"
         /\ Loaded(ReadyToDeliver(e, parts, S))
  BY DEF ReadyToDeliver, Loaded, Exec
<1>6. CASE Begin(p, t)
  <2> DEFINE e == [x EXCEPT !.mem = row[t]]
             g == [e EXCEPT !.phase = "graph", !.parts = row[t].prompt]
  <2>1. e \in Exec
    BY <1>1 DEF Exec
  <2>2. row[t].result = NoResult => Loaded(g)
    BY <1>1, <2>1 DEF Loaded, Exec, Row
  <2>3. UNCHANGED <<row, stage>>
    BY <1>6 DEF Begin, runnerFrame
  <2>4. PICK f : /\ Become(p, t, f) /\ Loaded(f)
                 /\ f.phase = "graph" => row[t].result = NoResult
    BY <1>2, <1>5, <1>6, <2>1, <2>2 DEF Begin, NeedsGraph
  <2> QED
    BY <1>3, <2>3, <2>4
<1>7. CASE NoToken(p, t)
  <2>1. x.phase = "waiting" /\ x.todo = {}
    BY <1>1, <1>7 DEF NoToken, Loaded
  <2>2. \A u \in Task \ {t} : row'[u] = row[u]
    BY <1>7 DEF NoToken, TypeOK
  <2>3. Become(p, t, NoExec) /\ stage' = stage
    BY <1>7 DEF NoToken, runnerFrame
  <2> QED
    BY <1>2, <1>3, <2>1, <2>2, <2>3
<1>8. CASE GraphDone(p, t)
  <2>1. x.parts \in Prompt
    BY <1>1, <1>8 DEF GraphDone, Loaded
  <2> DEFINE saved == [row[t] EXCEPT !.result = x.parts]
  <2>2. saved.result # NoResult /\ saved \in Row
    BY <1>1, <2>1, ConstantsAssumption DEF Row
  <2>3. [x EXCEPT !.mem = saved] \in Exec
    BY <1>1, <2>2 DEF Exec
  <2>4. CASE Live(t)
    <3>1. row' = [row EXCEPT ![t] = saved] /\ stage' = stage
      BY <1>8, <2>4 DEF GraphDone, runnerFrame
    <3>2. PICK S \in SUBSET Target :
             Become(p, t, ReadyToDeliver([x EXCEPT !.mem = saved], x.parts, S))
      BY <1>8, <2>4 DEF GraphDone
    <3>3. row'[t].result # NoResult /\ \A u \in Task \ {t} : row'[u] = row[u]
      BY <2>2, <3>1 DEF TypeOK
    <3> HIDE DEF saved
    <3>4. Loaded(exec'[p][t]) /\ exec'[p][t].phase = "deliver"
      BY <1>3, <1>5, <2>3, <3>2
    <3> QED
      BY <1>3, <3>1, <3>2, <3>3, <3>4
  <2>5. CASE ~Live(t)
    BY <1>2, <1>3, <1>8, <2>5 DEF GraphDone, runnerFrame
  <2> QED
    BY <2>4, <2>5
<1>9. CASE GraphFails(p, t)
  BY <1>1, <1>2, <1>4, <1>9 DEF GraphFails, Loaded
<1>10. CASE Deliver(p, t)
  <2>1. PICK g \in x.todo, ok \in BOOLEAN :
           Become(p, t, [x EXCEPT !.todo = @ \ {g},
                                  !.outcome = IF ok THEN @ ELSE "partially_failed"])
    BY <1>10 DEF Deliver
  <2> DEFINE f == [x EXCEPT !.todo = @ \ {g},
                            !.outcome = IF ok THEN @ ELSE "partially_failed"]
  <2>2. f.phase = x.phase
    BY <1>1 DEF Exec
  <2>3. Become(p, t, f)
    BY <2>1
  <2> HIDE DEF f
  <2> QED
    BY <1>3, <1>10, <2>2, <2>3 DEF Deliver, runnerFrame, Loaded
<1>11. CASE Finish(p, t)
  BY <1>2, <1>4, <1>11 DEF Finish
<1> QED
  BY <1>6, <1>7, <1>8, <1>9, <1>10, <1>11 DEF Run

\* The user's requests leave every result that stays in a row, and make none.
LEMMA UserResults ==
    ASSUME TypeOK, NEW t \in Task, User(t)
    PROVE  /\ exec' = exec
           /\ \A u \in Task : Live(u) /\ stage'[u] = "live" => row'[u].result = row[u].result
           /\ \A u \in Task : ~Live(u) /\ stage'[u] = "live" => row'[u].result = NoResult
<1>1. row[t] \in Row /\ exec' = exec
  BY DEF TypeOK, User, Create, Edit, Patch, Cancel, Delete, UserOp, sweeperVars
<1>2. CASE Create(t)
  BY <1>1, <1>2 DEF Create, Live, TypeOK
<1>3. CASE Edit(t)
  <2>1. \A p \in Prompt : Retext(row[t], p) \in Row /\ Retext(row[t], p).result = row[t].result
    BY <1>1 DEF Retext, Row
  <2>2. \A r \in Row, s \in Schedules : Reschedule(r, s).result = r.result
    BY DEF Reschedule, Row
  <2>3. row' = [row EXCEPT ![t] = row'[t]] /\ stage' = stage
    BY <1>3 DEF Edit, TypeOK
  <2>4. row'[t].result = row[t].result
    BY <1>3, <2>1, <2>2 DEF Edit, TypeOK
  <2> QED
    BY <1>1, <2>3, <2>4 DEF Live, TypeOK
<1>4. CASE Patch(t)
  BY <1>1, <1>4 DEF Patch, Live, TypeOK, Row
<1>5. CASE Cancel(t)
  BY <1>1, <1>5 DEF Cancel, Live, TypeOK, Row
<1>6. CASE Delete(t)
  BY <1>1, <1>6 DEF Delete, Live, TypeOK
<1> QED
  BY <1>2, <1>3, <1>4, <1>5, <1>6 DEF User

\* A claim and a start change no result; a claim hands out what has yet to be loaded.
LEMMA SweeperResults ==
    ASSUME TypeOK, ExecsLoaded, NEW p \in Proc, Start(p) \/ Claim(p)
    PROVE  /\ stage' = stage
           /\ \A u \in Task : row'[u].result = row[u].result
           /\ \A q \in Proc, u \in Task :
                 \/ exec'[q][u] = exec[q][u]
                 \/ exec'[q][u].phase = "waiting" /\ exec'[q][u].todo = {}
<1>1. \A u \in Task : row[u] \in Row
  BY DEF TypeOK
<1>2. CASE Start(p)
  <2>1. \A u \in Task : AfterReset(row[u]).result = row[u].result
    BY <1>1 DEF AfterReset, Row
  <2> QED
    BY <1>2, <2>1 DEF Start, TypeOK
<1>3. CASE Claim(p)
  <2> DEFINE taken == {t \in cand[p] : Claimable(t)}
             number(t) == IF Is(t, "pending") THEN claims[t] + 1 ELSE claims[t]
  <2>1. \A u \in Task : row'[u] \in {row[u], [row[u] EXCEPT !.status = "running"]}
    BY <1>3 DEF Claim
  <2>2. exec' = [exec EXCEPT ![p] = [t \in Task |->
                    IF t \in taken THEN Waiting(t, number(t)) ELSE exec[p][t]]]
    BY <1>3 DEF Claim
  <2>3. \A u \in Task : \A n : Waiting(u, n).phase = "waiting" /\ Waiting(u, n).todo = {}
    BY DEF Waiting, NoExec
  <2> HIDE DEF taken, number
  <2>4. \A q \in Proc, u \in Task : exec'[q][u] \in {exec[q][u], Waiting(u, number(u))}
    BY <2>2 DEF TypeOK
  <2>5. \A u \in Task : row'[u].result = row[u].result
    BY <1>1, <2>1 DEF Row
  <2> QED
    BY <1>3, <2>3, <2>4, <2>5 DEF Claim
<1> QED
  BY <1>2, <1>3

\* Every step keeps what is known of executions.
LEMMA LoadedStep == TypeOK /\ ExecsLoaded /\ [Next]_vars => ExecsLoaded'
<1> SUFFICES ASSUME TypeOK, ExecsLoaded, [Next]_vars
             PROVE  ExecsLoaded'
  OBVIOUS
<1>1. CASE exec' = exec
  BY <1>1 DEF ExecsLoaded
<1>2. ASSUME NEW p \in Proc, NEW t \in Task, Run(p, t)
      PROVE  ExecsLoaded'
  BY <1>2, RunnerResults DEF ExecsLoaded
<1>3. ASSUME NEW p \in Proc, Start(p) \/ Claim(p)
      PROVE  ExecsLoaded'
  BY <1>3, SweeperResults DEF ExecsLoaded, Loaded
<1>4. ASSUME NEW p \in Proc, Crash(p)
      PROVE  ExecsLoaded'
  BY <1>4 DEF Crash, ExecsLoaded, Loaded, NoExec, TypeOK
<1>5. ASSUME NEW t \in Task, User(t)
      PROVE  exec' = exec
  BY <1>5, UserResults
<1>6. ASSUME NEW p \in Proc, LockAndSelect(p)
      PROVE  exec' = exec
  BY <1>6 DEF LockAndSelect
<1>7. CASE Tick \/ ExpireLock \/ UNCHANGED vars
  BY <1>1, <1>7 DEF Tick, ExpireLock, vars
<1> QED
  BY <1>1, <1>2, <1>3, <1>4, <1>5, <1>6, <1>7 DEF Next, Sweep

\* At the start nothing is executed.
LEMMA LoadedInit == Init => ExecsLoaded
BY DEF Init, ExecsLoaded, Loaded, NoExec

\* A saved result leaves its row only after an execution has tried every target, had
\* no token, or with the row: no concurrent failure drops it (_finalize writes only
\* what the execution itself had loaded).
THEOREM ResultsAreKept == Spec => ResultKeptUntilDelivered
<1> DEFINE Kept(t) ==
        Live(t) /\ row[t].result # NoResult /\ row'[t].result = NoResult =>
           \/ stage'[t] # "live"
           \/ \E p \in Proc : /\ exec[p][t].phase \in {"waiting", "deliver"}
                              /\ exec[p][t].todo = {}
                              /\ exec'[p][t].phase = "none"
<1>1. TypeOK /\ ExecsLoaded /\ [Next]_vars => \A t \in Task : Kept(t)
  <2> SUFFICES ASSUME TypeOK, ExecsLoaded, [Next]_vars, NEW t \in Task
               PROVE  Kept(t)
    OBVIOUS
  <2>1. CASE row' = row
    BY <2>1
  <2>2. ASSUME NEW p \in Proc, NEW u \in Task, Run(p, u)
        PROVE  Kept(t)
    BY <2>2, RunnerResults
  <2>3. ASSUME NEW p \in Proc, Start(p) \/ Claim(p)
        PROVE  Kept(t)
    BY <2>3, SweeperResults
  <2>4. ASSUME NEW u \in Task, User(u)
        PROVE  Kept(t)
    BY <2>4, UserResults
  <2>5. ASSUME NEW p \in Proc, LockAndSelect(p) \/ Crash(p)
        PROVE  row' = row
    BY <2>5 DEF LockAndSelect, Crash
  <2>6. CASE Tick \/ ExpireLock \/ UNCHANGED vars
    BY <2>1, <2>6 DEF Tick, ExpireLock, vars
  <2> QED
    BY <2>1, <2>2, <2>3, <2>4, <2>5, <2>6 DEF Next, Sweep
<1> QED
  BY <1>1, TypeInit, TypeStep, LoadedInit, LoadedStep, PTL DEF Spec, ResultKeptUntilDelivered

\* Where there is one process, a saved result is delivered after a restart, never
\* computed again (the idempotency of execute_due_task).
THEOREM ResultsNotRecomputed ==
    ASSUME \A p, q \in Proc : p = q
    PROVE  Spec => []PersistedResultNotRecomputed
<1>1. Init => PersistedResultNotRecomputed
  BY DEF Init, PersistedResultNotRecomputed, Live
<1>2. TypeOK /\ ExecsLoaded /\ PersistedResultNotRecomputed /\ [Next]_vars
         => PersistedResultNotRecomputed'
  <2> SUFFICES ASSUME TypeOK, ExecsLoaded, PersistedResultNotRecomputed, [Next]_vars,
                      NEW p \in Proc, NEW t \in Task, stage'[t] = "live",
                      exec'[p][t].phase = "graph"
               PROVE  row'[t].result = NoResult
    BY DEF PersistedResultNotRecomputed, Live
  <2>1. CASE UNCHANGED <<row, stage, exec>>
    BY <2>1 DEF PersistedResultNotRecomputed, Live
  <2>2. ASSUME NEW q \in Proc, NEW u \in Task, Run(q, u)
        PROVE  row'[t].result = NoResult
    <3>1. q = p /\ stage'[t] = stage[t]
      BY <2>2, RunnerResults
    <3>2. CASE u = t
      BY <2>2, <3>1, <3>2, RunnerResults DEF Live
    <3>3. CASE u # t
      BY <2>2, <3>1, <3>3, RunnerResults DEF PersistedResultNotRecomputed, Live
    <3> QED
      BY <3>2, <3>3
  <2>3. ASSUME NEW q \in Proc, Start(q) \/ Claim(q)
        PROVE  row'[t].result = NoResult
    BY <2>3, SweeperResults DEF PersistedResultNotRecomputed, Live
  <2>4. ASSUME NEW u \in Task, User(u)
        PROVE  row'[t].result = NoResult
    BY <2>4, UserResults DEF PersistedResultNotRecomputed, Live
  <2>5. ASSUME NEW q \in Proc, Crash(q)
        PROVE  row'[t].result = NoResult
    BY <2>5 DEF Crash, NoExec, TypeOK, PersistedResultNotRecomputed, Live
  <2>6. ASSUME NEW q \in Proc, LockAndSelect(q)
        PROVE  row'[t].result = NoResult
    BY <2>1, <2>6 DEF LockAndSelect
  <2>7. CASE Tick \/ ExpireLock \/ UNCHANGED vars
    BY <2>1, <2>7 DEF Tick, ExpireLock, vars
  <2> QED
    BY <2>2, <2>3, <2>4, <2>5, <2>6, <2>7 DEF Next, Sweep
<1> QED
  BY <1>1, <1>2, TypeInit, TypeStep, LoadedInit, LoadedStep, PTL DEF Spec

-----------------------------------------------------------------------------
(* Cancelled rows *)

\* A cancelled row nobody executes stays cancelled: claim_due looks at the status
\* again when it claims, and a start resets running rows only.
THEOREM CancelsHold == Spec => CancelHolds
<1> DEFINE Holds(t) ==
        Is(t, "cancelled") /\ row'[t].status # "cancelled" =>
           \/ stage'[t] # "live" \/ ops' = ops + 1
           \/ \E p \in Proc : exec[p][t].phase # "none"
<1>1. TypeOK /\ [Next]_vars => \A t \in Task : Holds(t)
  <2> SUFFICES ASSUME TypeOK, [Next]_vars, NEW t \in Task
               PROVE  Holds(t)
    OBVIOUS
  <2>1. CASE row' = row
    BY <2>1 DEF Is
  <2>2. ASSUME NEW p \in Proc, NEW u \in Task, Run(p, u)
        PROVE  Holds(t)
    <3>1. exec[p][u].phase # "none"
      BY <2>2 DEF Run, Begin, NoToken, GraphDone, GraphFails, Deliver, Finish
    <3>2. CASE u # t
      BY <2>2, <3>2 DEF Run, Begin, NoToken, GraphDone, GraphFails, Deliver, Finish,
                        Finalize, Is, TypeOK
    <3> QED
      BY <3>1, <3>2
  <2>3. ASSUME NEW p \in Proc, Start(p)
        PROVE  Holds(t)
    <3>1. row[t] \in Row
      BY DEF TypeOK
    <3>2. row'[t] \in {row[t], AfterReset(row[t])}
      BY <2>3 DEF Start
    <3>3. row[t].status = "cancelled" => AfterReset(row[t]).status = "cancelled"
      BY <3>1 DEF AfterReset, Row
    <3> QED
      BY <3>2, <3>3 DEF Is
  <2>4. ASSUME NEW p \in Proc, Claim(p)
        PROVE  Holds(t)
    BY <2>4 DEF Claim, Claimable, Is
  <2>5. ASSUME NEW u \in Task, User(u)
        PROVE  Holds(t)
    <3>1. CASE Create(u)
      BY <3>1 DEF Create, Is, Live, TypeOK
    <3>2. CASE Edit(u) \/ Patch(u) \/ Cancel(u) \/ Delete(u)
      BY <3>2 DEF Edit, Patch, Cancel, Delete, UserOp
    <3> QED
      BY <2>5, <3>1, <3>2 DEF User
  <2>6. ASSUME NEW p \in Proc, LockAndSelect(p) \/ Crash(p)
        PROVE  row' = row
    BY <2>6 DEF LockAndSelect, Crash
  <2>7. CASE Tick \/ ExpireLock \/ UNCHANGED vars
    BY <2>1, <2>7 DEF Tick, ExpireLock, vars
  <2> QED
    BY <2>1, <2>2, <2>3, <2>4, <2>5, <2>6, <2>7 DEF Next, Sweep
<1> QED
  BY <1>1, TypeInit, TypeStep, PTL DEF Spec, CancelHolds
=============================================================================
