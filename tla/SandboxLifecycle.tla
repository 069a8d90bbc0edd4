-------------------------- MODULE SandboxLifecycle --------------------------
(***************************************************************************)
(* The life of a user's sandbox (sandbox/manager/lifecycle_service.py): a  *)
(* database row with a status and the id of a Docker container, requests   *)
(* that ensure it runs or stop it, the idle sweeper (which also reconciles *)
(* stale starts) and the orphan sweeper.                                   *)
(*                                                                         *)
(* Operations on one sandbox hold its lifecycle lock; sweepers choose what *)
(* to do before they ask for it.  Every operation works on an ORM object:  *)
(* the session factory sets expire_on_commit=False, so a SELECT does not   *)
(* refresh an object the session already holds, a commit writes only the   *)
(* attributes that were changed on the object, and set_status refreshes it *)
(* afterwards.  Docker calls are synchronous, hence atomic.                *)
(***************************************************************************)
EXTENDS Integers, Sequences, FiniteSets, SequencesExt

CONSTANTS
    Sandbox,        \* rows, all of one provider
    Box,            \* identities for containers (bounds how many are in play)
    Request,        \* users' requests
    IdleSweeper,    \* one sweep at a time each, by the sweepers' own locks
    OrphanSweeper,
    NoBox,
    NoTask,
    MaxActive,      \* max_active_sandboxes
    Preserve,       \* not_remove: containers survive their stop
    Named,          \* a docker network is set: one container name per sandbox
    CacheMiss,      \* may ensure find no cached row and load it before the lock?
    Sweeps,         \* which sweeps run: a subset of {"idle", "reconcile", "orphan"}
    MaxRequests,    \* bound on requests
    MaxAbandons,    \* bound on operations cut short
    MaxFaults       \* bound on failures of Docker and deaths of containers

Task == Request \cup {IdleSweeper, OrphanSweeper}

ASSUME LifecycleAssumption ==
    /\ NoBox \notin Box /\ NoTask \notin Task
    /\ IdleSweeper # OrphanSweeper /\ {IdleSweeper, OrphanSweeper} \cap Request = {}
    /\ IsFiniteSet(Sandbox) /\ Sandbox # {} /\ IsFiniteSet(Box)
    /\ MaxActive \in Nat \ {0}
    /\ Preserve \in BOOLEAN /\ Named \in BOOLEAN /\ CacheMiss \in BOOLEAN
    /\ Sweeps \subseteq {"idle", "reconcile", "orphan"}
    /\ MaxRequests \in Nat /\ MaxAbandons \in Nat /\ MaxFaults \in Nat

VARIABLES
    row,      \* row[s]: status and external_id in the database
    idle,     \* rows whose last_activity_at is past the idle timeout
    aged,     \* rows whose updated_at is past the STARTING TTL
    box,      \* box[b]: a container and the sandbox it is labelled with
    task,     \* task[t]: an operation under way
    lock,     \* lock[s]: who holds sandbox:lifecycle:s
    count     \* requests, abandoned operations and faults so far

dbVars == <<row, idle, aged>>
vars == <<dbVars, box, task, lock, count>>

-----------------------------------------------------------------------------
(* Rows and the session's objects *)

SandboxStatus == {"pending", "starting", "running", "stopping", "stopped", "error"}
Row == [status : SandboxStatus, ext : Box \cup {NoBox}]
BlankRow == [status |-> "pending", ext |-> NoBox]

OrphanAction == [act : {"remove", "stop", "set_stopped"}, b : Box \cup {NoBox}]

TaskState ==
    [kind   : {"none", "ensure", "stop", "idle", "reconcile", "orphan"},
     pc     : {"free", "listing", "want", "start", "up", "ready", "stop", "force", "recreate"},
     s      : Sandbox,
     loaded : BOOLEAN,              \* the session holds the object since before the lock
     seen   : Row,                  \* the object's attributes
     rt     : Box \cup {NoBox},     \* external_id of the runtime object
     reused : BOOLEAN,              \* up() took over an existing container
     todo   : Seq(OrphanAction)]

FreeTask == [kind |-> "none", pc |-> "free", s |-> CHOOSE s \in Sandbox : TRUE,
             loaded |-> FALSE, seen |-> BlankRow, rt |-> NoBox, reused |-> FALSE,
             todo |-> <<>>]

\* Committing an object that was seen as old and is now new.
Committed(r, old, new) ==
    [f \in {"status", "ext"} |-> IF new[f] # old[f] THEN new[f] ELSE r[f]]

Commit(s, old, new) ==
    /\ row' = [row EXCEPT ![s] = Committed(@, old, new)]
    /\ idle' = IF new.status = "running" THEN idle \ {s} ELSE idle
    /\ aged' = IF new # old THEN aged \ {s} ELSE aged

\* A row read under the lock: the session's object if it has one.
Read(t) == IF task[t].loaded THEN task[t].seen ELSE row[task[t].s]

\* _clear_runtime_connection_state
Cleared(r) == IF Preserve THEN r ELSE [r EXCEPT !.ext = NoBox]

-----------------------------------------------------------------------------
(* Containers *)

Running(b) == b # NoBox /\ box[b].state = "running"
Exists(b) == b # NoBox /\ box[b].state # "none"
BoxesOf(s) == {b \in Box : box[b].state # "none" /\ box[b].of = s}

Stopped_Removes(b) == IF Running(b) THEN [box EXCEPT ![b].state = "none"] ELSE box
Stopped(b) == IF Running(b)
              THEN [box EXCEPT ![b].state = IF Preserve THEN "exited" ELSE "none"]
              ELSE box
Removed(b) == IF Exists(b) THEN [box EXCEPT ![b].state = "none"] ELSE box

\* An id nothing refers to any more.
Unused(b) == /\ box[b].state = "none"
             /\ \A s \in Sandbox : row[s].ext # b
             /\ \A t \in Task : /\ task[t].seen.ext # b /\ task[t].rt # b
                                /\ \A i \in DOMAIN task[t].todo : task[t].todo[i].b # b

\* _find_reusable_container
Reusable(s, rt) == IF Named THEN BoxesOf(s)
                   ELSE IF Preserve /\ Exists(rt) THEN {rt} ELSE {}

Fault == count.faults < MaxFaults /\ count' = [count EXCEPT !.faults = @ + 1]

-----------------------------------------------------------------------------
Init ==
    /\ row = [s \in Sandbox |-> BlankRow]
    /\ idle = {}
    /\ aged = {}
    /\ box = [b \in Box |-> [state |-> "none", of |-> CHOOSE s \in Sandbox : TRUE]]
    /\ task = [t \in Task |-> FreeTask]
    /\ lock = [s \in Sandbox |-> NoTask]
    /\ count = [requests |-> 0, abandons |-> 0, faults |-> 0]

\* The operation is over and the lock free; a sweep goes on with its next action.
Finished(t, seen) ==
    IF Len(task[t].todo) > 1
    THEN [task[t] EXCEPT !.pc = "want", !.seen = seen, !.todo = Tail(@)]
    ELSE FreeTask
Finish(t, seen) ==
    /\ task' = [task EXCEPT ![t] = Finished(t, seen)]
    /\ lock' = [lock EXCEPT ![task[t].s] = NoTask]

Goto(t, pc, seen) == task' = [task EXCEPT ![t].pc = pc, ![t].seen = seen]

(* Who wants what: requests, and sweepers with the rows they selected *)

Begin(t, kind, s, loaded) ==
    /\ task[t].pc = "free"
    /\ task' = [task EXCEPT ![t] =
          [FreeTask EXCEPT !.kind = kind, !.pc = "want", !.s = s, !.loaded = loaded,
                           !.seen = IF loaded THEN row[s] ELSE BlankRow]]
    /\ UNCHANGED <<dbVars, box, lock>>

Requested == /\ count.requests < MaxRequests
             /\ count' = [count EXCEPT !.requests = @ + 1]

\* ensure_running_for_user: the pair is cached, or the row is loaded.
WantRunning(t, s) == /\ Requested
                     /\ \E loaded \in {FALSE, CacheMiss} : Begin(t, "ensure", s, loaded)

\* The stop route has loaded the row.
WantStop(t, s) == /\ Requested
                  /\ row[s].status \notin {"stopped", "pending"}
                  /\ Begin(t, "stop", s, TRUE)

\* stop_idle_sandboxes and reconcile_stale_starting select rows.
SelectIdle(s) == /\ "idle" \in Sweeps
                 /\ row[s].status = "running" /\ s \in idle
                 /\ Begin(IdleSweeper, "idle", s, TRUE)
                 /\ UNCHANGED count
StaleStarting_Unbound(s) == row[s].status = "starting" /\ s \in aged /\ row[s].ext = NoBox
StaleStarting(s) == row[s].status = "starting" /\ s \in aged
SelectStale(s) == /\ "reconcile" \in Sweeps
                  /\ StaleStarting(s)
                  /\ Begin(IdleSweeper, "reconcile", s, TRUE)
                  /\ UNCHANGED count

\* cleanup_orphans_for_provider_type: first the rows ...
SelectRows(s) ==
    /\ "orphan" \in Sweeps
    /\ task[OrphanSweeper].pc = "free"
    /\ task' = [task EXCEPT ![OrphanSweeper] =
          [FreeTask EXCEPT !.kind = "orphan", !.pc = "listing", !.s = s,
                           !.loaded = TRUE, !.seen = row[s]]]
    /\ UNCHANGED <<dbVars, box, lock, count>>

\* ... then the containers, from which the runtime class plans its actions.
Plan(act, b) == <<[act |-> act, b |-> b]>>
UnboundPlans_None(found, r) == {<<>>}
UnboundPlans(found, r) ==
    {[i \in DOMAIN q |-> [act |-> "remove", b |-> q[i]]] : q \in SetToSeqs(found \ {r.ext})}
BoundPlan(found, r) ==
    CASE r.ext \in found /\ ~Running(r.ext) -> Plan("set_stopped", NoBox)
      [] r.ext \in found /\ Running(r.ext) /\ r.status \in {"pending", "stopped", "error"}
            -> Plan("stop", NoBox) \o Plan("set_stopped", NoBox)
      [] r.ext \notin found /\ r.status \in {"running", "starting"}
            -> Plan("set_stopped", NoBox)
      [] OTHER -> <<>>

ListBoxes ==
    LET t == OrphanSweeper
        found == BoxesOf(task[t].s)
    IN  /\ task[t].pc = "listing"
        /\ \E p \in UnboundPlans(found, task[t].seen) :
              LET todo == p \o BoundPlan(found, task[t].seen)
              IN  task' = [task EXCEPT ![t] =
                     IF todo = <<>> THEN FreeTask ELSE [@ EXCEPT !.pc = "want", !.todo = todo]]
        /\ UNCHANGED <<dbVars, box, lock, count>>

-----------------------------------------------------------------------------
(* Under the lifecycle lock *)

Locks_Unchecked(t) == task[t].pc = "want"
Locks(t) == /\ task[t].pc = "want"
            /\ lock[task[t].s] = NoTask

\* The operation is over as soon as it has begun.
Through(t, seen) == task' = [task EXCEPT ![t] = Finished(t, seen)] /\ UNCHANGED lock

\* The lock is taken and the object is r.
Under(t, r, pc) ==
    /\ task' = [task EXCEPT ![t].pc = pc, ![t].seen = r]
    /\ lock' = [lock EXCEPT ![task[t].s] = t]

\* _stop_runtime_for_sandbox up to the runtime's stop, which is forced for ensure and
\* for the orphan sweeper, and has the same fallback for a row in transition or ERROR.
Forced(t, r) == \/ task[t].kind \in {"ensure", "orphan"}
                \/ r.status \in {"starting", "stopping", "error"}
StopBegins(t, r) ==
    LET s == task[t].s
        stopping == [r EXCEPT !.status = "stopping"]
    IN  /\ Commit(s, r, stopping)
        /\ task' = [task EXCEPT ![t].pc = IF Forced(t, r) THEN "force" ELSE "stop",
                  ![t].seen = IF r = stopping THEN r ELSE Committed(row[s], r, stopping)]
        /\ lock' = [lock EXCEPT ![s] = t]

\* _ensure: a running sandbox that is up is used ...
EnsureReuses(t) ==
    /\ Locks(t) /\ task[t].kind = "ensure"
    /\ Read(t).status = "running" /\ Running(Read(t).ext)
    /\ Through(t, Read(t))
    /\ idle' = idle \ {task[t].s}
    /\ UNCHANGED <<row, aged, box, count>>

\* ... or recreated, when cold settings were edited meanwhile ...
EnsureRecreates(t) ==
    LET s == task[t].s
        stopping == [Read(t) EXCEPT !.status = "stopping"]
    IN  /\ Locks(t) /\ task[t].kind = "ensure"
        /\ Read(t).status = "running" /\ Running(Read(t).ext)
        /\ Commit(s, Read(t), stopping)
        /\ task' = [task EXCEPT ![t].pc = "recreate", ![t].rt = Read(t).ext,
                                ![t].seen = Committed(row[s], Read(t), stopping)]
        /\ lock' = [lock EXCEPT ![s] = t]
        /\ UNCHANGED <<box, count>>

\* ... one that does not respond is stopped by force first, and others started.
EnsureRestarts(t) ==
    /\ Locks(t) /\ task[t].kind = "ensure"
    /\ Read(t).status = "running"
    /\ Fault \/ (~Running(Read(t).ext) /\ UNCHANGED count)
    /\ StopBegins(t, Read(t))
    /\ UNCHANGED box

EnsureStarts(t) ==
    /\ Locks(t) /\ task[t].kind = "ensure"
    /\ Read(t).status # "running"
    /\ Under(t, Read(t), "start")
    /\ UNCHANGED <<dbVars, box, count>>

\* stop(), for the stop route and the idle sweeper.
Stops(t) ==
    /\ Locks(t) /\ task[t].kind \in {"stop", "idle"}
    /\ IF Read(t).status \in {"stopped", "pending"}
       THEN Through(t, Read(t)) /\ UNCHANGED dbVars
       ELSE StopBegins(t, Read(t))
    /\ UNCHANGED <<box, count>>

\* _reconcile_stale_starting_unlocked; a failing probe counts as down.
Reconciles(t) ==
    LET s == task[t].s
        r == Read(t)
    IN  /\ Locks(t) /\ task[t].kind = "reconcile"
        /\ Through(t, r)
        /\ \/ /\ r.status # "starting"
              /\ UNCHANGED <<dbVars, box, count>>
           \/ /\ r.status = "starting" /\ Running(r.ext)
              /\ Commit(s, r, [r EXCEPT !.status = "running"])
              /\ UNCHANGED <<box, count>>
           \/ /\ r.status = "starting"
              /\ Fault \/ (~Running(r.ext) /\ UNCHANGED count)
              /\ box' \in {box, Stopped(r.ext)}
              /\ Commit(s, r, [Cleared(r) EXCEPT !.status = "stopped"])

\* _apply_orphan_action_unlocked
OrphanActs(t) ==
    LET s == task[t].s
        r == Read(t)
        stopped == [Cleared(r) EXCEPT !.status = "stopped"]
        action == Head(task[t].todo)
    IN  /\ Locks(t) /\ task[t].kind = "orphan"
        /\ \/ /\ action.act = "remove"
              /\ box' = Removed(action.b)
              /\ Through(t, r)
              /\ UNCHANGED dbVars
           \/ /\ action.act = "set_stopped"
              /\ Commit(s, r, stopped)
              /\ Through(t, Committed(row[s], r, stopped))
              /\ UNCHANGED box
           \/ /\ action.act = "stop"
              /\ StopBegins(t, r)
              /\ UNCHANGED box
        /\ UNCHANGED count

\* _reserve_capacity_and_mark_starting; the runtime object was built before it.
Active_RunningOnly == {s \in Sandbox : row[s].status = "running"}
Active == {s \in Sandbox : row[s].status \in {"running", "starting"}}
Reserve(t) ==
    LET s == task[t].s
        r == task[t].seen
        starting == [r EXCEPT !.status = "starting"]
    IN  /\ task[t].pc = "start"
        /\ IF Cardinality(Active) >= MaxActive
           THEN /\ Finish(t, r)
                /\ UNCHANGED dbVars
           ELSE /\ Commit(s, r, starting)
                /\ task' = [task EXCEPT ![t].pc = "up", ![t].rt = r.ext,
                                        ![t].seen = Committed(row[s], r, starting)]
                /\ UNCHANGED lock
        /\ UNCHANGED <<box, count>>

\* containers.run, and the wait for the API of the sandbox begins.
Creates(t, b) ==
    /\ Unused(b)
    /\ task' = [task EXCEPT ![t].pc = "ready", ![t].rt = b, ![t].reused = FALSE]

Created(b, s) == [state |-> "running", of |-> s]

\* up() takes over a container it can reuse, or creates one.
Up(t) ==
    LET s == task[t].s
        reusable == Reusable(s, task[t].rt)
    IN  /\ task[t].pc = "up"
        /\ \/ \E b \in reusable :
                 /\ box' = [box EXCEPT ![b].state = "running"]
                 /\ task' = [task EXCEPT ![t].pc = "ready", ![t].rt = b, ![t].reused = TRUE]
           \/ /\ reusable = {}
              /\ \E b \in Box : Creates(t, b) /\ box' = [box EXCEPT ![b] = Created(b, s)]
        /\ UNCHANGED <<dbVars, lock, count>>

\* A reused container that is not ready is replaced.
Replaces(t) ==
    /\ task[t].pc = "ready" /\ task[t].reused
    /\ Fault
    /\ \E b \in Box : /\ Creates(t, b)
                      /\ box' = [Removed(task[t].rt) EXCEPT ![b] = Created(b, task[t].s)]
    /\ UNCHANGED <<dbVars, lock>>

\* The connection settings are saved with the status.
Bound_StatusOnly(r, b) == [r EXCEPT !.status = "running"]
Bound(r, b) == [r EXCEPT !.status = "running", !.ext = b]
Ready(t) ==
    LET r == task[t].seen
    IN  /\ task[t].pc = "ready"
        /\ Running(task[t].rt)
        /\ Commit(task[t].s, r, Bound(r, task[t].rt))
        /\ Finish(t, r)
        /\ UNCHANGED <<box, count>>

\* up() fails: best-effort cleanup, ERROR.
StartFails(t) ==
    LET r == task[t].seen
    IN  /\ task[t].pc \in {"up", "ready"}
        /\ Fault \/ (task[t].pc = "ready" /\ ~Running(task[t].rt) /\ UNCHANGED count)
        /\ box' \in {box, Stopped(task[t].rt)}
        /\ Commit(task[t].s, r, [r EXCEPT !.status = "error"])
        /\ Finish(t, r)

\* _recreate_unlocked: the container goes for good, unless Docker fails, which only a
\* warning tells; its id is cleared in any case, then a fresh start.
Recreate(t) ==
    LET s == task[t].s
        r == task[t].seen
        stopped == [status |-> "stopped", ext |-> NoBox]
    IN  /\ task[t].pc = "recreate"
        /\ \/ box' = Removed(r.ext) /\ UNCHANGED count
           \/ box' \in {box, Stopped(r.ext)} /\ Fault
        /\ Commit(s, r, stopped)
        /\ Goto(t, "start", Committed(row[s], r, stopped))
        /\ UNCHANGED lock

\* The runtime is stopped; ensure goes on to start it.
AfterStop(t, seen) == IF task[t].kind = "ensure"
                      THEN Goto(t, "start", seen) /\ UNCHANGED lock
                      ELSE Finish(t, seen)
StopSucceeds(t) ==
    LET s == task[t].s
        r == task[t].seen
        stopped == [Cleared(r) EXCEPT !.status = "stopped"]
    IN  /\ task[t].pc \in {"stop", "force"}
        /\ \/ box' = Stopped(r.ext) /\ UNCHANGED count
           \* _handle_forced_stop_fallback: nothing could be stopped, and is_up answers
           \* no because Docker does not say.
           \/ task[t].pc = "force" /\ Fault /\ UNCHANGED box
        /\ Commit(s, r, stopped)
        /\ AfterStop(t, Committed(row[s], r, stopped))

\* Docker raises.  A forced stop tries again and looks whether the container is down
\* (StopSucceeds); if it is not, or the probe raises, the sandbox is in ERROR.
StopFails(t) ==
    LET r == task[t].seen
    IN  /\ task[t].pc \in {"stop", "force"}
        /\ Fault
        /\ Commit(task[t].s, r, [r EXCEPT !.status = "error"])
        /\ Finish(t, [r EXCEPT !.status = "error"])
        /\ UNCHANGED box

\* The operation is cut short where it awaits: the lock's time limit, a cancelled
\* request, the death of the process (then the lock is free when it expires).  A
\* sweep may go on with its next action.
Abandon(t) ==
    /\ task[t].pc # "free"
    /\ count.abandons < MaxAbandons
    /\ count' = [count EXCEPT !.abandons = @ + 1]
    /\ lock' = IF task[t].pc \in {"want", "listing"} THEN lock
               ELSE [lock EXCEPT ![task[t].s] = NoTask]
    /\ task' \in {[task EXCEPT ![t] = FreeTask], [task EXCEPT ![t] = Finished(t, @.seen)]}
    /\ UNCHANGED <<dbVars, box>>

-----------------------------------------------------------------------------
(* Time, use and misfortune *)

\* get_runtime touches a running sandbox.
Use(s) == /\ row[s].status = "running" /\ s \in idle
          /\ idle' = idle \ {s}
          /\ UNCHANGED <<row, aged, box, task, lock, count>>

GetsIdle(s) == /\ row[s].status = "running" /\ s \notin idle
               /\ idle' = idle \cup {s}
               /\ UNCHANGED <<row, aged, box, task, lock, count>>

\* The TTL is longer than any operation may hold the lock.
Ages(s) == /\ row[s].status = "starting" /\ s \notin aged /\ lock[s] = NoTask
           /\ aged' = aged \cup {s}
           /\ UNCHANGED <<row, idle, box, task, lock, count>>

BoxDies(b) == /\ Running(b)
              /\ Fault
              /\ box' = Stopped(b)
              /\ UNCHANGED <<dbVars, task, lock>>

Ask(t, s) == WantRunning(t, s) \/ WantStop(t, s)
Sweep(s) == SelectIdle(s) \/ SelectStale(s) \/ SelectRows(s)
Enter(t) == \/ EnsureReuses(t) \/ EnsureRecreates(t) \/ EnsureRestarts(t) \/ EnsureStarts(t)
            \/ Stops(t) \/ Reconciles(t) \/ OrphanActs(t)
Proceed(t) == \/ Reserve(t) \/ Up(t) \/ Replaces(t) \/ Ready(t) \/ StartFails(t)
              \/ Recreate(t) \/ StopSucceeds(t) \/ StopFails(t)

Next ==
    \/ \E t \in Request, s \in Sandbox : Ask(t, s)
    \/ \E s \in Sandbox : Sweep(s) \/ Use(s) \/ GetsIdle(s) \/ Ages(s)
    \/ ListBoxes
    \/ \E t \in Task : Enter(t) \/ Proceed(t) \/ Abandon(t)
    \/ \E b \in Box : BoxDies(b)

\* Sweepers come round again and again, operations that have begun go on, and time
\* passes.  Users' requests and faults are not fair.
Fairness ==
    /\ \A s \in Sandbox : WF_vars(GetsIdle(s)) /\ WF_vars(Ages(s))
    /\ \A s \in Sandbox : SF_vars(SelectIdle(s)) /\ SF_vars(SelectStale(s)) /\ SF_vars(SelectRows(s))
    /\ WF_vars(ListBoxes)
    /\ \A t \in Task : WF_vars(Enter(t)) /\ WF_vars(Proceed(t))

Spec == Init /\ [][Next]_vars
FairSpec == Spec /\ Fairness

-----------------------------------------------------------------------------
(* Properties *)

\* Types of rows, containers and operations; who holds a lock is inside.
TypeOK ==
    /\ row \in [Sandbox -> Row]
    /\ idle \subseteq Sandbox /\ aged \subseteq Sandbox
    /\ box \in [Box -> [state : {"none", "running", "exited"}, of : Sandbox]]
    /\ task \in [Task -> TaskState]
    /\ lock \in [Sandbox -> Task \cup {NoTask}]
    /\ count \in [requests : Nat, abandons : Nat, faults : Nat]
    /\ \A t \in Task : task[t].pc \in {"free", "listing", "want"}
                         <=> \A s \in Sandbox : lock[s] # t

\* The rows that count as active never exceed max_active_sandboxes, whatever is
\* started, recreated, healed and abandoned at once (the capacity reservation).
CapacityRespected == Cardinality(Active) <= MaxActive

\* A row in RUNNING names a container of its own sandbox, and no two rows name the
\* same one (status and connection settings are saved together).
RunningIsBound ==
    \A s \in Sandbox : row[s].status = "running" =>
        /\ row[s].ext # NoBox
        /\ box[row[s].ext].of = s

\* With not_remove, the container of a stopped sandbox is kept for its next start,
\* whatever was stopped, restarted, reconciled and cut short in between.
StoppedKeepsBox ==
    Preserve => \A s \in Sandbox :
        row[s].status = "stopped" /\ row[s].ext # NoBox => Exists(row[s].ext)

\* A start that was cut short does not stay in STARTING (reconcile_stale_starting).
StaleStartsHeal == \A s \in Sandbox : row[s].status = "starting" ~> row[s].status # "starting"

\* A running container that its sandbox's row does not name is removed, or becomes
\* the one it names (the orphan sweeper, or the start under way).
UnboundBoxesReaped ==
    \A b \in Box : Running(b) /\ row[box[b].of].ext # b
                      ~> ~Running(b) \/ row[box[b].of].ext = b

\* No more sandboxes are RUNNING than max_active_sandboxes.
RunningBounded == Cardinality({s \in Sandbox : row[s].status = "running"}) <= MaxActive

\* The orphan sweeper never takes the container from under a running sandbox.
SweepSparesRunning ==
    [][\A s \in Sandbox :
          task'[OrphanSweeper] # task[OrphanSweeper]
          /\ row[s].status = "running" /\ Running(row[s].ext)
             => box' = box]_vars
=============================================================================
