----------------------- MODULE SandboxLifecycleProofs -----------------------
(***************************************************************************)
(* Proofs about SandboxLifecycle for any sandboxes, containers, requests,  *)
(* limits and bounds.                                                      *)
(***************************************************************************)
EXTENDS SandboxLifecycle, FiniteSetTheorems, SequenceTheorems, TLAPS

-----------------------------------------------------------------------------
(* The invariant *)

\* An operation inside the lifecycle lock, and one that waits for it or does not run.
Inside == {"start", "up", "ready", "stop", "force", "recreate"}
Outside == {"free", "listing", "want"}

BoxState == [state : {"none", "running", "exited"}, of : Sandbox]

\* TypeOK without its last part.
LifecycleTypes ==
    /\ row \in [Sandbox -> Row]
    /\ idle \subseteq Sandbox /\ aged \subseteq Sandbox
    /\ box \in [Box -> BoxState]
    /\ task \in [Task -> TaskState]
    /\ lock \in [Sandbox -> Task \cup {NoTask}]
    /\ count \in [requests : Nat, abandons : Nat, faults : Nat]

\* The lock of a sandbox is held by the operation inside it.
LifecycleLocks ==
    \A t \in Task, s \in Sandbox : lock[s] = t <=> task[t].pc \in Inside /\ task[t].s = s

\* What an operation of a kind can be at, and what it carries there.
KindOK(t) ==
    LET x == task[t]
    IN  /\ x.pc \in {"start", "up", "ready", "recreate"} => x.kind = "ensure"
        /\ x.kind = "ensure" => ~x.loaded \/ CacheMiss
        /\ x.kind = "reconcile" => x.loaded /\ x.pc = "want" /\ "reconcile" \in Sweeps
        /\ x.kind = "orphan" => "orphan" \in Sweeps
        /\ x.kind = "orphan" /\ x.pc # "listing" => x.todo # <<>>
        /\ x.todo # <<>> => x.kind = "orphan"
        /\ x.pc = "listing" => x.kind = "orphan"
        /\ x.pc \in {"stop", "force"} => x.seen.status = "stopping"
        /\ x.pc = "up" /\ ~x.loaded => x.rt = x.seen.ext
        /\ x.pc \in {"up", "ready"} /\ ~x.loaded => x.seen.status = "starting"
        /\ x.pc = "ready" => x.rt # NoBox

\* Inside the lock, the object is the row: from the first commit on, and before it
\* when the row was not loaded before the lock.
SeesRow(x) == \/ x.pc \in {"up", "ready", "recreate"}
              \/ x.pc \in {"stop", "force"} /\ x.kind = "ensure"
              \/ x.pc = "start" /\ ~x.loaded
FreshOK(t) == SeesRow(task[t]) => task[t].seen = row[task[t].s]

\* Whatever names a container for a sandbox names one of that sandbox.
Of(b, s) == b # NoBox => box[b].of = s
OwnedOK(t) == Of(task[t].seen.ext, task[t].s) /\ Of(task[t].rt, task[t].s)

\* Where containers have names, a sandbox has one, and a start waits for that one.
OneBox(s) == \A b, c \in BoxesOf(s) : b = c
NamedOK(t) == task[t].pc = "ready" => BoxesOf(task[t].s) \subseteq {task[t].rt}

\* Where containers survive their stop, rows are read anew and Docker does not fail: a start that waits took
\* over the row's container if there was one ...
ReusesOK(t) ==
    task[t].pc = "ready" /\ Exists(row[task[t].s].ext) => task[t].rt = row[task[t].s].ext
\* ... so a container a sweeper has seen is still the row's, or is gone.
StaleOK(t) ==
    task[t].kind = "reconcile" /\ Exists(task[t].seen.ext)
        => row[task[t].s].ext = task[t].seen.ext
KeptIds == Preserve /\ ~CacheMiss /\ MaxFaults = 0

\* Under which settings a running row keeps its id, and no container of a row is lost.
BindsIds == KeptIds \/ ("reconcile" \notin Sweeps /\ (Preserve \/ "orphan" \notin Sweeps))
KeepsBoxes == Preserve /\ MaxFaults = 0 /\ "orphan" \notin Sweeps

LifecycleInv ==
    /\ LifecycleTypes
    /\ LifecycleLocks
    /\ \A t \in Task : KindOK(t) /\ FreshOK(t) /\ OwnedOK(t)
    /\ \A s \in Sandbox : Of(row[s].ext, s)
    /\ Named => /\ \A s \in Sandbox : OneBox(s)
                /\ \A t \in Task : NamedOK(t)
    /\ KeptIds => \A t \in Task : ReusesOK(t) /\ StaleOK(t)
    /\ BindsIds => \A s \in Sandbox : row[s].status = "running" => row[s].ext # NoBox
    /\ KeepsBoxes => \A s \in Sandbox : row[s].ext # NoBox => Exists(row[s].ext)

-----------------------------------------------------------------------------
(* Values *)

\* A commit writes the attributes that were changed.
LEMMA CommittedIs ==
    ASSUME NEW r \in Row, NEW old \in Row, NEW new \in Row
    PROVE  /\ Committed(r, old, new) \in Row
           /\ Committed(r, old, new).status = IF new.status # old.status THEN new.status ELSE r.status
           /\ Committed(r, old, new).ext = IF new.ext # old.ext THEN new.ext ELSE r.ext
<1> DEFINE f == Committed(r, old, new)
<1>1. /\ f = [a \in {"status", "ext"} |-> IF new[a] # old[a] THEN new[a] ELSE r[a]]
  BY DEF Committed
<1>2. /\ f["status"] = IF new.status # old.status THEN new.status ELSE r.status
      /\ f["ext"] = IF new.ext # old.ext THEN new.ext ELSE r.ext
  BY <1>1
<1>3. f = [status |-> f["status"], ext |-> f["ext"]]
  BY <1>1
<1>4. f["status"] \in SandboxStatus /\ f["ext"] \in Box \cup {NoBox}
  BY <1>2 DEF Row
<1> HIDE DEF f
<1> QED
  BY <1>2, <1>3, <1>4 DEF Row, f

\* What was seen as it is becomes what it is made.
LEMMA CommittedFresh ==
    ASSUME NEW r \in Row, NEW new \in Row
    PROVE  Committed(r, r, new) = new
<1>1. /\ Committed(r, r, new) \in Row
      /\ Committed(r, r, new).status = new.status
      /\ Committed(r, r, new).ext = new.ext
  BY CommittedIs
<1> QED
  BY <1>1 DEF Row

\* Changed rows.
LEMMA RowValues ==
    ASSUME NEW r \in Row
    PROVE  /\ BlankRow \in Row /\ BlankRow.ext = NoBox
           /\ \A st \in SandboxStatus : /\ [r EXCEPT !.status = st] \in Row
                                        /\ [r EXCEPT !.status = st].status = st
                                        /\ [r EXCEPT !.status = st].ext = r.ext
           /\ Cleared(r) \in Row /\ Cleared(r).status = r.status
           /\ Cleared(r).ext = IF Preserve THEN r.ext ELSE NoBox
           /\ [status |-> "stopped", ext |-> NoBox] \in Row
BY DEF Row, BlankRow, SandboxStatus, Cleared

\* A task at rest.
LEMMA FreeTaskIs ==
    /\ FreeTask \in TaskState
    /\ FreeTask.kind = "none" /\ FreeTask.pc = "free" /\ FreeTask.rt = NoBox
    /\ FreeTask.seen.ext = NoBox /\ FreeTask.todo = <<>>
<1>1. (CHOOSE s \in Sandbox : TRUE) \in Sandbox
  BY LifecycleAssumption
<1>2. <<>> \in Seq(OrphanAction)
  BY EmptySeq
<1>3. BlankRow \in Row /\ BlankRow.ext = NoBox
  BY DEF BlankRow, Row, SandboxStatus
<1> QED
  BY <1>1, <1>2, <1>3 DEF FreeTask, TaskState

\* An operation that ends leaves a task at rest, or a sweep with its next action.
LEMMA FinishedIs ==
    ASSUME LifecycleInv, NEW t \in Task, NEW seen \in Row
    PROVE  LET n == Finished(t, seen)
           IN  /\ n \in TaskState
               /\ \/ n = FreeTask
                  \/ /\ n.kind = "orphan" /\ "orphan" \in Sweeps /\ n.pc = "want"
                     /\ n.s = task[t].s /\ n.seen = seen /\ n.rt = task[t].rt /\ n.todo # <<>>
<1>1. task[t] \in TaskState /\ KindOK(t)
  BY DEF LifecycleInv, LifecycleTypes
<1>2. CASE Len(task[t].todo) > 1
  <2> DEFINE n == [task[t] EXCEPT !.pc = "want", !.seen = seen, !.todo = Tail(@)]
  <2>1. Finished(t, seen) = n
    BY <1>2 DEF Finished
  <2>2. task[t].todo \in Seq(OrphanAction) /\ task[t].todo # <<>>
    BY <1>1, <1>2, EmptySeq DEF TaskState
  <2>3. /\ Tail(task[t].todo) \in Seq(OrphanAction)
        /\ Len(Tail(task[t].todo)) = Len(task[t].todo) - 1
    BY <2>2, HeadTailProperties
  <2>4. Tail(task[t].todo) # <<>>
    BY <1>2, <2>2, <2>3, EmptySeq, LenProperties
  <2>5. n \in TaskState /\ n.kind = task[t].kind /\ n.pc = "want" /\ n.s = task[t].s
        /\ n.seen = seen /\ n.rt = task[t].rt /\ n.todo = Tail(task[t].todo)
    BY <1>1, <2>3 DEF TaskState
  <2>6. task[t].kind = "orphan" /\ "orphan" \in Sweeps
    BY <1>1, <2>2 DEF KindOK
  <2> HIDE DEF n
  <2> QED
    BY <2>1, <2>4, <2>5, <2>6
<1>3. CASE ~(Len(task[t].todo) > 1)
  BY <1>3, FreeTaskIs DEF Finished
<1> QED
  BY <1>2, <1>3

-----------------------------------------------------------------------------
(* A step of one operation under the lock of its sandbox *)

\* Only operation t changes, only the row of s does, and the rest keeps its type.
OnlyTask(t) == task' \in [Task -> TaskState] /\ \A u \in Task \ {t} : task'[u] = task[u]
OnlyRow(s) == row' \in [Sandbox -> Row] /\ \A z \in Sandbox \ {s} : row'[z] = row[z]
RestTyped == /\ idle' \subseteq Sandbox /\ aged' \subseteq Sandbox
             /\ box' \in [Box -> BoxState]
             /\ count' \in [requests : Nat, abandons : Nat, faults : Nat]

\* The lock of s is free or t's, and t's afterwards iff t is inside then.
LockFollows(t, s) ==
    /\ lock[s] \in {NoTask, t}
    /\ lock' = [lock EXCEPT ![s] = IF task'[t].pc \in Inside THEN t ELSE NoTask]
    /\ task'[t].pc \in Inside => task'[t].s = s

\* Containers stay with their sandbox and do not come back; a new one is for s.
BoxesFor(s) == \A b \in Box : \/ box'[b].of = box[b].of /\ (Exists(b)' => Exists(b))
                              \/ Unused(b) /\ box'[b].of = s

LockedBy(t, s) ==
    s = task[t].s /\ OnlyTask(t) /\ OnlyRow(s) /\ RestTyped /\ LockFollows(t, s) /\ BoxesFor(s)

\* No other operation is inside for s.
LEMMA AloneInside ==
    ASSUME LifecycleInv, NEW t \in Task, NEW s \in Sandbox, LockedBy(t, s),
           NEW u \in Task \ {t}, task[u].pc \in Inside
    PROVE  task[u].s # s /\ task[u].s \in Sandbox
<1>1. task[u] \in TaskState /\ u # NoTask
  BY LifecycleAssumption DEF LifecycleInv, LifecycleTypes
<1>2. lock[task[u].s] = u
  BY <1>1 DEF LifecycleInv, LifecycleLocks, TaskState
<1> QED
  BY <1>1, <1>2 DEF LockedBy, LockFollows, TaskState

\* A container that is referred to stays with its sandbox and does not come back.
LEMMA ReferredStays ==
    ASSUME LifecycleInv, NEW s \in Sandbox, BoxesFor(s), NEW b \in Box,
           \/ \E z \in Sandbox : row[z].ext = b
           \/ \E u \in Task : task[u].seen.ext = b \/ task[u].rt = b
    PROVE  box'[b].of = box[b].of /\ (Exists(b)' => Exists(b))
BY DEF BoxesFor, Unused

\* Types, locks and what operations carry.
LEMMA LockedCore ==
    ASSUME LifecycleInv, NEW t \in Task, NEW s \in Sandbox, LockedBy(t, s),
           KindOK(t)', FreshOK(t)'
    PROVE  LifecycleTypes' /\ LifecycleLocks' /\ \A u \in Task : KindOK(u)' /\ FreshOK(u)'
<1>1. LifecycleTypes'
  BY DEF LifecycleInv, LifecycleTypes, LockedBy, OnlyTask, OnlyRow, RestTyped, LockFollows
<1>2. LifecycleLocks'
  <2> SUFFICES ASSUME NEW u \in Task, NEW z \in Sandbox
               PROVE  lock'[z] = u <=> task'[u].pc \in Inside /\ task'[u].s = z
    BY DEF LifecycleLocks
  <2>1. /\ lock[s] \in {NoTask, t} /\ lock \in [Sandbox -> Task \cup {NoTask}] /\ t # NoTask
        /\ u # NoTask
        /\ lock' = [lock EXCEPT ![s] = IF task'[t].pc \in Inside THEN t ELSE NoTask]
        /\ task'[t].pc \in Inside => task'[t].s = s
        /\ lock[z] = u <=> task[u].pc \in Inside /\ task[u].s = z
    BY LifecycleAssumption DEF LockedBy, LockFollows, LifecycleInv, LifecycleTypes, LifecycleLocks
  <2>2. CASE u # t
    <3>1. task'[u] = task[u]
      BY <2>2 DEF LockedBy, OnlyTask
    <3> QED
      BY <2>1, <2>2, <3>1
  <2>3. CASE u = t
    <3>1. z # s => lock'[z] = lock[z]
      BY <2>1
    <3>2. lock[z] = t => z = s
      BY <2>1, <2>3 DEF LockedBy
    <3> QED
      BY <2>1, <2>3, <3>1, <3>2
  <2> QED
    BY <2>2, <2>3
<1>3. ASSUME NEW u \in Task \ {t}
      PROVE  KindOK(u)' /\ FreshOK(u)'
  <2>1. task'[u] = task[u] /\ KindOK(u) /\ FreshOK(u)
    BY DEF LockedBy, OnlyTask, LifecycleInv
  <2>2. KindOK(u)'
    BY <2>1 DEF KindOK
  <2>3. ASSUME SeesRow(task[u])
        PROVE  row'[task[u].s] = row[task[u].s]
    <3>1. task[u].pc \in Inside
      BY <2>3 DEF SeesRow, Inside
    <3>2. task[u].s # s /\ task[u].s \in Sandbox
      BY <3>1, AloneInside
    <3> QED
      BY <3>2 DEF LockedBy, OnlyRow
  <2>4. FreshOK(u)'
    BY <2>1, <2>3 DEF FreshOK
  <2> QED
    BY <2>2, <2>4
<1> QED
  BY <1>1, <1>2, <1>3

\* Whose containers are whose.
LEMMA LockedOwned ==
    ASSUME LifecycleInv, NEW t \in Task, NEW s \in Sandbox, LockedBy(t, s),
           OwnedOK(t)', Of(row[s].ext, s)'
    PROVE  (\A u \in Task : OwnedOK(u)') /\ \A z \in Sandbox : Of(row[z].ext, z)'
<1>1. ASSUME NEW z \in Sandbox \ {s}
      PROVE  Of(row[z].ext, z)'
  <2>1. row'[z] = row[z] /\ row[z] \in Row /\ Of(row[z].ext, z)
    BY DEF LockedBy, OnlyRow, LifecycleInv, LifecycleTypes
  <2>2. CASE row[z].ext # NoBox
    <3>1. row[z].ext \in Box
      BY <2>1, <2>2 DEF Row
    <3>2. box'[row[z].ext].of = box[row[z].ext].of
      BY <3>1, ReferredStays DEF LockedBy
    <3> QED
      BY <2>1, <2>2, <3>2 DEF Of
  <2> QED
    BY <2>1, <2>2 DEF Of
<1>2. ASSUME NEW u \in Task \ {t}
      PROVE  OwnedOK(u)'
  <2>1. task'[u] = task[u] /\ task[u] \in TaskState /\ OwnedOK(u)
    BY DEF LockedBy, OnlyTask, LifecycleInv, LifecycleTypes
  <2>2. ASSUME NEW b \in Box, b \in {task[u].seen.ext, task[u].rt}
        PROVE  box'[b].of = box[b].of
    BY <2>2, ReferredStays DEF LockedBy
  <2>3. task[u].seen.ext \in Box \cup {NoBox} /\ task[u].rt \in Box \cup {NoBox}
    BY <2>1 DEF TaskState, Row
  <2> QED
    BY <2>1, <2>2, <2>3 DEF OwnedOK, Of
<1> QED
  BY <1>1, <1>2

\* One container per name.
LEMMA LockedNamed ==
    ASSUME LifecycleInv, NEW t \in Task, NEW s \in Sandbox, LockedBy(t, s), Named,
           OneBox(s)', NamedOK(t)'
    PROVE  (\A z \in Sandbox : OneBox(z)') /\ \A u \in Task : NamedOK(u)'
<1>1. ASSUME NEW z \in Sandbox \ {s}
      PROVE  BoxesOf(z)' \subseteq BoxesOf(z)
  <2>1. \A b \in Box : Exists(b) <=> box[b].state # "none"
    BY LifecycleAssumption DEF Exists
  <2>2. \A b \in Box : Exists(b)' <=> box'[b].state # "none"
    BY LifecycleAssumption DEF Exists
  <2> QED
    BY <2>1, <2>2 DEF BoxesOf, LockedBy, BoxesFor
<1>2. ASSUME NEW z \in Sandbox \ {s}
      PROVE  OneBox(z)'
  <2>1. OneBox(z)
    BY DEF LifecycleInv
  <2> QED
    BY <1>1, <2>1 DEF OneBox
<1>3. ASSUME NEW u \in Task \ {t}
      PROVE  NamedOK(u)'
  <2>1. task'[u] = task[u] /\ NamedOK(u)
    BY DEF LockedBy, OnlyTask, LifecycleInv
  <2>2. ASSUME task[u].pc = "ready"
        PROVE  task[u].s \in Sandbox \ {s}
    BY <2>2, AloneInside DEF Inside
  <2>3. ASSUME task[u].pc = "ready"
        PROVE  BoxesOf(task[u].s)' \subseteq {task[u].rt}'
    <3>1. PICK z \in Sandbox \ {s} : z = task[u].s
      BY <2>2, <2>3
    <3>2. BoxesOf(z)' \subseteq BoxesOf(z) /\ BoxesOf(z) \subseteq {task[u].rt}
      BY <1>1, <2>1, <2>3, <3>1 DEF NamedOK
    <3>3. BoxesOf(task[u].s)' = BoxesOf(z)'
      BY <2>1, <3>1 DEF BoxesOf
    <3> QED
      BY <2>1, <3>2, <3>3
  <2> QED
    BY <2>1, <2>3 DEF NamedOK
<1> QED
  BY <1>2, <1>3

\* What a start took over, and what a sweeper has seen: the row of s may change its id
\* only when the container it named is gone.
LEMMA LockedKept ==
    ASSUME LifecycleInv, NEW t \in Task, NEW s \in Sandbox, LockedBy(t, s), KeptIds,
           ReusesOK(t)', StaleOK(t)',
           \A b \in Box : row[s].ext = b /\ Exists(b)' => row'[s].ext = b
    PROVE  \A u \in Task : ReusesOK(u)' /\ StaleOK(u)'
<1> SUFFICES ASSUME NEW u \in Task \ {t}
             PROVE  ReusesOK(u)' /\ StaleOK(u)'
  OBVIOUS
<1>1. /\ task'[u] = task[u] /\ task[u] \in TaskState /\ task[u].s \in Sandbox
      /\ ReusesOK(u) /\ StaleOK(u)
  BY DEF LockedBy, OnlyTask, LifecycleInv, LifecycleTypes, TaskState
<1>2. \A z \in Sandbox : row[z] \in Row /\ row'[z] \in Row
  BY DEF LockedBy, OnlyRow, LifecycleInv, LifecycleTypes
<1>3. ASSUME task[u].pc = "ready", Exists(row[task[u].s].ext)'
      PROVE  task[u].rt = row'[task[u].s].ext
  <2>1. PICK z \in Sandbox \ {s} : z = task[u].s
    BY <1>1, <1>3, AloneInside DEF Inside
  <2>2. row'[z] = row[z]
    BY DEF LockedBy, OnlyRow
  <2>3. PICK b \in Box : b = row[z].ext
    BY <1>1, <1>2, <1>3, <2>1, <2>2 DEF Exists, Row
  <2>4. Exists(b)'
    BY <1>1, <1>3, <2>1, <2>2, <2>3
  <2>5. Exists(b)
    BY <2>3, <2>4, ReferredStays DEF LockedBy
  <2> QED
    BY <1>1, <1>3, <2>1, <2>2, <2>3, <2>5 DEF ReusesOK
<1>4. ASSUME task[u].kind = "reconcile", Exists(task[u].seen.ext)'
      PROVE  row'[task[u].s].ext = task[u].seen.ext
  <2>1. PICK z \in Sandbox : z = task[u].s
    BY <1>1
  <2>2. PICK b \in Box : b = task[u].seen.ext
    BY <1>1, <1>4 DEF Exists, TaskState, Row
  <2>3. Exists(b)'
    BY <1>1, <1>4, <2>2
  <2>4. Exists(b)
    BY <2>2, <2>3, ReferredStays DEF LockedBy
  <2>5. row[z].ext = b
    BY <1>1, <1>4, <2>1, <2>2, <2>4 DEF StaleOK
  <2>6. row'[z].ext = b
    BY <2>3, <2>5 DEF LockedBy, OnlyRow
  <2> QED
    BY <2>1, <2>2, <2>6
<1>5. ReusesOK(u)'
  BY <1>1, <1>3 DEF ReusesOK
<1>6. StaleOK(u)'
  BY <1>1, <1>4 DEF StaleOK
<1> QED
  BY <1>5, <1>6

\* No row loses its container: the operation takes away its own sandbox's at most.
LEMMA LockedKeeps ==
    ASSUME LifecycleInv, KeepsBoxes, NEW s \in Sandbox, OnlyRow(s), BoxesFor(s),
           row'[s].ext # NoBox => Exists(row[s].ext)',
           \A b \in Box : Exists(b) /\ ~Exists(b)' => box[b].of = s
    PROVE  \A z \in Sandbox : row'[z].ext # NoBox => Exists(row[z].ext)'
<1> SUFFICES ASSUME NEW z \in Sandbox \ {s}, row'[z].ext # NoBox
             PROVE  Exists(row[z].ext)'
  OBVIOUS
<1>1. row'[z] = row[z] /\ row[z] \in Row
  BY DEF OnlyRow, LifecycleInv, LifecycleTypes
<1>2. PICK b \in Box : b = row[z].ext
  BY <1>1 DEF Row
<1>3. Exists(b) /\ box[b].of = z
  BY <1>1, <1>2 DEF LifecycleInv, Of
<1>4. Exists(b)'
  BY <1>3
<1> QED
  BY <1>1, <1>2, <1>4

\* The step as a whole.
LEMMA LockedStep ==
    ASSUME LifecycleInv, NEW t \in Task, NEW s \in Sandbox, LockedBy(t, s),
           KindOK(t)', FreshOK(t)', OwnedOK(t)', Of(row[s].ext, s)',
           Named => OneBox(s)' /\ NamedOK(t)',
           KeptIds => /\ ReusesOK(t)' /\ StaleOK(t)'
                      /\ \A b \in Box : row[s].ext = b /\ Exists(b)' => row'[s].ext = b,
           BindsIds => (row'[s].status = "running" => row'[s].ext # NoBox),
           KeepsBoxes => /\ row'[s].ext # NoBox => Exists(row[s].ext)'
                         /\ \A b \in Box : Exists(b) /\ ~Exists(b)' => box[b].of = s
    PROVE  LifecycleInv'
<1>1. LifecycleTypes' /\ LifecycleLocks' /\ \A u \in Task : KindOK(u)' /\ FreshOK(u)'
  BY LockedCore
<1>2. (\A u \in Task : OwnedOK(u)') /\ \A z \in Sandbox : Of(row[z].ext, z)'
  BY LockedOwned
<1>3. Named => (\A z \in Sandbox : OneBox(z)') /\ \A u \in Task : NamedOK(u)'
  BY LockedNamed
<1>4. KeptIds => \A u \in Task : ReusesOK(u)' /\ StaleOK(u)'
  BY LockedKept
<1>5. BindsIds => \A z \in Sandbox : row'[z].status = "running" => row'[z].ext # NoBox
  BY DEF LifecycleInv, LockedBy, OnlyRow
<1>6. KeepsBoxes => \A z \in Sandbox : row'[z].ext # NoBox => Exists(row[z].ext)'
  BY LockedKeeps DEF LockedBy
<1> QED
  BY <1>1, <1>2, <1>3, <1>4, <1>5, <1>6 DEF LifecycleInv, KeptIds, BindsIds, KeepsBoxes

\* No container comes into being.
BoxesShrink == \A b \in Box : box'[b].of = box[b].of /\ (Exists(b)' => Exists(b))

\* A step under the lock that neither makes a container nor waits for one: the ids of
\* the row and of the operation are ones that were there.
LEMMA QuietStep ==
    ASSUME LifecycleInv, NEW t \in Task, NEW s \in Sandbox,
           s = task[t].s, OnlyTask(t), OnlyRow(s), RestTyped, LockFollows(t, s), BoxesShrink,
           KindOK(t)', FreshOK(t)',
           task'[t].pc # "ready", task'[t].kind # "reconcile",
           row'[s].ext \in {row[s].ext, NoBox},
           task'[t].s = s \/ (task'[t].seen.ext = NoBox /\ task'[t].rt = NoBox),
           task'[t].seen.ext \in {task[t].seen.ext, row[s].ext, NoBox},
           task'[t].rt \in {task[t].rt, task[t].seen.ext, row[s].ext, NoBox},
           KeptIds => row'[s].ext = row[s].ext
                      \/ \A b \in Box : row[s].ext = b => ~Exists(b)',
           BindsIds => (row'[s].status = "running" => row'[s].ext # NoBox),
           KeepsBoxes => \/ \A b \in Box : Exists(b) => Exists(b)'
                         \/ row'[s].ext = NoBox /\ \A b \in Box : Exists(b) /\ ~Exists(b)' => b = row[s].ext
    PROVE  LifecycleInv'
<1>1. LockedBy(t, s)
  BY DEF LockedBy, BoxesFor, BoxesShrink
<1>2. /\ row[s] \in Row /\ row'[s] \in Row /\ task[t] \in TaskState /\ task'[t] \in TaskState
      /\ OwnedOK(t) /\ Of(row[s].ext, s)
  BY DEF LifecycleInv, LifecycleTypes, OnlyTask, OnlyRow
<1>3. \A b \in Box : box[b].of = s => box'[b].of = s
  BY DEF BoxesShrink
<1>4. Of(row[s].ext, s)'
  BY <1>2, <1>3 DEF Of, Row
<1>5. OwnedOK(t)'
  BY <1>2, <1>3 DEF OwnedOK, Of, Row, TaskState
<1>6. Named => OneBox(s)' /\ NamedOK(t)'
  <2>1. BoxesOf(s)' \subseteq BoxesOf(s)
    <3>1. \A b \in Box : Exists(b) <=> box[b].state # "none"
      BY LifecycleAssumption DEF Exists
    <3>2. \A b \in Box : Exists(b)' <=> box'[b].state # "none"
      BY LifecycleAssumption DEF Exists
    <3> QED
      BY <3>1, <3>2 DEF BoxesOf, BoxesShrink
  <2>2. Named => OneBox(s)
    BY DEF LifecycleInv
  <2>3. NamedOK(t)'
    BY DEF NamedOK
  <2> QED
    BY <2>1, <2>2, <2>3 DEF OneBox
<1>7. KeptIds => /\ ReusesOK(t)' /\ StaleOK(t)'
                 /\ \A b \in Box : row[s].ext = b /\ Exists(b)' => row'[s].ext = b
  BY DEF ReusesOK, StaleOK
<1>8. KeepsBoxes => /\ row'[s].ext # NoBox => Exists(row[s].ext)'
                    /\ \A b \in Box : Exists(b) /\ ~Exists(b)' => box[b].of = s
  <2> SUFFICES ASSUME KeepsBoxes
               PROVE  /\ row'[s].ext # NoBox => Exists(row[s].ext)'
                      /\ \A b \in Box : Exists(b) /\ ~Exists(b)' => box[b].of = s
    OBVIOUS
  <2>1. row[s].ext # NoBox => Exists(row[s].ext) /\ row[s].ext \in Box
    BY <1>2 DEF LifecycleInv, Row
  <2>2. CASE \A b \in Box : Exists(b) => Exists(b)'
    <3>1. ASSUME row'[s].ext # NoBox
          PROVE  Exists(row[s].ext)'
      <4>1. PICK b \in Box : b = row[s].ext /\ b = row'[s].ext
        BY <2>1, <3>1
      <4>2. Exists(b)'
        BY <2>1, <2>2, <3>1, <4>1
      <4> QED
        BY <4>1, <4>2
    <3> QED
      BY <2>2, <3>1
  <2>3. CASE row'[s].ext = NoBox /\ \A b \in Box : Exists(b) /\ ~Exists(b)' => b = row[s].ext
    BY <1>2, <2>3 DEF Of, Exists
  <2> QED
    BY <2>2, <2>3
<1> QED
  BY <1>1, <1>4, <1>5, <1>6, <1>7, <1>8, LockedStep

\* A step of one operation that is outside the locks before and after it.
LEMMA OutsideStep ==
    ASSUME LifecycleInv, NEW t \in Task, OnlyTask(t), RestTyped, UNCHANGED <<row, box, lock>>,
           task[t].pc \in Outside, task'[t].pc \in Outside,
           KindOK(t)', OwnedOK(t)', KeptIds => StaleOK(t)'
    PROVE  LifecycleInv'
<1>1. LifecycleTypes'
  BY DEF LifecycleInv, LifecycleTypes, OnlyTask, RestTyped
<1>2. \A u \in Task \ {t} : task'[u] = task[u]
  BY DEF OnlyTask
<1>3. LifecycleLocks'
  <2> SUFFICES ASSUME NEW u \in Task, NEW z \in Sandbox
               PROVE  lock'[z] = u <=> task'[u].pc \in Inside /\ task'[u].s = z
    BY DEF LifecycleLocks
  <2> QED
    BY <1>2 DEF LifecycleInv, LifecycleLocks, Inside, Outside
<1>4. \A u \in Task : KindOK(u)' /\ FreshOK(u)' /\ OwnedOK(u)'
  <2>1. FreshOK(t)'
    BY DEF FreshOK, SeesRow, Outside
  <2>2. ASSUME NEW u \in Task \ {t}
        PROVE  KindOK(u)' /\ FreshOK(u)' /\ OwnedOK(u)'
    <3>1. KindOK(u)'
      BY <1>2 DEF LifecycleInv, KindOK
    <3>2. FreshOK(u)'
      BY <1>2 DEF LifecycleInv, FreshOK
    <3>3. OwnedOK(u)'
      BY <1>2 DEF LifecycleInv, OwnedOK, Of
    <3> QED
      BY <3>1, <3>2, <3>3
  <2> QED
    BY <2>1, <2>2
<1>5. \A z \in Sandbox : Of(row[z].ext, z)'
  BY DEF LifecycleInv, Of
<1>6. Named => (\A z \in Sandbox : OneBox(z)') /\ \A u \in Task : NamedOK(u)'
  <2>1. NamedOK(t)'
    BY DEF NamedOK, Outside
  <2> QED
    BY <1>2, <2>1 DEF LifecycleInv, OneBox, NamedOK, BoxesOf
<1>7. KeptIds => \A u \in Task : ReusesOK(u)' /\ StaleOK(u)'
  <2>1. ReusesOK(t)'
    BY DEF ReusesOK, Outside
  <2>2. ASSUME KeptIds, NEW u \in Task \ {t}
        PROVE  ReusesOK(u)' /\ StaleOK(u)'
    BY <1>2, <2>2 DEF LifecycleInv, ReusesOK, StaleOK, Exists
  <2> QED
    BY <2>1, <2>2
<1>8. /\ BindsIds => \A z \in Sandbox : row'[z].status = "running" => row'[z].ext # NoBox
      /\ KeepsBoxes => \A z \in Sandbox : row'[z].ext # NoBox => Exists(row[z].ext)'
  BY DEF LifecycleInv, Exists
<1> QED
  BY <1>1, <1>3, <1>4, <1>5, <1>6, <1>7, <1>8 DEF LifecycleInv, KeptIds, BindsIds, KeepsBoxes

\* A step of nobody: containers may die, time passes.
LEMMA NobodysStep ==
    ASSUME LifecycleInv, RestTyped, UNCHANGED <<row, task, lock>>, BoxesShrink,
           KeepsBoxes => \A b \in Box : Exists(b) => Exists(b)'
    PROVE  LifecycleInv'
<1>1. LifecycleTypes' /\ LifecycleLocks'
  BY DEF LifecycleInv, LifecycleTypes, RestTyped, LifecycleLocks
<1>2. \A u \in Task : KindOK(u)' /\ FreshOK(u)'
  BY DEF LifecycleInv, KindOK, FreshOK
<1>3. /\ \A z \in Sandbox : row[z].ext \in Box \cup {NoBox}
      /\ \A u \in Task : /\ task[u].seen.ext \in Box \cup {NoBox}
                         /\ task[u].rt \in Box \cup {NoBox} /\ task[u].s \in Sandbox
  BY DEF LifecycleInv, LifecycleTypes, TaskState, Row
<1>4. (\A u \in Task : OwnedOK(u)') /\ \A z \in Sandbox : Of(row[z].ext, z)'
  BY <1>3 DEF LifecycleInv, OwnedOK, Of, BoxesShrink
<1>5. \A z \in Sandbox : BoxesOf(z)' \subseteq BoxesOf(z)
  <2>1. \A b \in Box : Exists(b) <=> box[b].state # "none"
    BY LifecycleAssumption DEF Exists
  <2>2. \A b \in Box : Exists(b)' <=> box'[b].state # "none"
    BY LifecycleAssumption DEF Exists
  <2> QED
    BY <2>1, <2>2 DEF BoxesOf, BoxesShrink
<1>6. Named => (\A z \in Sandbox : OneBox(z)') /\ \A u \in Task : NamedOK(u)'
  <2>1. ASSUME Named, NEW u \in Task
        PROVE  NamedOK(u)'
    <3>1. PICK z \in Sandbox : z = task[u].s
      BY <1>3
    <3>2. BoxesOf(task[u].s)' = BoxesOf(z)'
      BY <3>1 DEF BoxesOf
    <3> QED
      BY <1>5, <2>1, <3>1, <3>2 DEF LifecycleInv, NamedOK
  <2> QED
    BY <1>5, <2>1 DEF LifecycleInv, OneBox
<1>7. ASSUME NEW b \in Box \cup {NoBox}
      PROVE  /\ Exists(b)' => Exists(b)
             /\ KeepsBoxes => (Exists(b) => Exists(b)')
  BY <1>7 DEF BoxesShrink, Exists
<1>8. ASSUME KeptIds, NEW u \in Task
      PROVE  ReusesOK(u)' /\ StaleOK(u)'
  <2>1. PICK b \in Box \cup {NoBox} : b = row[task[u].s].ext
    BY <1>3
  <2>2. PICK c \in Box \cup {NoBox} : c = task[u].seen.ext
    BY <1>3
  <2>3. ReusesOK(u) /\ StaleOK(u)
    BY <1>8 DEF LifecycleInv
  <2>4. Exists(row[task[u].s].ext)' => Exists(row[task[u].s].ext)
    BY <1>7, <2>1
  <2>5. Exists(task[u].seen.ext)' => Exists(task[u].seen.ext)
    BY <1>7, <2>2
  <2> QED
    BY <2>3, <2>4, <2>5 DEF ReusesOK, StaleOK
<1>9. ASSUME KeepsBoxes, NEW z \in Sandbox, row'[z].ext # NoBox
      PROVE  Exists(row[z].ext)'
  <2>1. PICK b \in Box \cup {NoBox} : b = row[z].ext
    BY <1>3
  <2>2. Exists(b)
    BY <1>9, <2>1 DEF LifecycleInv
  <2>3. Exists(b)'
    BY <1>7, <1>9, <2>2
  <2> QED
    BY <2>1, <2>3
<1>10. BindsIds => \A z \in Sandbox : row'[z].status = "running" => row'[z].ext # NoBox
  BY DEF LifecycleInv
<1> QED
  BY <1>1, <1>2, <1>4, <1>6, <1>8, <1>9, <1>10
     DEF LifecycleInv, KeptIds, BindsIds, KeepsBoxes

-----------------------------------------------------------------------------
(* What the parts of actions do *)

\* Stopping a container makes none, and takes at most that one away, and only where
\* containers do not survive.
LEMMA StoppedIs ==
    ASSUME LifecycleTypes, NEW b \in Box \cup {NoBox}, box' \in {box, Stopped(b)}
    PROVE  /\ box' \in [Box -> BoxState] /\ BoxesShrink
           /\ Preserve => \A c \in Box : Exists(c) => Exists(c)'
<1>1. box \in [Box -> BoxState] /\ NoBox \notin Box
  BY LifecycleAssumption DEF LifecycleTypes
<1>2. CASE box' = box
  BY <1>1, <1>2 DEF BoxesShrink, Exists
<1>3. CASE box' = Stopped(b) /\ Running(b)
  <2>1. b \in Box /\ box[b].state = "running"
    BY <1>3 DEF Running
  <2> DEFINE st == IF Preserve THEN "exited" ELSE "none"
             x == [box[b] EXCEPT !.state = st]
  <2>2. box' = [box EXCEPT ![b] = x]
    BY <1>3 DEF Stopped
  <2>3. x \in BoxState /\ x.of = box[b].of /\ x.state = st
    BY <1>1, <2>1 DEF BoxState
  <2> HIDE DEF x
  <2> QED
    BY <1>1, <2>1, <2>2, <2>3 DEF BoxesShrink, Exists
<1>4. CASE box' = Stopped(b) /\ ~Running(b)
  BY <1>1, <1>4 DEF BoxesShrink, Exists, Stopped
<1> QED
  BY <1>2, <1>3, <1>4

\* Removing a container takes that one away.
LEMMA RemovedIs ==
    ASSUME LifecycleTypes, NEW b \in Box \cup {NoBox}
    PROVE  /\ Removed(b) \in [Box -> BoxState]
           /\ \A c \in Box : /\ Removed(b)[c].of = box[c].of
                             /\ c # b => Removed(b)[c] = box[c]
           /\ b \in Box => Removed(b)[b].state = "none"
<1>1. box \in [Box -> BoxState] /\ NoBox \notin Box
  BY LifecycleAssumption DEF LifecycleTypes
<1>2. CASE Exists(b)
  <2>1. b \in Box
    BY <1>2 DEF Exists
  <2> DEFINE x == [box[b] EXCEPT !.state = "none"]
  <2>2. Removed(b) = [box EXCEPT ![b] = x]
    BY <1>2 DEF Removed
  <2>3. x \in BoxState /\ x.of = box[b].of /\ x.state = "none"
    BY <1>1, <2>1 DEF BoxState
  <2> HIDE DEF x
  <2> QED
    BY <1>1, <2>1, <2>2, <2>3
<1>3. CASE ~Exists(b)
  BY <1>1, <1>3 DEF Removed, Exists
<1> QED
  BY <1>2, <1>3

\* The boxes after a removal.
LEMMA RemovedShrinks ==
    ASSUME LifecycleTypes, NEW b \in Box \cup {NoBox}, box' = Removed(b)
    PROVE  /\ box' \in [Box -> BoxState] /\ BoxesShrink
           /\ \A c \in Box : c = b => ~Exists(c)'
           /\ \A c \in Box : Exists(c) /\ ~Exists(c)' => c = b
BY RemovedIs, LifecycleAssumption DEF BoxesShrink, Exists

\* A commit changes one row.
LEMMA CommitIs ==
    ASSUME LifecycleTypes, NEW s \in Sandbox, NEW old \in Row, NEW new \in Row,
           Commit(s, old, new)
    PROVE  /\ OnlyRow(s) /\ idle' \subseteq Sandbox /\ aged' \subseteq Sandbox
           /\ row'[s] = Committed(row[s], old, new)
           /\ row'[s].status = IF new.status # old.status THEN new.status ELSE row[s].status
           /\ row'[s].ext = IF new.ext # old.ext THEN new.ext ELSE row[s].ext
           /\ old = row[s] => row'[s] = new
<1>1. row[s] \in Row /\ row \in [Sandbox -> Row]
  BY DEF LifecycleTypes
<1> DEFINE c == Committed(row[s], old, new)
<1>2. /\ c \in Row /\ c.status = IF new.status # old.status THEN new.status ELSE row[s].status
      /\ c.ext = IF new.ext # old.ext THEN new.ext ELSE row[s].ext
  BY <1>1, CommittedIs
<1>3. old = row[s] => c = new
  BY <1>1, CommittedFresh
<1>4. row' = [row EXCEPT ![s] = c]
  BY DEF Commit
<1>5. idle' \subseteq Sandbox /\ aged' \subseteq Sandbox
  BY DEF Commit, LifecycleTypes
<1> HIDE DEF c
<1>6. OnlyRow(s) /\ row'[s] = c
  BY <1>1, <1>2, <1>4 DEF OnlyRow
<1> QED
  BY <1>2, <1>3, <1>5, <1>6 DEF c

\* An operation that ends is outside the lock, and knows no container it did not know.
LEMMA EndIs ==
    ASSUME LifecycleInv, NEW t \in Task, NEW seen \in Row, NEW n \in {FreeTask, Finished(t, seen)},
           task' = [task EXCEPT ![t] = n]
    PROVE  /\ OnlyTask(t) /\ KindOK(t)' /\ FreshOK(t)'
           /\ task'[t].pc \in Outside /\ task'[t].kind # "reconcile"
           /\ \/ task'[t].seen.ext = NoBox /\ task'[t].rt = NoBox
              \/ /\ task'[t].s = task[t].s /\ task'[t].seen.ext = seen.ext
                 /\ task'[t].rt = task[t].rt
<1>1. /\ n \in TaskState
      /\ \/ n = FreeTask
         \/ /\ n.kind = "orphan" /\ "orphan" \in Sweeps /\ n.pc = "want"
            /\ n.s = task[t].s /\ n.seen = seen /\ n.rt = task[t].rt /\ n.todo # <<>>
  BY FinishedIs, FreeTaskIs
<1>2. task \in [Task -> TaskState]
  BY DEF LifecycleInv, LifecycleTypes
<1>3. task'[t] = n /\ OnlyTask(t)
  BY <1>1, <1>2 DEF OnlyTask
<1>4. KindOK(t)'
  BY <1>1, <1>3, FreeTaskIs DEF KindOK
<1>5. n.pc \in Outside /\ n.kind # "reconcile"
  BY <1>1, FreeTaskIs DEF Outside
<1>6. FreshOK(t)'
  BY <1>3, <1>5 DEF FreshOK, SeesRow, Outside
<1> QED
  BY <1>1, <1>3, <1>4, <1>5, <1>6, FreeTaskIs

\* Who is inside holds the lock; who wants it may take it when it is free.
LEMMA HoldsItsLock ==
    ASSUME LifecycleInv, NEW t \in Task, task[t].pc \in Inside
    PROVE  lock[task[t].s] = t
BY DEF LifecycleInv, LifecycleLocks, LifecycleTypes, TaskState

\* What the invariant says of one operation, its row and what it reads.
LEMMA Basics ==
    ASSUME LifecycleInv, NEW t \in Task
    PROVE  /\ LifecycleTypes /\ task[t] \in TaskState /\ task[t].s \in Sandbox
           /\ task[t].seen \in Row /\ task[t].rt \in Box \cup {NoBox}
           /\ task[t].seen.ext \in Box \cup {NoBox}
           /\ row[task[t].s] \in Row /\ Read(t) \in Row
           /\ row[task[t].s].ext \in Box \cup {NoBox} /\ Read(t).ext \in Box \cup {NoBox}
           /\ Read(t) \in {task[t].seen, row[task[t].s]}
           /\ task[t].kind = "ensure" /\ ~task[t].loaded => Read(t) = row[task[t].s]
           /\ KindOK(t) /\ FreshOK(t) /\ OwnedOK(t) /\ Of(row[task[t].s].ext, task[t].s)
           /\ BindsIds /\ row[task[t].s].status = "running" => row[task[t].s].ext # NoBox
<1>1. LifecycleTypes /\ task[t] \in TaskState
  BY DEF LifecycleInv, LifecycleTypes
<1>2. task[t].s \in Sandbox /\ task[t].seen \in Row /\ task[t].rt \in Box \cup {NoBox}
  BY <1>1 DEF TaskState
<1>3. row[task[t].s] \in Row
  BY <1>1, <1>2 DEF LifecycleTypes
<1>4. KindOK(t) /\ FreshOK(t) /\ OwnedOK(t) /\ Of(row[task[t].s].ext, task[t].s)
  BY <1>2 DEF LifecycleInv
<1>5. Read(t) \in {task[t].seen, row[task[t].s]}
  BY DEF Read
<1>6. task[t].kind = "ensure" /\ ~task[t].loaded => Read(t) = row[task[t].s]
  BY <1>4 DEF Read, KindOK
<1>7. BindsIds /\ row[task[t].s].status = "running" => row[task[t].s].ext # NoBox
  BY <1>2 DEF LifecycleInv
<1> QED
  BY <1>1, <1>2, <1>3, <1>4, <1>5, <1>6, <1>7 DEF Row

\* One step of an operation from a place to a place, with what it sees.
Moves(t, pc, rt, seen) ==
    \/ task' = [task EXCEPT ![t].pc = pc, ![t].seen = seen] /\ rt = task[t].rt
    \/ task' = [task EXCEPT ![t].pc = pc, ![t].rt = rt, ![t].seen = seen]
LEMMA MovedIs ==
    ASSUME LifecycleInv, NEW t \in Task, NEW seen \in Row, NEW rt \in Box \cup {NoBox},
           NEW pc \in Inside, Moves(t, pc, rt, seen)
    PROVE  /\ OnlyTask(t)
           /\ task'[t].pc = pc /\ task'[t].seen = seen /\ task'[t].rt = rt
           /\ task'[t].kind = task[t].kind /\ task'[t].loaded = task[t].loaded
           /\ task'[t].s = task[t].s /\ task'[t].todo = task[t].todo
<1>1. task \in [Task -> TaskState] /\ task[t] \in TaskState
  BY DEF LifecycleInv, LifecycleTypes
<1>2. pc \in {"start", "up", "ready", "stop", "force", "recreate"}
  BY DEF Inside
<1>3. CASE task' = [task EXCEPT ![t].pc = pc, ![t].seen = seen] /\ rt = task[t].rt
  <2> DEFINE n == [task[t] EXCEPT !.pc = pc, !.seen = seen]
  <2>1. task' = [task EXCEPT ![t] = n]
    BY <1>1, <1>3
  <2>2. /\ n \in TaskState
        /\ n.pc = pc /\ n.seen = seen /\ n.rt = task[t].rt /\ n.kind = task[t].kind
        /\ n.loaded = task[t].loaded /\ n.s = task[t].s /\ n.todo = task[t].todo
    BY <1>1, <1>2 DEF TaskState
  <2>3. rt = task[t].rt
    BY <1>3
  <2> HIDE DEF n
  <2>4. task'[t] = n /\ OnlyTask(t)
    BY <1>1, <2>1, <2>2 DEF OnlyTask
  <2> QED
    BY <2>2, <2>3, <2>4
<1>4. CASE task' = [task EXCEPT ![t].pc = pc, ![t].rt = rt, ![t].seen = seen]
  <2> DEFINE n == [task[t] EXCEPT !.pc = pc, !.rt = rt, !.seen = seen]
  <2>1. task' = [task EXCEPT ![t] = n]
    BY <1>1, <1>4
  <2>2. /\ n \in TaskState
        /\ n.pc = pc /\ n.seen = seen /\ n.rt = rt /\ n.kind = task[t].kind
        /\ n.loaded = task[t].loaded /\ n.s = task[t].s /\ n.todo = task[t].todo
    BY <1>1, <1>2 DEF TaskState
  <2> HIDE DEF n
  <2> QED
    BY <1>1, <2>1, <2>2 DEF OnlyTask
<1> QED
  BY <1>3, <1>4 DEF Moves

\* The step of an operation that has taken over or made a container.
LEMMA GotIs ==
    ASSUME LifecycleInv, NEW t \in Task, NEW rt \in Box, NEW reused \in BOOLEAN,
           task' = [task EXCEPT ![t].pc = "ready", ![t].rt = rt, ![t].reused = reused]
    PROVE  /\ OnlyTask(t)
           /\ task'[t].pc = "ready" /\ task'[t].seen = task[t].seen /\ task'[t].rt = rt
           /\ task'[t].kind = task[t].kind /\ task'[t].loaded = task[t].loaded
           /\ task'[t].s = task[t].s /\ task'[t].todo = task[t].todo
<1>1. task \in [Task -> TaskState] /\ task[t] \in TaskState
  BY DEF LifecycleInv, LifecycleTypes
<1> DEFINE n == [task[t] EXCEPT !.pc = "ready", !.rt = rt, !.reused = reused]
<1>2. task' = [task EXCEPT ![t] = n]
  BY <1>1
<1>3. /\ n \in TaskState
      /\ n.pc = "ready" /\ n.seen = task[t].seen /\ n.rt = rt /\ n.kind = task[t].kind
      /\ n.loaded = task[t].loaded /\ n.s = task[t].s /\ n.todo = task[t].todo
  BY <1>1 DEF TaskState
<1> HIDE DEF n
<1>4. task'[t] = n /\ OnlyTask(t)
  BY <1>1, <1>2, <1>3 DEF OnlyTask
<1> QED
  BY <1>3, <1>4

-----------------------------------------------------------------------------
(* Steps that end an operation, and steps from place to place *)

\* The lock of a sandbox is given back, or was free all along.
LeavesLock(t) == \/ task[t].pc \in Inside /\ lock' = [lock EXCEPT ![task[t].s] = NoTask]
                 \/ Locks(t) /\ UNCHANGED lock

\* The lock is taken, or held on to.
Keeps(t) == \/ task[t].pc \in Inside /\ UNCHANGED lock
            \/ Locks(t) /\ lock' = [lock EXCEPT ![task[t].s] = t]

\* The row of an operation that ends, or that goes on without a container of its own.
RowStays(s) ==
    /\ OnlyRow(s)
    /\ row'[s].ext \in {row[s].ext, NoBox}
    /\ KeptIds => row'[s].ext = row[s].ext \/ \A b \in Box : row[s].ext = b => ~Exists(b)'
    /\ BindsIds => (row'[s].status = "running" => row'[s].ext # NoBox)
    /\ KeepsBoxes => \/ \A b \in Box : Exists(b) => Exists(b)'
                     \/ row'[s].ext = NoBox /\ \A b \in Box : Exists(b) /\ ~Exists(b)' => b = row[s].ext

\* An operation ends.
LEMMA OperationEnds ==
    ASSUME LifecycleInv, NEW t \in Task, NEW s \in Sandbox, s = task[t].s,
           NEW seen \in Row, NEW n \in {FreeTask, Finished(t, seen)},
           task' = [task EXCEPT ![t] = n], LeavesLock(t),
           seen.ext \in {task[t].seen.ext, row[s].ext, NoBox},
           RestTyped, BoxesShrink, RowStays(s)
    PROVE  LifecycleInv'
<1>1. /\ OnlyTask(t) /\ KindOK(t)' /\ FreshOK(t)'
      /\ task'[t].pc \in Outside /\ task'[t].kind # "reconcile"
      /\ \/ task'[t].seen.ext = NoBox /\ task'[t].rt = NoBox
         \/ /\ task'[t].s = task[t].s /\ task'[t].seen.ext = seen.ext
            /\ task'[t].rt = task[t].rt
  BY EndIs
<1>2. task'[t].pc \notin Inside /\ task'[t].pc # "ready"
  BY <1>1 DEF Inside, Outside
<1>3. LockFollows(t, s)
  <2>1. lock[s] \in {NoTask, t} /\ lock \in [Sandbox -> Task \cup {NoTask}]
    BY HoldsItsLock DEF LeavesLock, Locks, LifecycleInv, LifecycleTypes
  <2>2. lock' = [lock EXCEPT ![s] = NoTask]
    BY <2>1 DEF LeavesLock, Locks
  <2> QED
    BY <1>2, <2>1, <2>2 DEF LockFollows
<1> QED
  BY <1>1, <1>2, <1>3, QuietStep DEF RowStays

\* The lock of a step from place to place.
LEMMA KeepsFollows ==
    ASSUME LifecycleInv, NEW t \in Task, Keeps(t), task'[t].pc \in Inside, task'[t].s = task[t].s
    PROVE  LockFollows(t, task[t].s)
<1>1. lock[task[t].s] \in {NoTask, t} /\ lock \in [Sandbox -> Task \cup {NoTask}]
  BY HoldsItsLock DEF Keeps, Locks, LifecycleInv, LifecycleTypes
<1>2. lock' = [lock EXCEPT ![task[t].s] = t]
  BY <1>1, HoldsItsLock DEF Keeps, Locks
<1> QED
  BY <1>1, <1>2 DEF LockFollows

\* An operation goes on, and neither makes a container nor waits for one.
LEMMA MoveStep ==
    ASSUME LifecycleInv, NEW t \in Task, NEW s \in Sandbox, s = task[t].s,
           NEW seen \in Row, NEW rt \in {task[t].rt, task[t].seen.ext, row[s].ext, NoBox},
           NEW pc \in Inside \ {"ready"},
           Moves(t, pc, rt, seen),
           task[t].kind # "reconcile", Keeps(t),
           pc \in {"start", "up", "recreate"} => task[t].kind = "ensure",
           pc \in {"stop", "force"} => seen.status = "stopping",
           pc = "up" /\ ~task[t].loaded => rt = seen.ext /\ seen.status = "starting",
           pc \in {"up", "recreate"} => seen = row'[s],
           task[t].kind = "ensure" /\ (pc \in {"stop", "force"} \/ ~task[t].loaded) => seen = row'[s],
           seen.ext \in {task[t].seen.ext, row[s].ext, NoBox},
           RestTyped, BoxesShrink, RowStays(s)
    PROVE  LifecycleInv'
<1>1. rt \in Box \cup {NoBox} /\ KindOK(t) /\ pc \in Inside
  BY Basics DEF Row
<1>2. /\ OnlyTask(t)
      /\ task'[t].pc = pc /\ task'[t].seen = seen /\ task'[t].rt = rt
      /\ task'[t].kind = task[t].kind /\ task'[t].loaded = task[t].loaded
      /\ task'[t].s = task[t].s /\ task'[t].todo = task[t].todo
  BY <1>1, MovedIs
<1>3. pc \in {"start", "up", "stop", "force", "recreate"}
  BY DEF Inside
<1>4. LockFollows(t, s)
  BY <1>2, KeepsFollows
<1>5. task[t].kind = "orphan" /\ task[t].todo = <<>> => task[t].pc = "listing"
  BY <1>1 DEF KindOK
<1>6. task[t].pc # "listing"
  BY DEF Keeps, Inside, Locks
<1>7. KindOK(t)'
  BY <1>1, <1>2, <1>3, <1>5, <1>6 DEF KindOK
<1>8. FreshOK(t)'
  BY <1>2, <1>3 DEF FreshOK, SeesRow
<1>9. task'[t].pc # "ready"
  BY <1>2, <1>3
<1>10. task'[t].kind # "reconcile" /\ task'[t].s = s
       /\ task'[t].seen.ext \in {task[t].seen.ext, row[s].ext, NoBox}
       /\ task'[t].rt \in {task[t].rt, task[t].seen.ext, row[s].ext, NoBox}
  BY <1>2
<1> QED
  BY <1>2, <1>4, <1>7, <1>8, <1>9, <1>10, QuietStep DEF RowStays
-----------------------------------------------------------------------------
(* Every action *)

\* Nothing happens to the containers, or to the counters but their numbers.
LEMMA RestIs ==
    ASSUME LifecycleInv
    PROVE  /\ UNCHANGED box => BoxesShrink /\ box' \in [Box -> BoxState]
                               /\ \A b \in Box : Exists(b) => Exists(b)'
           /\ UNCHANGED count \/ Fault \/ Requested =>
                 count' \in [requests : Nat, abandons : Nat, faults : Nat]
           /\ UNCHANGED dbVars => /\ idle' \subseteq Sandbox /\ aged' \subseteq Sandbox
                                  /\ \A s \in Sandbox : RowStays(s) \/ ~UNCHANGED box
           /\ KeepsBoxes => ~Fault
<1>1. count \in [requests : Nat, abandons : Nat, faults : Nat] /\ box \in [Box -> BoxState]
  BY DEF LifecycleInv, LifecycleTypes
<1>2. UNCHANGED box => BoxesShrink /\ box' \in [Box -> BoxState]
                       /\ \A b \in Box : Exists(b) => Exists(b)'
  BY <1>1 DEF BoxesShrink, Exists
<1>3. UNCHANGED count \/ Fault \/ Requested =>
         count' \in [requests : Nat, abandons : Nat, faults : Nat]
  BY <1>1 DEF Fault, Requested
<1>4. UNCHANGED dbVars => idle' \subseteq Sandbox /\ aged' \subseteq Sandbox
  BY DEF LifecycleInv, LifecycleTypes, dbVars
<1>5. ASSUME UNCHANGED dbVars, UNCHANGED box, NEW s \in Sandbox
      PROVE  RowStays(s)
  BY <1>2, <1>5 DEF RowStays, OnlyRow, LifecycleInv, LifecycleTypes, dbVars
<1>6. KeepsBoxes => ~Fault
  BY <1>1 DEF KeepsBoxes, Fault
<1> QED
  BY <1>2, <1>3, <1>4, <1>5, <1>6

\* A commit that leaves the id alone, to a status that is not active.
LEMMA InactiveCommit ==
    ASSUME LifecycleInv, NEW s \in Sandbox, NEW r \in Row, NEW new \in Row, Commit(s, r, new),
           new.ext = r.ext, new.status \in {"stopping", "stopped", "error"},
           KeepsBoxes => \A b \in Box : Exists(b) => Exists(b)'
    PROVE  /\ RowStays(s) /\ idle' \subseteq Sandbox /\ aged' \subseteq Sandbox
           /\ row'[s] = Committed(row[s], r, new) /\ row'[s].ext = row[s].ext
           /\ new.status # r.status => row'[s].status = new.status
<1>1. /\ OnlyRow(s) /\ idle' \subseteq Sandbox /\ aged' \subseteq Sandbox
      /\ row'[s] = Committed(row[s], r, new)
      /\ row'[s].status = IF new.status # r.status THEN new.status ELSE row[s].status
      /\ row'[s].ext = row[s].ext
  BY CommitIs DEF LifecycleInv
<1>2. BindsIds /\ row[s].status = "running" => row[s].ext # NoBox
  BY DEF LifecycleInv
<1> QED
  BY <1>1, <1>2 DEF RowStays

\* _stop_runtime_for_sandbox.
LEMMA StopBeginsKeeps ==
    ASSUME LifecycleInv, NEW t \in Task, Locks(t), StopBegins(t, Read(t)), UNCHANGED box,
           task[t].kind # "reconcile", task[t].kind = "ensure" => Read(t).status = "running",
           UNCHANGED count \/ Fault
    PROVE  LifecycleInv'
<1> DEFINE s == task[t].s
           r == Read(t)
           stopping == [r EXCEPT !.status = "stopping"]
           seen == IF r = stopping THEN r ELSE Committed(row[s], r, stopping)
           pc == IF Forced(t, r) THEN "force" ELSE "stop"
<1>1. /\ s \in Sandbox /\ r \in Row /\ row[s] \in Row /\ r.ext \in {task[t].seen.ext, row[s].ext}
  BY Basics
<1>2. stopping \in Row /\ stopping.status = "stopping" /\ stopping.ext = r.ext
  BY <1>1, RowValues DEF SandboxStatus
<1>3. /\ Commit(s, r, stopping) /\ lock' = [lock EXCEPT ![s] = t]
      /\ task' = [task EXCEPT ![t].pc = pc, ![t].seen = seen]
  BY DEF StopBegins
<1>4. r # stopping => r.status # "stopping"
  BY <1>1, <1>2 DEF Row
<1>5. /\ seen \in Row /\ seen.status = "stopping"
      /\ seen.ext \in {task[t].seen.ext, row[s].ext, NoBox}
  BY <1>1, <1>2, <1>4, CommittedIs
<1>6. task[t].kind = "ensure" => seen = Committed(row[s], r, stopping)
  BY <1>2
<1> HIDE DEF s, r, stopping, seen, pc
<1>7. /\ RowStays(s) /\ idle' \subseteq Sandbox /\ aged' \subseteq Sandbox
      /\ row'[s] = Committed(row[s], r, stopping)
  BY <1>1, <1>2, <1>3, InactiveCommit, RestIs
<1>8. RestTyped /\ BoxesShrink
  BY <1>7, RestIs DEF RestTyped
<1>9. Keeps(t) /\ Moves(t, pc, task[t].rt, seen) /\ pc \in Inside \ {"ready"}
  BY <1>3 DEF Keeps, Moves, Inside, s, pc
<1>10. pc \in {"stop", "force"}
  BY DEF pc
<1> QED
  BY <1>1, <1>5, <1>6, <1>7, <1>8, <1>9, <1>10, MoveStep DEF s

\* The cold path of _ensure, and its fast path.
LEMMA EnsureKeeps ==
    ASSUME LifecycleInv, NEW t \in Task,
           EnsureReuses(t) \/ EnsureRecreates(t) \/ EnsureRestarts(t) \/ EnsureStarts(t)
    PROVE  LifecycleInv'
<1> DEFINE s == task[t].s
           r == Read(t)
<1>1. /\ s \in Sandbox /\ r \in Row /\ row[s] \in Row /\ r.ext \in {task[t].seen.ext, row[s].ext}
      /\ task[t].kind = "ensure" /\ ~task[t].loaded => r = row[s]
  BY Basics
<1>2. CASE EnsureReuses(t)
  <2>1. /\ task' = [task EXCEPT ![t] = Finished(t, r)] /\ LeavesLock(t)
        /\ UNCHANGED <<row, box, count>> /\ idle' \subseteq Sandbox /\ aged' \subseteq Sandbox
    BY <1>2 DEF EnsureReuses, Through, LeavesLock, LifecycleInv, LifecycleTypes
  <2>2. RestTyped /\ BoxesShrink
    BY <2>1, RestIs DEF RestTyped
  <2>3. RowStays(s)
    BY <1>1, <2>1, RestIs DEF RowStays, OnlyRow, LifecycleInv, LifecycleTypes
  <2> HIDE DEF r
  <2>4. Finished(t, r) \in {FreeTask, Finished(t, r)} /\ r.ext \in {task[t].seen.ext, row[s].ext, NoBox}
    BY <1>1
  <2> QED
    BY <1>1, <2>1, <2>2, <2>3, <2>4, OperationEnds
<1>3. CASE EnsureRecreates(t)
  <2> DEFINE stopping == [r EXCEPT !.status = "stopping"]
             seen == Committed(row[s], r, stopping)
  <2>1. stopping \in Row /\ stopping.status = "stopping" /\ stopping.ext = r.ext
    BY <1>1, RowValues DEF SandboxStatus
  <2>2. /\ Commit(s, r, stopping) /\ UNCHANGED <<box, count>>
        /\ Moves(t, "recreate", r.ext, seen) /\ Keeps(t) /\ task[t].kind = "ensure"
        /\ "recreate" \in Inside \ {"ready"}
    BY <1>3 DEF EnsureRecreates, Moves, Keeps, Inside
  <2>3. seen \in Row /\ seen.ext \in {task[t].seen.ext, row[s].ext, NoBox}
    BY <1>1, <2>1, CommittedIs
  <2> HIDE DEF s, r, stopping, seen
  <2>4. /\ RowStays(s) /\ idle' \subseteq Sandbox /\ aged' \subseteq Sandbox
        /\ row'[s] = Committed(row[s], r, stopping)
    BY <1>1, <2>1, <2>2, InactiveCommit, RestIs
  <2>5. RestTyped /\ BoxesShrink
    BY <2>2, <2>4, RestIs DEF RestTyped
  <2>6. row'[s] = seen
    BY <2>4 DEF seen
  <2>7. r.ext \in {task[t].rt, task[t].seen.ext, row[s].ext, NoBox}
    BY <1>1
  <2> QED
    BY <1>1, <2>2, <2>3, <2>4, <2>5, <2>6, <2>7, MoveStep DEF s
<1>4. CASE EnsureRestarts(t)
  BY <1>4, StopBeginsKeeps DEF EnsureRestarts
<1>5. CASE EnsureStarts(t)
  <2>1. /\ Moves(t, "start", task[t].rt, r) /\ Keeps(t) /\ task[t].kind = "ensure"
        /\ UNCHANGED <<dbVars, box, count>> /\ "start" \in Inside \ {"ready"}
    BY <1>5 DEF EnsureStarts, Under, Moves, Keeps, Inside
  <2>2. RestTyped /\ BoxesShrink /\ RowStays(s) /\ row'[s] = row[s]
    BY <1>1, <2>1, RestIs DEF RestTyped, dbVars
  <2> HIDE DEF s, r
  <2>3. r.ext \in {task[t].seen.ext, row[s].ext, NoBox}
        /\ task[t].rt \in {task[t].rt, task[t].seen.ext, row[s].ext, NoBox}
    BY <1>1
  <2> QED
    BY <1>1, <2>1, <2>2, <2>3, MoveStep DEF s
<1> QED
  BY <1>2, <1>3, <1>4, <1>5

\* stop().
LEMMA StopsKeeps ==
    ASSUME LifecycleInv, NEW t \in Task, Stops(t)
    PROVE  LifecycleInv'
<1>1. CASE Read(t).status \in {"stopped", "pending"}
  <2> DEFINE s == task[t].s
             r == Read(t)
  <2>1. /\ s \in Sandbox /\ r \in Row /\ r.ext \in {task[t].seen.ext, row[s].ext, NoBox}
    BY Basics
  <2>2. /\ task' = [task EXCEPT ![t] = Finished(t, r)] /\ LeavesLock(t)
        /\ UNCHANGED <<dbVars, box, count>> /\ Finished(t, r) \in {FreeTask, Finished(t, r)}
    BY <1>1 DEF Stops, Through, LeavesLock
  <2>3. RestTyped /\ BoxesShrink /\ RowStays(s)
    BY <2>1, <2>2, RestIs DEF RestTyped
  <2> HIDE DEF r
  <2> QED
    BY <2>1, <2>2, <2>3, OperationEnds
<1>2. CASE Read(t).status \notin {"stopped", "pending"}
  BY <1>2, StopBeginsKeeps DEF Stops
<1> QED
  BY <1>1, <1>2
\* A commit of a cleared row: the id goes only where containers do not survive.
LEMMA StoppedCommit ==
    ASSUME LifecycleInv, NEW s \in Sandbox, NEW r \in Row,
           Commit(s, r, [Cleared(r) EXCEPT !.status = "stopped"]),
           KeepsBoxes => \A b \in Box : Exists(b) => Exists(b)',
           r.status # "stopped" \/ "orphan" \in Sweeps
    PROVE  /\ RowStays(s) /\ idle' \subseteq Sandbox /\ aged' \subseteq Sandbox
           /\ row'[s] = Committed(row[s], r, [Cleared(r) EXCEPT !.status = "stopped"])
           /\ row'[s].ext \in {row[s].ext, NoBox}
<1> DEFINE new == [Cleared(r) EXCEPT !.status = "stopped"]
<1>1. Cleared(r) \in Row /\ Cleared(r).ext = IF Preserve THEN r.ext ELSE NoBox
  BY RowValues
<1>2. new \in Row /\ new.status = "stopped" /\ new.ext = IF Preserve THEN r.ext ELSE NoBox
  <2>1. PICK c \in Row : c = Cleared(r)
    BY <1>1
  <2>2. /\ [c EXCEPT !.status = "stopped"] \in Row
        /\ [c EXCEPT !.status = "stopped"].status = "stopped"
        /\ [c EXCEPT !.status = "stopped"].ext = c.ext
    BY RowValues DEF SandboxStatus
  <2> QED
    BY <1>1, <2>1, <2>2
<1>3. Commit(s, r, new)
  OBVIOUS
<1> HIDE DEF new
<1>4. /\ OnlyRow(s) /\ idle' \subseteq Sandbox /\ aged' \subseteq Sandbox
      /\ row'[s] = Committed(row[s], r, new)
      /\ row'[s].status = IF new.status # r.status THEN new.status ELSE row[s].status
      /\ row'[s].ext = IF new.ext # r.ext THEN new.ext ELSE row[s].ext
  BY <1>2, <1>3, CommitIs DEF LifecycleInv
<1>5. BindsIds /\ row[s].status = "running" => row[s].ext # NoBox
  BY DEF LifecycleInv
<1>6. row'[s].ext \in {row[s].ext, NoBox} /\ (Preserve => row'[s].ext = row[s].ext)
  BY <1>2, <1>4
<1>7. BindsIds => (row'[s].status = "running" => row'[s].ext # NoBox)
  BY <1>2, <1>4, <1>5, <1>6 DEF BindsIds, KeptIds
<1>8. RowStays(s)
  BY <1>2, <1>4, <1>6, <1>7 DEF RowStays, KeptIds
<1> QED
  BY <1>4, <1>6, <1>8 DEF new

\* _reconcile_stale_starting_unlocked.
LEMMA ReconcilesKeeps ==
    ASSUME LifecycleInv, NEW t \in Task, Reconciles(t)
    PROVE  LifecycleInv'
<1> DEFINE s == task[t].s
           r == Read(t)
<1>1. /\ s \in Sandbox /\ r \in Row /\ row[s] \in Row /\ r.ext \in {task[t].seen.ext, row[s].ext, NoBox}
      /\ r.ext \in Box \cup {NoBox} /\ LifecycleTypes
      /\ task[t].kind = "reconcile" /\ "reconcile" \in Sweeps /\ r = task[t].seen
      /\ BindsIds => KeptIds
  BY Basics DEF Reconciles, KindOK, Read, BindsIds
<1>2. /\ task' = [task EXCEPT ![t] = Finished(t, r)] /\ LeavesLock(t)
      /\ Finished(t, r) \in {FreeTask, Finished(t, r)}
  BY DEF Reconciles, Through, LeavesLock
<1>3. SUFFICES RestTyped /\ BoxesShrink /\ RowStays(s)
  <2> HIDE DEF s, r
  <2> QED
    BY <1>1, <1>2, OperationEnds DEF s
<1>4. CASE UNCHANGED <<dbVars, box, count>>
  BY <1>1, <1>4, RestIs DEF RestTyped
<1>5. CASE /\ r.status = "starting" /\ Running(r.ext)
           /\ Commit(s, r, [r EXCEPT !.status = "running"])
           /\ UNCHANGED <<box, count>>
  <2> DEFINE new == [r EXCEPT !.status = "running"]
  <2>1. new \in Row /\ new.status = "running" /\ new.ext = r.ext
    BY <1>1, RowValues DEF SandboxStatus
  <2>2. Commit(s, r, new)
    BY <1>5
  <2>3. Exists(r.ext)
    BY <1>5 DEF Running, Exists
  <2>4. KeptIds => row[s].ext = r.ext /\ r.ext # NoBox
    BY <1>1, <2>3 DEF LifecycleInv, StaleOK, Exists
  <2> HIDE DEF new, s, r
  <2>5. /\ OnlyRow(s) /\ idle' \subseteq Sandbox /\ aged' \subseteq Sandbox
        /\ row'[s].ext = row[s].ext
    BY <1>1, <2>1, <2>2, CommitIs
  <2>6. RowStays(s)
    BY <1>1, <1>5, <2>4, <2>5, RestIs DEF RowStays
  <2> QED
    BY <1>5, <2>5, <2>6, RestIs DEF RestTyped
<1>6. CASE /\ r.status = "starting"
           /\ Fault \/ (~Running(r.ext) /\ UNCHANGED count)
           /\ box' \in {box, Stopped(r.ext)}
           /\ Commit(s, r, [Cleared(r) EXCEPT !.status = "stopped"])
  <2> HIDE DEF s, r
  <2>1. /\ box' \in [Box -> BoxState] /\ BoxesShrink
        /\ Preserve => \A c \in Box : Exists(c) => Exists(c)'
    BY <1>1, <1>6, StoppedIs
  <2>2. RowStays(s) /\ idle' \subseteq Sandbox /\ aged' \subseteq Sandbox
    BY <1>1, <1>6, <2>1, StoppedCommit DEF KeepsBoxes
  <2> QED
    BY <1>6, <2>1, <2>2, RestIs DEF RestTyped
<1> QED
  BY <1>4, <1>5, <1>6 DEF Reconciles

\* _apply_orphan_action_unlocked.
LEMMA OrphanActsKeeps ==
    ASSUME LifecycleInv, NEW t \in Task, OrphanActs(t)
    PROVE  LifecycleInv'
<1> DEFINE s == task[t].s
           r == Read(t)
           action == Head(task[t].todo)
           stopped == [Cleared(r) EXCEPT !.status = "stopped"]
<1>1. /\ s \in Sandbox /\ r \in Row /\ row[s] \in Row /\ r.ext \in {task[t].seen.ext, row[s].ext, NoBox}
      /\ LifecycleTypes /\ task[t].kind = "orphan" /\ KindOK(t) /\ task[t] \in TaskState
      /\ task[t].pc = "want" /\ UNCHANGED count
  BY Basics DEF OrphanActs, Locks
<1>2. "orphan" \in Sweeps /\ task[t].todo # <<>> /\ task[t].todo \in Seq(OrphanAction)
  BY <1>1 DEF KindOK, TaskState
<1>3. action \in OrphanAction
  BY <1>2, HeadTailProperties
<1>4. CASE action.act = "remove" /\ box' = Removed(action.b) /\ Through(t, r) /\ UNCHANGED dbVars
  <2>1. action.b \in Box \cup {NoBox}
    BY <1>3 DEF OrphanAction
  <2>2. box' \in [Box -> BoxState] /\ BoxesShrink
    BY <1>1, <1>4, <2>1, RemovedShrinks
  <2>3. RowStays(s)
    BY <1>1, <1>2, <1>4 DEF RowStays, OnlyRow, LifecycleInv, LifecycleTypes, KeepsBoxes, dbVars
  <2>4. RestTyped
    BY <1>1, <1>4, <2>2, RestIs DEF RestTyped
  <2>5. /\ task' = [task EXCEPT ![t] = Finished(t, r)] /\ LeavesLock(t)
        /\ Finished(t, r) \in {FreeTask, Finished(t, r)}
    BY <1>4 DEF Through, LeavesLock, OrphanActs
  <2> HIDE DEF s, r, action
  <2> QED
    BY <1>1, <2>2, <2>3, <2>4, <2>5, OperationEnds DEF s
<1>5. CASE Commit(s, r, stopped) /\ Through(t, Committed(row[s], r, stopped)) /\ UNCHANGED box
  <2>1. /\ RowStays(s) /\ idle' \subseteq Sandbox /\ aged' \subseteq Sandbox
        /\ row'[s] = Committed(row[s], r, stopped)
        /\ row'[s].ext \in {row[s].ext, NoBox}
    BY <1>1, <1>2, <1>5, StoppedCommit, RestIs
  <2> DEFINE seen == Committed(row[s], r, stopped)
  <2>2. seen \in Row /\ seen.ext \in {row[s].ext, NoBox}
    BY <1>1, <2>1 DEF RowStays, OnlyRow
  <2>3. RestTyped /\ BoxesShrink
    BY <1>1, <1>5, <2>1, RestIs DEF RestTyped
  <2>4. /\ task' = [task EXCEPT ![t] = Finished(t, seen)] /\ LeavesLock(t)
        /\ Finished(t, seen) \in {FreeTask, Finished(t, seen)}
    BY <1>5 DEF Through, LeavesLock, OrphanActs
  <2> HIDE DEF s, r, action, stopped, seen
  <2> QED
    BY <1>1, <2>1, <2>2, <2>3, <2>4, OperationEnds DEF s
<1>6. CASE StopBegins(t, r) /\ UNCHANGED box
  BY <1>1, <1>6, StopBeginsKeeps DEF OrphanActs
<1> QED
  BY <1>4, <1>5, <1>6 DEF OrphanActs

\* _reserve_capacity_and_mark_starting.
LEMMA ReserveKeeps ==
    ASSUME LifecycleInv, NEW t \in Task, Reserve(t)
    PROVE  LifecycleInv'
<1> DEFINE s == task[t].s
           r == task[t].seen
           starting == [r EXCEPT !.status = "starting"]
           seen == Committed(row[s], r, starting)
<1>1. /\ s \in Sandbox /\ r \in Row /\ row[s] \in Row /\ LifecycleTypes
      /\ r.ext \in {task[t].seen.ext, row[s].ext, NoBox}
      /\ task[t].pc = "start" /\ task[t].pc \in Inside /\ UNCHANGED <<box, count>>
      /\ task[t].kind = "ensure" /\ (~task[t].loaded => r = row[s])
  BY Basics DEF Reserve, KindOK, FreshOK, SeesRow, Inside
<1>2. starting \in Row /\ starting.status = "starting" /\ starting.ext = r.ext
  BY <1>1, RowValues DEF SandboxStatus
<1>3. CASE Cardinality(Active) >= MaxActive
  <2>1. UNCHANGED dbVars /\ task' = [task EXCEPT ![t] = Finished(t, r)] /\ LeavesLock(t)
        /\ Finished(t, r) \in {FreeTask, Finished(t, r)}
    BY <1>1, <1>3 DEF Reserve, Finish, LeavesLock
  <2>2. RestTyped /\ BoxesShrink /\ RowStays(s)
    BY <1>1, <2>1, RestIs DEF RestTyped
  <2> HIDE DEF s, r
  <2> QED
    BY <1>1, <2>1, <2>2, OperationEnds DEF s
<1>4. CASE ~(Cardinality(Active) >= MaxActive)
  <2>1. Cardinality(Active) < MaxActive
    <3>1. Active \subseteq Sandbox
      BY DEF Active
    <3>2. Cardinality(Active) \in Nat /\ MaxActive \in Nat
      BY <3>1, LifecycleAssumption, FS_Subset, FS_CardinalityType
    <3> QED
      BY <1>4, <3>2
  <2>2. /\ Commit(s, r, starting) /\ Moves(t, "up", r.ext, seen) /\ Keeps(t)
        /\ "up" \in Inside \ {"ready"}
    BY <1>1, <1>4 DEF Reserve, Moves, Keeps, Inside
  <2> HIDE DEF s, r, starting
  <2>3. /\ seen \in Row /\ seen.ext = row[s].ext
        /\ ~task[t].loaded => seen = starting
    <3>1. seen \in Row /\ seen.ext = row[s].ext
      BY <1>1, <1>2, CommittedIs
    <3>2. r = row[s] => seen = starting
      BY <1>1, <1>2, CommittedFresh
    <3> QED
      BY <1>1, <3>1, <3>2
  <2> HIDE DEF seen
  <2>4. /\ OnlyRow(s) /\ idle' \subseteq Sandbox /\ aged' \subseteq Sandbox
        /\ row'[s] = seen
        /\ row'[s].status = IF starting.status # r.status THEN starting.status ELSE row[s].status
        /\ row'[s].ext = row[s].ext
    BY <1>1, <1>2, <2>2, CommitIs DEF seen
  <2>5. BindsIds /\ row[s].status = "running" => row[s].ext # NoBox
    BY <1>1 DEF LifecycleInv
  <2>6. RowStays(s)
    BY <1>1, <1>2, <2>1, <2>4, <2>5, RestIs DEF RowStays
  <2>7. RestTyped /\ BoxesShrink
    BY <1>1, <2>4, RestIs DEF RestTyped
  <2>8. ~task[t].loaded => r.ext = seen.ext /\ seen.status = "starting"
    BY <1>2, <2>3
  <2>9. /\ seen.ext \in {task[t].seen.ext, row[s].ext, NoBox}
        /\ r.ext \in {task[t].rt, task[t].seen.ext, row[s].ext, NoBox}
    BY <1>1, <2>3
  <2> QED
    BY <1>1, <2>2, <2>3, <2>4, <2>6, <2>7, <2>8, <2>9, MoveStep DEF s
<1> QED
  BY <1>3, <1>4
\* up() fails.
LEMMA StartFailsKeeps ==
    ASSUME LifecycleInv, NEW t \in Task, StartFails(t)
    PROVE  LifecycleInv'
<1> DEFINE s == task[t].s
           r == task[t].seen
           failed == [r EXCEPT !.status = "error"]
<1>1. /\ s \in Sandbox /\ r \in Row /\ LifecycleTypes /\ task[t].rt \in Box \cup {NoBox}
      /\ task[t].pc \in Inside /\ (UNCHANGED count \/ Fault)
      /\ r.ext \in {task[t].seen.ext, row[s].ext, NoBox}
  BY Basics DEF StartFails, Inside
<1>2. failed \in Row /\ failed.status = "error" /\ failed.ext = r.ext
  BY <1>1, RowValues DEF SandboxStatus
<1>3. /\ box' \in [Box -> BoxState] /\ BoxesShrink
      /\ Preserve => \A c \in Box : Exists(c) => Exists(c)'
  BY <1>1, StoppedIs DEF StartFails
<1>4. /\ Commit(s, r, failed) /\ task' = [task EXCEPT ![t] = Finished(t, r)] /\ LeavesLock(t)
      /\ Finished(t, r) \in {FreeTask, Finished(t, r)}
  BY <1>1 DEF StartFails, Finish, LeavesLock
<1> HIDE DEF s, r, failed
<1>5. RowStays(s) /\ idle' \subseteq Sandbox /\ aged' \subseteq Sandbox
  BY <1>1, <1>2, <1>3, <1>4, InactiveCommit DEF KeepsBoxes
<1>6. RestTyped
  BY <1>1, <1>3, <1>5, RestIs DEF RestTyped
<1> QED
  BY <1>1, <1>3, <1>4, <1>5, <1>6, OperationEnds DEF s

\* _recreate_unlocked.
LEMMA RecreateKeeps ==
    ASSUME LifecycleInv, NEW t \in Task, Recreate(t)
    PROVE  LifecycleInv'
<1> DEFINE s == task[t].s
           r == task[t].seen
           stopped == [status |-> "stopped", ext |-> NoBox]
           seen == Committed(row[s], r, stopped)
<1>1. /\ s \in Sandbox /\ r \in Row /\ row[s] \in Row /\ LifecycleTypes
      /\ r.ext \in Box \cup {NoBox} /\ r = row[s] /\ (UNCHANGED count \/ Fault)
      /\ task[t].pc = "recreate" /\ task[t].pc \in Inside /\ task[t].kind = "ensure"
  BY Basics DEF Recreate, KindOK, FreshOK, SeesRow, Inside
<1>2. stopped \in Row /\ stopped.status = "stopped" /\ stopped.ext = NoBox
  BY RowValues, <1>1
<1>3. /\ box' \in [Box -> BoxState] /\ BoxesShrink
      /\ ~Fault => /\ \A c \in Box : c = r.ext => ~Exists(c)'
                   /\ \A c \in Box : Exists(c) /\ ~Exists(c)' => c = r.ext
  <2>1. \/ box' = Removed(r.ext)
        \/ box' \in {box, Stopped(r.ext)} /\ Fault
    BY DEF Recreate
  <2> HIDE DEF r
  <2> QED
    BY <1>1, <2>1, RemovedShrinks, StoppedIs
<1>4. /\ Commit(s, r, stopped) /\ Moves(t, "start", task[t].rt, seen) /\ Keeps(t)
      /\ "start" \in Inside \ {"ready"}
  BY <1>1 DEF Recreate, Goto, Moves, Keeps, Inside
<1> HIDE DEF s, r, stopped
<1>5. /\ OnlyRow(s) /\ idle' \subseteq Sandbox /\ aged' \subseteq Sandbox
      /\ row'[s] = stopped
  BY <1>1, <1>2, <1>4, CommitIs
<1>6. seen = stopped
  BY <1>1, <1>2, CommittedFresh
<1> HIDE DEF seen
<1>7. RowStays(s)
  <2>1. KeptIds \/ KeepsBoxes => ~Fault
    BY <1>1 DEF KeptIds, KeepsBoxes, Fault, LifecycleTypes
  <2> QED
    BY <1>1, <1>2, <1>3, <1>5, <2>1 DEF RowStays
<1>8. RestTyped
  BY <1>1, <1>3, <1>5, RestIs DEF RestTyped
<1>9. /\ seen \in Row /\ seen.ext \in {task[t].seen.ext, row[s].ext, NoBox} /\ seen = row'[s]
      /\ task[t].rt \in {task[t].rt, task[t].seen.ext, row[s].ext, NoBox}
  BY <1>2, <1>5, <1>6
<1> QED
  BY <1>1, <1>3, <1>4, <1>7, <1>8, <1>9, MoveStep DEF s

\* The runtime is stopped.
LEMMA StopSucceedsKeeps ==
    ASSUME LifecycleInv, NEW t \in Task, StopSucceeds(t)
    PROVE  LifecycleInv'
<1> DEFINE s == task[t].s
           r == task[t].seen
           stopped == [Cleared(r) EXCEPT !.status = "stopped"]
           seen == Committed(row[s], r, stopped)
<1>1. /\ s \in Sandbox /\ r \in Row /\ LifecycleTypes /\ (UNCHANGED count \/ Fault)
      /\ r.ext \in Box \cup {NoBox} /\ r.status = "stopping"
      /\ task[t].pc \in {"stop", "force"} /\ task[t].pc \in Inside /\ task[t].kind # "reconcile"
      /\ task[t].kind = "ensure" => r = row[s]
  BY Basics DEF StopSucceeds, KindOK, FreshOK, SeesRow, Inside
<1>2. /\ box' \in [Box -> BoxState] /\ BoxesShrink
      /\ Preserve => \A c \in Box : Exists(c) => Exists(c)'
  BY <1>1, StoppedIs DEF StopSucceeds
<1>3. /\ Commit(s, r, stopped) /\ AfterStop(t, seen)
  BY DEF StopSucceeds
<1>4. /\ RowStays(s) /\ idle' \subseteq Sandbox /\ aged' \subseteq Sandbox
      /\ row'[s] = seen /\ row'[s].ext \in {row[s].ext, NoBox}
  <2> HIDE DEF s, r
  <2> QED
    BY <1>1, <1>2, <1>3, StoppedCommit DEF KeepsBoxes
<1>5. RestTyped
  BY <1>1, <1>2, <1>4, RestIs DEF RestTyped
<1> HIDE DEF s, r, stopped, seen
<1>6. seen \in Row /\ seen.ext \in {task[t].seen.ext, row[s].ext, NoBox}
  BY <1>1, <1>4 DEF RowStays, OnlyRow
<1>7. CASE task[t].kind = "ensure"
  <2>1. /\ Moves(t, "start", task[t].rt, seen) /\ Keeps(t) /\ "start" \in Inside \ {"ready"}
        /\ task[t].rt \in {task[t].rt, task[t].seen.ext, row[s].ext, NoBox}
    BY <1>1, <1>3, <1>7 DEF AfterStop, Goto, Moves, Keeps, Inside
  <2> QED
    BY <1>1, <1>2, <1>4, <1>5, <1>6, <1>7, <2>1, MoveStep DEF s
<1>8. CASE task[t].kind # "ensure"
  <2>1. /\ task' = [task EXCEPT ![t] = Finished(t, seen)] /\ LeavesLock(t)
        /\ Finished(t, seen) \in {FreeTask, Finished(t, seen)}
    BY <1>1, <1>3, <1>8 DEF AfterStop, Finish, LeavesLock
  <2> QED
    BY <1>1, <1>2, <1>4, <1>5, <1>6, <2>1, OperationEnds DEF s
<1> QED
  BY <1>7, <1>8

\* Docker raises while it stops.
LEMMA StopFailsKeeps ==
    ASSUME LifecycleInv, NEW t \in Task, StopFails(t)
    PROVE  LifecycleInv'
<1> DEFINE s == task[t].s
           r == task[t].seen
           failed == [r EXCEPT !.status = "error"]
<1>1. /\ s \in Sandbox /\ r \in Row /\ LifecycleTypes
      /\ task[t].pc \in Inside /\ Fault /\ UNCHANGED box
  BY Basics DEF StopFails, Inside
<1>2. /\ failed \in Row /\ failed.status = "error" /\ failed.ext = r.ext
      /\ failed.ext \in {task[t].seen.ext, row[s].ext, NoBox}
  BY <1>1, RowValues DEF SandboxStatus
<1>3. /\ Commit(s, r, failed) /\ task' = [task EXCEPT ![t] = Finished(t, failed)] /\ LeavesLock(t)
      /\ Finished(t, failed) \in {FreeTask, Finished(t, failed)}
  BY <1>1 DEF StopFails, Finish, LeavesLock
<1> HIDE DEF s, r, failed
<1>4. RowStays(s) /\ idle' \subseteq Sandbox /\ aged' \subseteq Sandbox
  BY <1>1, <1>2, <1>3, InactiveCommit, RestIs
<1>5. RestTyped /\ BoxesShrink
  BY <1>1, <1>4, RestIs DEF RestTyped
<1> QED
  BY <1>1, <1>2, <1>3, <1>4, <1>5, OperationEnds DEF s

\* An operation is cut short.
LEMMA AbandonKeeps ==
    ASSUME LifecycleInv, NEW t \in Task, Abandon(t)
    PROVE  LifecycleInv'
<1> DEFINE s == task[t].s
           r == task[t].seen
<1>1. /\ s \in Sandbox /\ r \in Row /\ LifecycleTypes /\ task[t] \in TaskState
      /\ r.ext \in {task[t].seen.ext, row[s].ext, NoBox} /\ OwnedOK(t)
  BY Basics
<1>2. PICK n \in {FreeTask, Finished(t, r)} : task' = [task EXCEPT ![t] = n]
  BY DEF Abandon
<1>3. /\ count' = [count EXCEPT !.abandons = @ + 1] /\ UNCHANGED <<dbVars, box>>
      /\ task[t].pc # "free"
      /\ lock' = IF task[t].pc \in {"want", "listing"} THEN lock
                 ELSE [lock EXCEPT ![task[t].s] = NoTask]
  BY DEF Abandon
<1>4. count' \in [requests : Nat, abandons : Nat, faults : Nat]
  BY <1>1, <1>3 DEF LifecycleTypes
<1>5. RestTyped /\ BoxesShrink /\ RowStays(s)
  BY <1>1, <1>3, <1>4, RestIs DEF RestTyped
<1>6. CASE task[t].pc \in {"want", "listing"}
  <2>1. /\ OnlyTask(t) /\ KindOK(t)' /\ task'[t].pc \in Outside /\ task'[t].kind # "reconcile"
        /\ \/ task'[t].seen.ext = NoBox /\ task'[t].rt = NoBox
           \/ /\ task'[t].s = task[t].s /\ task'[t].seen.ext = r.ext
              /\ task'[t].rt = task[t].rt
    <3> HIDE DEF r
    <3> QED
      BY <1>1, <1>2, EndIs
  <2>2. OwnedOK(t)'
    BY <1>1, <1>3, <2>1 DEF OwnedOK, Of
  <2>3. StaleOK(t)'
    BY <2>1 DEF StaleOK
  <2>4. UNCHANGED <<row, box, lock>> /\ task[t].pc \in Outside
    BY <1>3, <1>6 DEF dbVars, Outside
  <2> QED
    BY <1>5, <2>1, <2>2, <2>3, <2>4, OutsideStep
<1>7. CASE task[t].pc \notin {"want", "listing"}
  <2>1. LeavesLock(t)
    BY <1>1, <1>3, <1>7 DEF LeavesLock, Inside, TaskState
  <2> HIDE DEF s, r
  <2> QED
    BY <1>1, <1>2, <1>5, <2>1, OperationEnds DEF s
<1> QED
  BY <1>6, <1>7
\* The sandbox is up: its row is bound to the container of the start.
LEMMA ReadyKeeps ==
    ASSUME LifecycleInv, NEW t \in Task, Ready(t)
    PROVE  LifecycleInv'
<1>0. PICK s \in Sandbox : s = task[t].s
  BY Basics
<1> DEFINE r == task[t].seen
           rt == task[t].rt
           bound == Bound(r, rt)
<1>1. /\ s = task[t].s /\ r \in Row /\ LifecycleTypes /\ task[t] \in TaskState
      /\ r.ext \in Box \cup {NoBox}
      /\ task[t].pc = "ready" /\ task[t].pc \in Inside /\ UNCHANGED <<box, count>>
      /\ r = row[s] /\ (~task[t].loaded => r.status = "starting")
      /\ Of(rt, s) /\ Of(r.ext, s)
  BY <1>0, Basics DEF Ready, KindOK, FreshOK, SeesRow, OwnedOK, Inside
<1>2. rt \in Box /\ Exists(rt)
  BY <1>1 DEF Ready, Running, Exists, TaskState
<1>3. bound \in Row /\ bound.status = "running" /\ bound.ext = rt
  BY <1>1, <1>2 DEF Bound, Row, SandboxStatus
<1>4. /\ Commit(s, r, bound) /\ task' = [task EXCEPT ![t] = Finished(t, r)]
      /\ lock' = [lock EXCEPT ![s] = NoTask]
      /\ Finished(t, r) \in {FreeTask, Finished(t, r)}
  BY <1>0 DEF Ready, Finish
<1>5. KeptIds /\ Exists(r.ext) => rt = r.ext
  BY <1>1 DEF LifecycleInv, ReusesOK
<1>6. Named => OneBox(s)
  BY <1>1 DEF LifecycleInv
<1> HIDE DEF r, rt, bound
<1>7. /\ OnlyRow(s) /\ idle' \subseteq Sandbox /\ aged' \subseteq Sandbox /\ row'[s] = bound
  BY <1>1, <1>3, <1>4, CommitIs
<1>8. /\ OnlyTask(t) /\ KindOK(t)' /\ FreshOK(t)'
      /\ task'[t].pc \in Outside /\ task'[t].kind # "reconcile"
      /\ \/ task'[t].seen.ext = NoBox /\ task'[t].rt = NoBox
         \/ /\ task'[t].s = s /\ task'[t].seen.ext = r.ext
            /\ task'[t].rt = rt
  BY <1>1, <1>4, EndIs DEF rt
<1>9. RestTyped /\ BoxesShrink
  BY <1>1, <1>7, RestIs DEF RestTyped
<1>10. task'[t].pc \notin Inside /\ task'[t].pc # "ready"
  BY <1>8 DEF Inside, Outside
<1>11. LockedBy(t, s)
  <2>1. lock[s] = t
    BY <1>1, HoldsItsLock
  <2>2. LockFollows(t, s)
    BY <1>4, <1>10, <2>1 DEF LockFollows
  <2> QED
    BY <1>1, <1>7, <1>8, <1>9, <2>2 DEF LockedBy, BoxesFor, BoxesShrink
<1>12. OwnedOK(t)' /\ Of(row[s].ext, s)'
  <2>1. box' = box /\ row'[s].ext = rt
    BY <1>1, <1>3, <1>7
  <2> QED
    BY <1>1, <1>8, <2>1 DEF OwnedOK, Of
<1>13. Named => OneBox(s)' /\ NamedOK(t)'
  BY <1>1, <1>6, <1>10 DEF OneBox, NamedOK, BoxesOf
<1>14. KeptIds => /\ ReusesOK(t)' /\ StaleOK(t)'
                  /\ \A b \in Box : row[s].ext = b /\ Exists(b)' => row'[s].ext = b
  BY <1>1, <1>3, <1>5, <1>7, <1>8, <1>10 DEF ReusesOK, StaleOK, Exists
<1>15. row'[s].ext # NoBox
  BY <1>1, <1>2, <1>3, <1>7, LifecycleAssumption
<1>16. KeepsBoxes => /\ row'[s].ext # NoBox => Exists(row[s].ext)'
                     /\ \A b \in Box : Exists(b) /\ ~Exists(b)' => box[b].of = s
  BY <1>1, <1>2, <1>3, <1>7 DEF Exists
<1> QED
  BY <1>1, <1>8, <1>11, <1>12, <1>13, <1>14, <1>15, <1>16, LockedStep

\* A start gets a container: it takes over one of its sandbox, or makes a new one after
\* all those of the sandbox's name, and the one of its row, are gone.
LEMMA GotStep ==
    ASSUME LifecycleInv, NEW t \in Task, NEW s \in Sandbox, s = task[t].s,
           task[t].pc \in {"up", "ready"}, UNCHANGED <<dbVars, lock>>,
           count' \in [requests : Nat, abandons : Nat, faults : Nat],
           NEW b \in Box, NEW reused \in BOOLEAN,
           task' = [task EXCEPT ![t].pc = "ready", ![t].rt = b, ![t].reused = reused],
           box' \in [Box -> BoxState], BoxesFor(s), box'[b].of = s,
           Named => BoxesOf(s)' \subseteq {b},
           KeptIds => \A c \in Box : row[s].ext = c /\ Exists(c)' => c = b,
           KeepsBoxes => \A c \in Box : Exists(c) => Exists(c)'
    PROVE  LifecycleInv'
<1>1. /\ OnlyTask(t)
      /\ task'[t].pc = "ready" /\ task'[t].seen = task[t].seen /\ task'[t].rt = b
      /\ task'[t].kind = task[t].kind /\ task'[t].loaded = task[t].loaded
      /\ task'[t].s = task[t].s /\ task'[t].todo = task[t].todo
  BY GotIs
<1>2. /\ KindOK(t) /\ FreshOK(t) /\ OwnedOK(t) /\ Of(row[s].ext, s)
      /\ task[t].seen.ext \in Box \cup {NoBox} /\ row[s].ext \in Box \cup {NoBox}
      /\ task[t].kind = "ensure" /\ b # NoBox
      /\ BindsIds /\ row[s].status = "running" => row[s].ext # NoBox
  BY Basics, LifecycleAssumption DEF KindOK
<1>3. row' = row /\ OnlyRow(s) /\ RestTyped
  BY DEF OnlyRow, RestTyped, dbVars, LifecycleInv, LifecycleTypes
<1>4. LockedBy(t, s)
  <2>1. lock[s] = t /\ lock \in [Sandbox -> Task \cup {NoTask}]
    BY HoldsItsLock DEF Inside, LifecycleInv, LifecycleTypes
  <2>2. LockFollows(t, s)
    BY <1>1, <2>1 DEF LockFollows, Inside
  <2> QED
    BY <1>1, <1>3, <2>2 DEF LockedBy
<1>5. KindOK(t)'
  BY <1>1, <1>2 DEF KindOK
<1>6. FreshOK(t)'
  BY <1>1, <1>2, <1>3 DEF FreshOK, SeesRow
<1>7. OwnedOK(t)'
  <2>1. ASSUME NEW c \in Box, c = task[t].seen.ext
        PROVE  box'[c].of = s
    BY <1>2, <2>1, ReferredStays, LifecycleAssumption DEF OwnedOK, Of
  <2> QED
    BY <1>1, <1>2, <2>1 DEF OwnedOK, Of
<1>8. Of(row[s].ext, s)'
  <2>1. ASSUME NEW c \in Box, c = row[s].ext
        PROVE  box'[c].of = s
    BY <1>2, <2>1, ReferredStays, LifecycleAssumption DEF Of
  <2> QED
    BY <1>2, <1>3, <2>1 DEF Of
<1>9. Named => OneBox(s)' /\ NamedOK(t)'
  <2>1. BoxesOf(task[t].s)' = BoxesOf(s)'
    BY <1>1 DEF BoxesOf
  <2> QED
    BY <1>1, <2>1 DEF OneBox, NamedOK
<1>10. KeptIds => /\ ReusesOK(t)' /\ StaleOK(t)'
                  /\ \A c \in Box : row[s].ext = c /\ Exists(c)' => row'[s].ext = c
  <2>1. ASSUME KeptIds, Exists(row[task[t].s].ext)'
        PROVE  b = row'[s].ext
    <3>1. row'[s].ext = row[s].ext /\ Exists(row[s].ext)'
      BY <1>1, <1>3, <2>1
    <3>2. PICK c \in Box : c = row[s].ext
      BY <1>2, <1>3, <3>1 DEF Exists
    <3>3. Exists(c)'
      BY <1>3, <3>1, <3>2
    <3> QED
      BY <2>1, <3>1, <3>2, <3>3
  <2>2. KeptIds => ReusesOK(t)'
    BY <1>1, <2>1 DEF ReusesOK
  <2>3. StaleOK(t)'
    BY <1>1, <1>2 DEF StaleOK
  <2> QED
    BY <1>3, <2>2, <2>3
<1>11. KeepsBoxes => /\ row'[s].ext # NoBox => Exists(row[s].ext)'
                     /\ \A c \in Box : Exists(c) /\ ~Exists(c)' => box[c].of = s
  <2>1. ASSUME KeepsBoxes, row'[s].ext # NoBox
        PROVE  Exists(row[s].ext)'
    <3>1. PICK c \in Box : c = row[s].ext
      BY <1>2, <1>3, <2>1
    <3>2. Exists(c)
      BY <1>3, <2>1, <3>1 DEF LifecycleInv
    <3>3. Exists(c)'
      BY <2>1, <3>2
    <3> QED
      BY <1>3, <3>1, <3>3
  <2> QED
    BY <2>1
<1> QED
  BY <1>2, <1>3, <1>4, <1>5, <1>6, <1>7, <1>8, <1>9, <1>10, <1>11, LockedStep
\* up(), and the replacement of a container that is not ready.
LEMMA UpKeeps ==
    ASSUME LifecycleInv, NEW t \in Task, Up(t)
    PROVE  LifecycleInv'
<1>1. PICK s \in Sandbox : s = task[t].s
  BY Basics
<1>2. /\ LifecycleTypes /\ KindOK(t) /\ FreshOK(t) /\ OwnedOK(t) /\ Of(row[s].ext, s)
      /\ task[t].rt \in Box \cup {NoBox} /\ row[s].ext \in Box \cup {NoBox}
      /\ box \in [Box -> BoxState] /\ NoBox \notin Box
  BY <1>1, Basics, LifecycleAssumption DEF LifecycleTypes
<1>3. /\ task[t].pc = "up" /\ UNCHANGED <<dbVars, lock, count>>
      /\ ~CacheMiss => task[t].rt = row[s].ext
  BY <1>1, <1>2 DEF Up, KindOK, FreshOK, SeesRow
<1>4. count' \in [requests : Nat, abandons : Nat, faults : Nat]
  BY <1>2, <1>3 DEF LifecycleTypes
<1>5. /\ \A c \in Box : Exists(c) <=> box[c].state # "none"
      /\ \A c \in Box : Exists(c)' <=> box'[c].state # "none"
  BY <1>2 DEF Exists
<1>6. ASSUME NEW c \in Box, c = row[s].ext, Exists(c), Named
      PROVE  c \in BoxesOf(s)
  BY <1>2, <1>5, <1>6 DEF BoxesOf, Of
<1>7. ASSUME NEW b \in Reusable(s, task[t].rt),
             box' = [box EXCEPT ![b].state = "running"],
             task' = [task EXCEPT ![t].pc = "ready", ![t].rt = b, ![t].reused = TRUE]
      PROVE  LifecycleInv'
  <2>1. b \in Box /\ Exists(b) /\ box[b].of = s /\ (~Named => b = task[t].rt)
    BY <1>1, <1>2, <1>5, <1>7 DEF Reusable, BoxesOf, OwnedOK, Of, Exists
  <2>2. box' \in [Box -> BoxState] /\ box'[b].of = s
        /\ \A c \in Box : box'[c].of = box[c].of /\ (Exists(c)' <=> Exists(c))
    <3> DEFINE x == [box[b] EXCEPT !.state = "running"]
    <3>1. box' = [box EXCEPT ![b] = x]
      BY <1>7
    <3>2. x \in BoxState /\ x.of = box[b].of /\ x.state = "running"
      BY <1>2, <2>1 DEF BoxState
    <3> HIDE DEF x
    <3> QED
      BY <1>2, <1>5, <2>1, <3>1, <3>2
  <2>3. Named => BoxesOf(s)' \subseteq {b}
    <3>1. b \in BoxesOf(s) /\ BoxesOf(s)' \subseteq BoxesOf(s)
      BY <1>5, <2>1, <2>2 DEF BoxesOf
    <3>2. Named => OneBox(s)
      BY DEF LifecycleInv
    <3> QED
      BY <3>1, <3>2 DEF OneBox
  <2>4. ASSUME KeptIds, NEW c \in Box, row[s].ext = c, Exists(c)'
        PROVE  c = b
    <3>1. CASE Named
      <4>1. c \in BoxesOf(s) /\ b \in BoxesOf(s)
        BY <1>5, <1>6, <2>1, <2>2, <2>4, <3>1 DEF BoxesOf
      <4> QED
        BY <3>1, <4>1 DEF LifecycleInv, OneBox
    <3>2. CASE ~Named
      BY <1>3, <2>1, <2>4, <3>2 DEF KeptIds
    <3> QED
      BY <3>1, <3>2
  <2>5. BoxesFor(s)
    BY <2>2 DEF BoxesFor
  <2>6. /\ task[t].pc \in {"up", "ready"} /\ UNCHANGED <<dbVars, lock>> /\ TRUE \in BOOLEAN
        /\ KeepsBoxes => \A c \in Box : Exists(c) => Exists(c)'
    BY <1>3, <2>2
  <2> QED
    BY <1>1, <1>4, <1>7, <2>1, <2>2, <2>3, <2>4, <2>5, <2>6, GotStep
<1>8. ASSUME Reusable(s, task[t].rt) = {}, NEW b \in Box, Creates(t, b),
             box' = [box EXCEPT ![b] = Created(b, s)]
      PROVE  LifecycleInv'
  <2>1. Unused(b) /\ task' = [task EXCEPT ![t].pc = "ready", ![t].rt = b, ![t].reused = FALSE]
    BY <1>8 DEF Creates
  <2>2. Created(b, s) \in BoxState /\ Created(b, s).of = s
    BY DEF Created, BoxState
  <2>3. /\ box' \in [Box -> BoxState] /\ box'[b].of = s
        /\ \A c \in Box : c # b => box'[c] = box[c]
    BY <1>2, <1>8, <2>2
  <2>4. BoxesFor(s)
    BY <1>5, <2>1, <2>3 DEF BoxesFor
  <2>5. Named => BoxesOf(s)' \subseteq {b}
    BY <1>8, <2>3 DEF BoxesOf, Reusable
  <2>6. ASSUME KeptIds, NEW c \in Box, row[s].ext = c, Exists(c)'
        PROVE  c = b
    <3>1. c # b
      BY <2>1, <2>6 DEF Unused
    <3>2. Exists(c)
      BY <1>5, <2>3, <2>6, <3>1
    <3>3. CASE Named
      BY <1>6, <1>8, <2>6, <3>2, <3>3 DEF Reusable
    <3>4. CASE ~Named
      BY <1>3, <1>8, <2>6, <3>2, <3>4 DEF Reusable, KeptIds
    <3> QED
      BY <3>3, <3>4
  <2>7. /\ task[t].pc \in {"up", "ready"} /\ UNCHANGED <<dbVars, lock>> /\ FALSE \in BOOLEAN
        /\ KeepsBoxes => \A c \in Box : Exists(c) => Exists(c)'
    BY <1>3, <1>5, <2>1, <2>3 DEF Unused
  <2> QED
    BY <1>1, <1>4, <2>1, <2>3, <2>4, <2>5, <2>6, <2>7, GotStep
<1> QED
  BY <1>1, <1>7, <1>8 DEF Up

\* The old container goes, and the start waits for a new one.
LEMMA ReplacesKeeps ==
    ASSUME LifecycleInv, NEW t \in Task, Replaces(t)
    PROVE  LifecycleInv'
<1>1. PICK s \in Sandbox : s = task[t].s
  BY Basics
<1>2. /\ LifecycleTypes /\ task[t].rt \in Box \cup {NoBox} /\ task[t].pc = "ready"
      /\ UNCHANGED <<dbVars, lock>> /\ Fault /\ NoBox \notin Box
  BY Basics, LifecycleAssumption DEF Replaces
<1>3. PICK b \in Box : /\ Creates(t, b)
                      /\ box' = [Removed(task[t].rt) EXCEPT ![b] = Created(b, s)]
  BY <1>1 DEF Replaces
<1>4. Unused(b) /\ task' = [task EXCEPT ![t].pc = "ready", ![t].rt = b, ![t].reused = FALSE]
  BY <1>3 DEF Creates
<1>5. task[t].rt # b /\ row[s].ext # b
  BY <1>4 DEF Unused
<1> DEFINE left == Removed(task[t].rt)
<1>6. /\ left \in [Box -> BoxState]
      /\ \A c \in Box : /\ left[c].of = box[c].of
                        /\ c # task[t].rt => left[c] = box[c]
      /\ task[t].rt \in Box => left[task[t].rt].state = "none"
  BY <1>2, RemovedIs
<1>7. Created(b, s) \in BoxState /\ Created(b, s).of = s
  BY DEF Created, BoxState
<1> HIDE DEF left
<1>8. /\ box' \in [Box -> BoxState] /\ box'[b].of = s
      /\ \A c \in Box : c # b => box'[c] = left[c]
  BY <1>3, <1>6, <1>7 DEF left
<1>9. /\ \A c \in Box : Exists(c) <=> box[c].state # "none"
      /\ \A c \in Box : Exists(c)' <=> box'[c].state # "none"
  BY <1>2 DEF Exists
<1>10. BoxesFor(s)
  BY <1>4, <1>6, <1>8, <1>9 DEF BoxesFor
<1>11. Named => BoxesOf(s)' \subseteq {b}
  <2>1. Named => BoxesOf(s) \subseteq {task[t].rt}
    BY <1>1, <1>2 DEF LifecycleInv, NamedOK
  <2>2. ASSUME Named, NEW c \in Box, c # b
        PROVE  ~(box'[c].state # "none" /\ box'[c].of = s)
    <3>1. CASE c = task[t].rt
      BY <1>6, <1>8, <2>2, <3>1
    <3>2. CASE c # task[t].rt
      BY <1>6, <1>8, <2>1, <2>2, <3>2 DEF BoxesOf
    <3> QED
      BY <3>1, <3>2
  <2> QED
    BY <2>2 DEF BoxesOf
<1>12. ASSUME KeptIds, NEW c \in Box, row[s].ext = c, Exists(c)'
       PROVE  c = b
  <2>1. c # b
    BY <1>5, <1>12
  <2>2. left[c].state # "none"
    BY <1>8, <1>9, <1>12, <2>1
  <2>3. c # task[t].rt
    BY <1>6, <2>2
  <2>4. Exists(c)
    BY <1>6, <1>9, <2>2, <2>3
  <2>5. c = task[t].rt
    BY <1>1, <1>2, <1>12, <2>4 DEF LifecycleInv, ReusesOK
  <2> QED
    BY <2>3, <2>5
<1>13. /\ task[t].pc \in {"up", "ready"} /\ FALSE \in BOOLEAN
       /\ count' \in [requests : Nat, abandons : Nat, faults : Nat]
       /\ KeepsBoxes => \A c \in Box : Exists(c) => Exists(c)'
  BY <1>2, RestIs
<1> QED
  BY <1>1, <1>2, <1>4, <1>8, <1>10, <1>11, <1>12, <1>13, GotStep
\* An operation begins with the row as it is, or without it.
LEMMA BeginKeeps ==
    ASSUME LifecycleInv, NEW t \in Task, NEW s \in Sandbox, NEW loaded \in BOOLEAN,
           NEW kind \in {"ensure", "stop", "idle", "reconcile"}, Begin(t, kind, s, loaded),
           kind = "ensure" => ~loaded \/ CacheMiss,
           kind = "reconcile" => loaded /\ "reconcile" \in Sweeps,
           UNCHANGED count \/ Requested
    PROVE  LifecycleInv'
<1> DEFINE seen == IF loaded THEN row[s] ELSE BlankRow
           n == [FreeTask EXCEPT !.kind = kind, !.pc = "want", !.s = s, !.loaded = loaded,
                                 !.seen = seen]
<1>1. /\ task[t].pc = "free" /\ task' = [task EXCEPT ![t] = n]
      /\ UNCHANGED <<dbVars, box, lock>> /\ task \in [Task -> TaskState]
  BY DEF Begin, LifecycleInv, LifecycleTypes
<1>2. /\ row[s] \in Row /\ Of(row[s].ext, s) /\ BlankRow \in Row /\ BlankRow.ext = NoBox
  BY RowValues DEF LifecycleInv, LifecycleTypes
<1>3. seen \in Row /\ Of(seen.ext, s) /\ (loaded => seen = row[s])
  BY <1>2 DEF Of
<1> HIDE DEF seen
<1>4. /\ n \in TaskState /\ n.kind = kind /\ n.pc = "want" /\ n.s = s /\ n.loaded = loaded
      /\ n.seen = seen /\ n.rt = NoBox /\ n.todo = <<>>
  BY <1>3, FreeTaskIs DEF TaskState
<1> HIDE DEF n
<1>5. task'[t] = n /\ OnlyTask(t)
  BY <1>1, <1>4 DEF OnlyTask
<1>6. KindOK(t)'
  BY <1>4, <1>5 DEF KindOK
<1>7. OwnedOK(t)'
  BY <1>1, <1>3, <1>4, <1>5 DEF OwnedOK, Of
<1>8. StaleOK(t)'
  BY <1>1, <1>3, <1>4, <1>5 DEF StaleOK, dbVars
<1>9. RestTyped /\ UNCHANGED <<row, box, lock>>
  BY <1>1, RestIs DEF RestTyped, dbVars
<1>10. task[t].pc \in Outside /\ task'[t].pc \in Outside
  BY <1>1, <1>4, <1>5 DEF Outside
<1> QED
  BY <1>5, <1>6, <1>7, <1>8, <1>9, <1>10, OutsideStep

\* Requests.
LEMMA AskKeeps ==
    ASSUME LifecycleInv, NEW t \in Request, NEW s \in Sandbox, Ask(t, s)
    PROVE  LifecycleInv'
<1>1. t \in Task /\ CacheMiss \in BOOLEAN
  BY LifecycleAssumption DEF Task
<1>2. CASE WantRunning(t, s)
  <2>1. PICK loaded \in {FALSE, CacheMiss} : Begin(t, "ensure", s, loaded)
    BY <1>2 DEF WantRunning
  <2> QED
    BY <1>1, <1>2, <2>1, BeginKeeps DEF WantRunning
<1>3. CASE WantStop(t, s)
  BY <1>1, <1>3, BeginKeeps DEF WantStop
<1> QED
  BY <1>2, <1>3 DEF Ask

\* The sweepers' selections: rows for the idle sweeper, and the row of the orphan sweep.
LEMMA SweepKeeps ==
    ASSUME LifecycleInv, NEW s \in Sandbox, Sweep(s)
    PROVE  LifecycleInv'
<1>1. IdleSweeper \in Task /\ OrphanSweeper \in Task
  BY DEF Task
<1>2. CASE SelectIdle(s)
  BY <1>1, <1>2, BeginKeeps DEF SelectIdle
<1>3. CASE SelectStale(s)
  BY <1>1, <1>3, BeginKeeps DEF SelectStale
<1>4. CASE SelectRows(s)
  <2> DEFINE t == OrphanSweeper
             n == [FreeTask EXCEPT !.kind = "orphan", !.pc = "listing", !.s = s,
                                   !.loaded = TRUE, !.seen = row[s]]
  <2>1. /\ task[t].pc = "free" /\ task' = [task EXCEPT ![t] = n] /\ "orphan" \in Sweeps
        /\ UNCHANGED <<dbVars, box, lock, count>> /\ task \in [Task -> TaskState]
        /\ row[s] \in Row /\ Of(row[s].ext, s)
    BY <1>4 DEF SelectRows, LifecycleInv, LifecycleTypes
  <2>2. /\ n \in TaskState /\ n.kind = "orphan" /\ n.pc = "listing" /\ n.s = s
        /\ n.loaded = TRUE /\ n.seen = row[s] /\ n.rt = NoBox /\ n.todo = <<>>
    BY <2>1, FreeTaskIs DEF TaskState
  <2> HIDE DEF n
  <2>3. task'[t] = n /\ OnlyTask(t)
    BY <1>1, <2>1, <2>2 DEF OnlyTask
  <2>4. KindOK(t)'
    BY <2>1, <2>2, <2>3 DEF KindOK
  <2>5. OwnedOK(t)'
    BY <2>1, <2>2, <2>3 DEF OwnedOK, Of
  <2>6. StaleOK(t)'
    BY <2>2, <2>3 DEF StaleOK
  <2>7. RestTyped /\ UNCHANGED <<row, box, lock>>
    BY <2>1, RestIs DEF RestTyped, dbVars
  <2>8. task[t].pc \in Outside /\ task'[t].pc \in Outside
    BY <2>1, <2>2, <2>3 DEF Outside
  <2> QED
    BY <1>1, <2>3, <2>4, <2>5, <2>6, <2>7, <2>8, OutsideStep
<1> QED
  BY <1>2, <1>3, <1>4 DEF Sweep

\* The plan of a sweep is a sequence of actions.
LEMMA PlansAreActions ==
    ASSUME NEW found \in SUBSET Box, NEW r \in Row, NEW p \in UnboundPlans(found, r)
    PROVE  p \o BoundPlan(found, r) \in Seq(OrphanAction)
<1>1. PICK q \in SetToSeqs(found \ {r.ext}) :
         p = [i \in DOMAIN q |-> [act |-> "remove", b |-> q[i]]]
  BY DEF UnboundPlans
<1>2. PICK left \in SUBSET Box : left = found \ {r.ext}
  OBVIOUS
<1>3. Cardinality(left) \in Nat
  BY LifecycleAssumption, FS_Subset, FS_CardinalityType
<1>4. q \in [1..Cardinality(left) -> left]
  BY <1>1, <1>2 DEF SetToSeqs
<1>5. p \in [1..Cardinality(left) -> OrphanAction]
  BY <1>1, <1>4 DEF OrphanAction
<1>6. p \in Seq(OrphanAction)
  BY <1>3, <1>5
<1>7. ASSUME NEW act \in {"remove", "stop", "set_stopped"}
      PROVE  Plan(act, NoBox) \in Seq(OrphanAction)
  BY DEF Plan, OrphanAction
<1>8. <<>> \in Seq(OrphanAction)
  BY EmptySeq
<1>9. Plan("stop", NoBox) \o Plan("set_stopped", NoBox) \in Seq(OrphanAction)
  BY <1>7, ConcatProperties
<1>10. BoundPlan(found, r) \in Seq(OrphanAction)
  BY <1>7, <1>8, <1>9 DEF BoundPlan
<1> QED
  BY <1>6, <1>10, ConcatProperties

\* The orphan sweeper plans.
LEMMA ListBoxesKeeps ==
    ASSUME LifecycleInv, ListBoxes
    PROVE  LifecycleInv'
<1> DEFINE t == OrphanSweeper
           found == BoxesOf(task[t].s)
           r == task[t].seen
<1>1. t \in Task
  BY DEF Task
<1>2. /\ r \in Row /\ task[t] \in TaskState /\ KindOK(t) /\ OwnedOK(t)
  BY <1>1, Basics
<1>3. task[t].pc = "listing" /\ UNCHANGED <<dbVars, box, lock, count>>
  BY DEF ListBoxes
<1>4. task[t].kind = "orphan" /\ "orphan" \in Sweeps
  BY <1>2, <1>3 DEF KindOK
<1>5. PICK p \in UnboundPlans(found, r) :
         task' = [task EXCEPT ![t] =
                    IF p \o BoundPlan(found, r) = <<>> THEN FreeTask
                    ELSE [@ EXCEPT !.pc = "want", !.todo = p \o BoundPlan(found, r)]]
  BY DEF ListBoxes
<1>6. found \in SUBSET Box
  BY DEF BoxesOf
<1> HIDE DEF found, r
<1>7. PICK todo \in Seq(OrphanAction) : todo = p \o BoundPlan(found, r)
  BY <1>2, <1>6, PlansAreActions
<1> DEFINE n == IF todo = <<>> THEN FreeTask ELSE [task[t] EXCEPT !.pc = "want", !.todo = todo]
<1>8. task' = [task EXCEPT ![t] = n]
  BY <1>5, <1>7
<1>9. /\ n \in TaskState
      /\ \/ n = FreeTask
         \/ /\ n.kind = "orphan" /\ n.pc = "want" /\ n.s = task[t].s /\ n.todo # <<>>
            /\ n.seen = task[t].seen /\ n.rt = task[t].rt
  <2>1. CASE todo = <<>>
    BY <2>1, FreeTaskIs
  <2>2. CASE todo # <<>>
    BY <1>2, <1>4, <2>2 DEF TaskState
  <2> QED
    BY <2>1, <2>2
<1> HIDE DEF n
<1>10. task'[t] = n /\ OnlyTask(t)
  BY <1>1, <1>8, <1>9 DEF OnlyTask, LifecycleInv, LifecycleTypes
<1>11. KindOK(t)'
  BY <1>4, <1>9, <1>10, FreeTaskIs DEF KindOK
<1>12. OwnedOK(t)'
  BY <1>2, <1>3, <1>9, <1>10, FreeTaskIs DEF OwnedOK, Of
<1>13. StaleOK(t)'
  BY <1>9, <1>10, FreeTaskIs DEF StaleOK
<1>14. RestTyped /\ UNCHANGED <<row, box, lock>>
  BY <1>3, RestIs DEF RestTyped, dbVars
<1>15. task[t].pc \in Outside /\ task'[t].pc \in Outside
  BY <1>3, <1>9, <1>10, FreeTaskIs DEF Outside
<1> QED
  BY <1>1, <1>10, <1>11, <1>12, <1>13, <1>14, <1>15, OutsideStep

\* Time passes, and containers die.
LEMMA TimeKeeps ==
    ASSUME LifecycleInv, NEW s \in Sandbox, Use(s) \/ GetsIdle(s) \/ Ages(s)
    PROVE  LifecycleInv'
<1>1. /\ UNCHANGED <<row, box, task, lock, count>>
      /\ idle' \subseteq Sandbox /\ aged' \subseteq Sandbox
  BY DEF Use, GetsIdle, Ages, LifecycleInv, LifecycleTypes
<1>2. RestTyped /\ BoxesShrink /\ \A b \in Box : Exists(b) => Exists(b)'
  BY <1>1, RestIs DEF RestTyped
<1> QED
  BY <1>1, <1>2, NobodysStep

\* A container dies: a fault, so nothing is promised of the containers of rows.
LEMMA BoxDiesKeeps ==
    ASSUME LifecycleInv, NEW b \in Box, BoxDies(b)
    PROVE  LifecycleInv'
<1>1. /\ UNCHANGED <<dbVars, task, lock>> /\ Fault /\ box' = Stopped(b) /\ LifecycleTypes
  BY DEF BoxDies, LifecycleInv
<1>2. box' \in [Box -> BoxState] /\ BoxesShrink
  BY <1>1, StoppedIs
<1>3. RestTyped /\ ~KeepsBoxes
  BY <1>1, <1>2, RestIs DEF RestTyped
<1> QED
  BY <1>1, <1>2, <1>3, NobodysStep DEF dbVars

-----------------------------------------------------------------------------
(* The theorems *)

\* The invariant holds at first: no row is bound and nobody runs.
LEMMA LifecycleInit == Init => LifecycleInv
<1> SUFFICES ASSUME Init
             PROVE  LifecycleInv
  OBVIOUS
<1>1. PICK z \in Sandbox : z = CHOOSE s \in Sandbox : TRUE
  BY LifecycleAssumption
<1>2. /\ row = [s \in Sandbox |-> BlankRow] /\ idle = {} /\ aged = {}
      /\ box = [b \in Box |-> [state |-> "none", of |-> z]]
      /\ task = [t \in Task |-> FreeTask] /\ lock = [s \in Sandbox |-> NoTask]
      /\ count = [requests |-> 0, abandons |-> 0, faults |-> 0]
  BY <1>1 DEF Init
<1>3. BlankRow \in Row /\ BlankRow.ext = NoBox /\ BlankRow.status = "pending"
  BY DEF BlankRow, Row, SandboxStatus
<1>4. LifecycleTypes
  BY <1>2, <1>3, FreeTaskIs DEF LifecycleTypes, BoxState
<1>5. LifecycleLocks
  BY <1>2, FreeTaskIs, LifecycleAssumption DEF LifecycleLocks, Inside
<1>6. \A t \in Task : KindOK(t) /\ FreshOK(t) /\ OwnedOK(t) /\ NamedOK(t) /\ ReusesOK(t) /\ StaleOK(t)
  BY <1>2, FreeTaskIs DEF KindOK, FreshOK, SeesRow, OwnedOK, Of, NamedOK, ReusesOK, StaleOK
<1>7. \A s \in Sandbox : Of(row[s].ext, s) /\ row[s].status # "running" /\ row[s].ext = NoBox
  BY <1>2, <1>3 DEF Of
<1>8. \A s \in Sandbox : OneBox(s)
  BY <1>2 DEF OneBox, BoxesOf
<1> QED
  BY <1>4, <1>5, <1>6, <1>7, <1>8 DEF LifecycleInv

\* Every step keeps it.
LEMMA LifecycleNext == LifecycleInv /\ [Next]_vars => LifecycleInv'
<1> SUFFICES ASSUME LifecycleInv, [Next]_vars
             PROVE  LifecycleInv'
  OBVIOUS
<1>1. ASSUME NEW t \in Request, NEW s \in Sandbox, Ask(t, s)
      PROVE  LifecycleInv'
  BY <1>1, AskKeeps
<1>2. ASSUME NEW s \in Sandbox, Sweep(s)
      PROVE  LifecycleInv'
  BY <1>2, SweepKeeps
<1>3. ASSUME NEW s \in Sandbox, Use(s) \/ GetsIdle(s) \/ Ages(s)
      PROVE  LifecycleInv'
  BY <1>3, TimeKeeps
<1>4. CASE ListBoxes
  BY <1>4, ListBoxesKeeps
<1>5. ASSUME NEW t \in Task, Enter(t)
      PROVE  LifecycleInv'
  BY <1>5, EnsureKeeps, StopsKeeps, ReconcilesKeeps, OrphanActsKeeps DEF Enter
<1>6. ASSUME NEW t \in Task, Proceed(t)
      PROVE  LifecycleInv'
  BY <1>6, ReserveKeeps, UpKeeps, ReplacesKeeps, ReadyKeeps, StartFailsKeeps, RecreateKeeps,
     StopSucceedsKeeps, StopFailsKeeps DEF Proceed
<1>7. ASSUME NEW t \in Task, Abandon(t)
      PROVE  LifecycleInv'
  BY <1>7, AbandonKeeps
<1>8. ASSUME NEW b \in Box, BoxDies(b)
      PROVE  LifecycleInv'
  BY <1>8, BoxDiesKeeps
<1>9. CASE UNCHANGED vars
  <2>1. UNCHANGED <<row, box, task, lock, count, idle, aged>>
    BY <1>9 DEF vars, dbVars
  <2>2. RestTyped /\ BoxesShrink /\ \A b \in Box : Exists(b) => Exists(b)'
    BY <2>1, RestIs DEF RestTyped, dbVars
  <2> QED
    BY <2>1, <2>2, NobodysStep
<1> QED
  BY <1>1, <1>2, <1>3, <1>4, <1>5, <1>6, <1>7, <1>8, <1>9 DEF Next

\* It always holds.
LEMMA LifecycleHolds == Spec => []LifecycleInv
<1> QED
  BY LifecycleInit, LifecycleNext, PTL DEF Spec

\* Types of rows, containers and operations, and a lock for everybody inside: the
\* whole lifecycle, whatever the settings.
THEOREM SandboxTypes == Spec => []TypeOK
<1>1. LifecycleInv => TypeOK
  <2> SUFFICES ASSUME LifecycleInv
               PROVE  TypeOK
    OBVIOUS
  <2>1. LifecycleTypes /\ LifecycleLocks
    BY DEF LifecycleInv
  <2>2. ASSUME NEW t \in Task
        PROVE  task[t].pc \in {"free", "listing", "want"} <=> \A s \in Sandbox : lock[s] # t
    <3>1. task[t] \in TaskState
      BY <2>1 DEF LifecycleTypes
    <3>2. task[t].s \in Sandbox /\ (task[t].pc \in Inside <=> task[t].pc \notin {"free", "listing", "want"})
      BY <3>1 DEF TaskState, Inside
    <3>3. \A s \in Sandbox : lock[s] = t <=> task[t].pc \in Inside /\ task[t].s = s
      BY <2>1 DEF LifecycleLocks
    <3> QED
      BY <3>2, <3>3
  <2> QED
    BY <2>1, <2>2 DEF TypeOK, LifecycleTypes, BoxState
<1> QED
  BY <1>1, LifecycleHolds, PTL

\* A row in RUNNING names a container of its own sandbox: under not_remove with rows
\* read anew under the lock and a Docker that does not fail, or without the reconciling
\* sweep (which heals a row whose probe answered) and, where containers are removed,
\* without the orphan sweeper (which clears the id of a row that was started after it
\* looked).
THEOREM RunningRowsAreBound ==
    ASSUME \/ Preserve /\ ~CacheMiss /\ MaxFaults = 0
           \/ "reconcile" \notin Sweeps /\ (Preserve \/ "orphan" \notin Sweeps)
    PROVE  Spec => []RunningIsBound
<1>1. LifecycleInv => RunningIsBound
  <2> SUFFICES ASSUME LifecycleInv, NEW s \in Sandbox, row[s].status = "running"
               PROVE  row[s].ext # NoBox /\ box[row[s].ext].of = s
    BY DEF RunningIsBound
  <2>1. row[s].ext # NoBox /\ Of(row[s].ext, s)
    BY DEF LifecycleInv, BindsIds, KeptIds
  <2> QED
    BY <2>1 DEF Of
<1> QED
  BY <1>1, LifecycleHolds, PTL

\* With not_remove, the container of a stopped sandbox is there for its next start: no
\* operation of the lifecycle but the orphan sweeper takes it away.
THEOREM BoxesAreKept ==
    ASSUME MaxFaults = 0, "orphan" \notin Sweeps
    PROVE  Spec => []StoppedKeepsBox
<1>1. LifecycleInv => StoppedKeepsBox
  BY DEF LifecycleInv, KeepsBoxes, StoppedKeepsBox
<1> QED
  BY <1>1, LifecycleHolds, PTL
-----------------------------------------------------------------------------
(* The limit *)

ActiveStatus == {"running", "starting"}

\* An operation whose session has held the row since before the lock commits RUNNING over a
\* row that has stopped or failed meanwhile.  Nobody holds a place for that row: the
\* STARTING in the object was another start's, and setting it again has emitted no UPDATE
\* (set_status under ensure_running_for_user and _reconcile_stale_starting_unlocked).
StaleRevival ==
    \E t \in Task :
        /\ task[t].loaded /\ task[t].kind \in {"ensure", "reconcile"}
        /\ task'[t] # task[t]
        /\ row[task[t].s].status \notin ActiveStatus
        /\ row'[task[t].s].status = "running"

\* One row changes at most, and it becomes active where there is room, or from a stale
\* object.
Admits(s) ==
    /\ OnlyRow(s)
    /\ row'[s].status \in ActiveStatus =>
          row[s].status \in ActiveStatus \/ Cardinality(Active) < MaxActive \/ StaleRevival

\* Where nothing is revived, a row that is admitted leaves the active ones within the
\* limit.
LEMMA AdmittedFits ==
    ASSUME NEW s \in Sandbox, Admits(s), ~StaleRevival, CapacityRespected
    PROVE  CapacityRespected'
<1>1. IsFiniteSet(Active) /\ IsFiniteSet(Active') /\ Cardinality(Active) \in Nat
  <2>1. Active \subseteq Sandbox /\ Active' \subseteq Sandbox
    BY DEF Active
  <2> QED
    BY <2>1, LifecycleAssumption, FS_Subset, FS_CardinalityType
<1>2. MaxActive \in Nat
  BY LifecycleAssumption
<1>3. CASE Active' \subseteq Active
  <2>1. Cardinality(Active') <= Cardinality(Active) /\ Cardinality(Active') \in Nat
    BY <1>1, <1>3, FS_Subset, FS_CardinalityType
  <2> QED
    BY <1>1, <1>2, <2>1 DEF CapacityRespected
<1>4. CASE ~(Active' \subseteq Active)
  <2>1. s \in Active' /\ s \notin Active /\ Active' \subseteq Active \cup {s}
    BY <1>4 DEF Active, Admits, OnlyRow
  <2>2. Cardinality(Active) < MaxActive
    BY <2>1 DEF Active, Admits, ActiveStatus
  <2>3. /\ IsFiniteSet(Active \cup {s})
        /\ Cardinality(Active \cup {s}) = Cardinality(Active) + 1
    BY <1>1, <2>1, FS_AddElement
  <2>4. Cardinality(Active') <= Cardinality(Active) + 1 /\ Cardinality(Active') \in Nat
    BY <1>1, <2>1, <2>3, FS_Subset, FS_CardinalityType
  <2> QED
    BY <1>1, <1>2, <2>2, <2>4 DEF CapacityRespected
<1> QED
  BY <1>3, <1>4

\* Rows that are left alone are admitted (a row's read without a commit).
LEMMA RestingRows ==
    ASSUME LifecycleInv, UNCHANGED row, NEW s \in Sandbox
    PROVE  Admits(s)
BY DEF Admits, OnlyRow, LifecycleInv, LifecycleTypes

\* A commit that stops or fails a row (_stop_runtime_for_sandbox) makes it active at most
\* by leaving its status as it is.
LEMMA StoppingRow ==
    ASSUME LifecycleInv, NEW s \in Sandbox, NEW r \in Row, NEW new \in Row, Commit(s, r, new),
           new.status \in {"stopping", "stopped", "error"}
    PROVE  Admits(s)
<1>1. OnlyRow(s) /\ row'[s].status \in {new.status, row[s].status}
  BY CommitIs DEF LifecycleInv
<1> QED
  BY <1>1 DEF Admits, ActiveStatus

\* The rows that operations commit on their way to a stop or an error.
LEMMA StopsAreAdmitted ==
    ASSUME LifecycleInv, NEW t \in Task,
           \/ EnsureReuses(t) \/ EnsureRecreates(t) \/ EnsureRestarts(t) \/ EnsureStarts(t)
           \/ Stops(t) \/ OrphanActs(t) \/ Up(t) \/ Replaces(t) \/ StartFails(t)
           \/ Recreate(t) \/ StopSucceeds(t) \/ StopFails(t) \/ Abandon(t)
    PROVE  Admits(task[t].s)
<1>1. /\ task[t].s \in Sandbox /\ task[t].seen \in Row /\ Read(t) \in Row
      /\ Cleared(task[t].seen) \in Row /\ Cleared(Read(t)) \in Row
  BY Basics, RowValues
<1>2. ASSUME NEW r \in Row, NEW st \in {"stopping", "stopped", "error"},
             Commit(task[t].s, r, [r EXCEPT !.status = st])
      PROVE  Admits(task[t].s)
  <2>1. [r EXCEPT !.status = st] \in Row /\ [r EXCEPT !.status = st].status = st
    <3>1. st \in SandboxStatus
      BY DEF SandboxStatus
    <3> QED
      BY <3>1, RowValues
  <2> QED
    BY <1>1, <1>2, <2>1, StoppingRow
<1>3. ASSUME NEW r \in {task[t].seen, Read(t)},
             Commit(task[t].s, r, [Cleared(r) EXCEPT !.status = "stopped"])
      PROVE  Admits(task[t].s)
  <2>1. PICK c \in Row : c = Cleared(r)
    BY <1>1, <1>3
  <2>2. [c EXCEPT !.status = "stopped"] \in Row /\ [c EXCEPT !.status = "stopped"].status = "stopped"
    BY RowValues DEF SandboxStatus
  <2> QED
    BY <1>1, <1>3, <2>1, <2>2, StoppingRow
<1>4. ASSUME UNCHANGED row
      PROVE  Admits(task[t].s)
  BY <1>1, <1>4, RestingRows
<1>5. ASSUME StopBegins(t, Read(t))
      PROVE  Admits(task[t].s)
  BY <1>1, <1>2, <1>5 DEF StopBegins
<1>6. CASE EnsureReuses(t) \/ EnsureStarts(t) \/ Up(t) \/ Replaces(t) \/ Abandon(t)
  BY <1>4, <1>6 DEF EnsureReuses, EnsureStarts, Up, Replaces, Abandon, dbVars
<1>7. CASE EnsureRecreates(t)
  BY <1>1, <1>2, <1>7 DEF EnsureRecreates
<1>8. CASE EnsureRestarts(t)
  BY <1>5, <1>8 DEF EnsureRestarts
<1>9. CASE Stops(t)
  BY <1>4, <1>5, <1>9 DEF Stops, dbVars
<1>10. CASE OrphanActs(t)
  BY <1>3, <1>4, <1>5, <1>10 DEF OrphanActs, dbVars
<1>11. CASE StartFails(t)
  BY <1>1, <1>2, <1>11 DEF StartFails
<1>12. CASE Recreate(t)
  <2>1. [status |-> "stopped", ext |-> NoBox] \in Row
    BY DEF Row, SandboxStatus
  <2> QED
    BY <1>1, <1>12, <2>1, StoppingRow DEF Recreate
<1>13. CASE StopSucceeds(t)
  BY <1>3, <1>13 DEF StopSucceeds
<1>14. CASE StopFails(t)
  BY <1>1, <1>2, <1>14 DEF StopFails
<1> QED
  BY <1>6, <1>7, <1>8, <1>9, <1>10, <1>11, <1>12, <1>13, <1>14

\* _reserve_capacity_and_mark_starting makes a row active only where it counted room.
LEMMA ReservedIsAdmitted ==
    ASSUME LifecycleInv, NEW t \in Task, Reserve(t)
    PROVE  Admits(task[t].s)
<1>1. task[t].s \in Sandbox /\ task[t].seen \in Row
  BY Basics
<1>2. CASE Cardinality(Active) >= MaxActive
  BY <1>1, <1>2, RestingRows DEF Reserve, dbVars
<1>3. CASE ~(Cardinality(Active) >= MaxActive)
  <2>1. Cardinality(Active) < MaxActive
    <3>1. Active \subseteq Sandbox
      BY DEF Active
    <3>2. Cardinality(Active) \in Nat /\ MaxActive \in Nat
      BY <3>1, LifecycleAssumption, FS_Subset, FS_CardinalityType
    <3> QED
      BY <1>3, <3>2
  <2>2. [task[t].seen EXCEPT !.status = "starting"] \in Row
    BY <1>1, RowValues DEF SandboxStatus
  <2>3. OnlyRow(task[t].s)
    BY <1>1, <1>3, <2>2, CommitIs DEF Reserve, LifecycleInv
  <2> QED
    BY <2>1, <2>3 DEF Admits
<1> QED
  BY <1>2, <1>3

\* A start whose row was read under the lock is RUNNING in a row that it made STARTING; any
\* other one may revive its row.
LEMMA ReadyIsAdmitted ==
    ASSUME LifecycleInv, NEW t \in Task, Ready(t)
    PROVE  Admits(task[t].s)
<1>1. /\ task[t].s \in Sandbox /\ task[t].seen \in Row /\ row[task[t].s] = task[t].seen
      /\ KindOK(t) /\ task[t] \in TaskState /\ task[t].pc = "ready" /\ task[t].kind = "ensure"
      /\ LifecycleTypes
  BY Basics DEF Ready, KindOK, FreshOK, SeesRow
<1>2. task[t].rt \in Box
  BY <1>1 DEF Ready, Running, TaskState
<1> DEFINE new == Bound(task[t].seen, task[t].rt)
<1>3. new \in Row /\ new.status = "running"
  BY <1>1, <1>2 DEF Bound, Row, SandboxStatus
<1>4. Commit(task[t].s, task[t].seen, new) /\ task' = [task EXCEPT ![t] = Finished(t, task[t].seen)]
  BY DEF Ready, Finish
<1> HIDE DEF new
<1>5. OnlyRow(task[t].s) /\ row'[task[t].s].status \in {"running", row[task[t].s].status}
  BY <1>1, <1>3, <1>4, CommitIs
<1>6. CASE task[t].loaded
  <2>1. task'[t].pc \in Outside
    BY <1>1, <1>4, EndIs
  <2>2. task'[t] # task[t]
    BY <1>1, <2>1 DEF Outside
  <2> QED
    BY <1>1, <1>5, <1>6, <2>2 DEF Admits, StaleRevival, ActiveStatus
<1>7. CASE ~task[t].loaded
  BY <1>1, <1>5, <1>7 DEF Admits, KindOK, ActiveStatus
<1> QED
  BY <1>6, <1>7

\* The reconciler holds the row it selected.
LEMMA ReconciledIsAdmitted ==
    ASSUME LifecycleInv, NEW t \in Task, Reconciles(t)
    PROVE  Admits(task[t].s)
<1>1. /\ task[t].s \in Sandbox /\ Read(t) \in Row /\ Cleared(Read(t)) \in Row /\ KindOK(t)
      /\ task[t] \in TaskState /\ LifecycleTypes /\ task[t].kind = "reconcile"
      /\ task[t].loaded
  BY Basics, RowValues DEF Reconciles, KindOK
<1>2. CASE UNCHANGED dbVars
  BY <1>1, <1>2, RestingRows DEF dbVars
<1>3. CASE Commit(task[t].s, Read(t), [Cleared(Read(t)) EXCEPT !.status = "stopped"])
  <2>1. PICK c \in Row : c = Cleared(Read(t))
    BY <1>1
  <2>2. [c EXCEPT !.status = "stopped"] \in Row /\ [c EXCEPT !.status = "stopped"].status = "stopped"
    BY RowValues DEF SandboxStatus
  <2> QED
    BY <1>1, <1>3, <2>1, <2>2, StoppingRow
<1>4. CASE Commit(task[t].s, Read(t), [Read(t) EXCEPT !.status = "running"])
  <2> DEFINE new == [Read(t) EXCEPT !.status = "running"]
  <2>1. new \in Row /\ new.status = "running"
    BY <1>1, RowValues DEF SandboxStatus
  <2>2. Commit(task[t].s, Read(t), new)
    BY <1>4
  <2> HIDE DEF new
  <2>3. OnlyRow(task[t].s) /\ row'[task[t].s].status \in {"running", row[task[t].s].status}
    BY <1>1, <2>1, <2>2, CommitIs
  <2>4. task' = [task EXCEPT ![t] = Finished(t, Read(t))]
    BY DEF Reconciles, Through
  <2>5. task'[t].kind # "reconcile"
    BY <1>1, <2>4, EndIs
  <2>6. task'[t] # task[t]
    BY <1>1, <2>5
  <2> QED
    BY <1>1, <2>3, <2>6 DEF Admits, StaleRevival, ActiveStatus
<1> QED
  BY <1>2, <1>3, <1>4 DEF Reconciles

\* Every step admits the row it changes.
LEMMA LimitStep == LifecycleInv /\ CapacityRespected /\ [Next]_vars /\ ~StaleRevival => CapacityRespected'
<1> SUFFICES ASSUME LifecycleInv, CapacityRespected, [Next]_vars, ~StaleRevival
             PROVE  CapacityRespected'
  OBVIOUS
<1>1. ASSUME UNCHANGED row
      PROVE  CapacityRespected'
  BY <1>1 DEF CapacityRespected, Active
<1>2. ASSUME NEW t \in Task, Admits(task[t].s)
      PROVE  CapacityRespected'
  <2>1. task[t].s \in Sandbox
    BY Basics
  <2> QED
    BY <1>2, <2>1, AdmittedFits
<1>3. ASSUME NEW t \in Request, NEW s \in Sandbox, Ask(t, s)
      PROVE  CapacityRespected'
  BY <1>1, <1>3 DEF Ask, WantRunning, WantStop, Begin, dbVars
<1>4. ASSUME NEW s \in Sandbox, Sweep(s) \/ Use(s) \/ GetsIdle(s) \/ Ages(s)
      PROVE  CapacityRespected'
  BY <1>1, <1>4
     DEF Sweep, SelectIdle, SelectStale, SelectRows, Begin, Use, GetsIdle, Ages, dbVars
<1>5. CASE ListBoxes
  BY <1>1, <1>5 DEF ListBoxes, dbVars
<1>6. ASSUME NEW t \in Task, Enter(t) \/ Proceed(t) \/ Abandon(t)
      PROVE  CapacityRespected'
  BY <1>2, <1>6, StopsAreAdmitted, ReservedIsAdmitted, ReadyIsAdmitted, ReconciledIsAdmitted
     DEF Enter, Proceed
<1>7. ASSUME NEW b \in Box, BoxDies(b)
      PROVE  CapacityRespected'
  BY <1>1, <1>7 DEF BoxDies, dbVars
<1>8. CASE UNCHANGED vars
  BY <1>1, <1>8 DEF vars, dbVars
<1> QED
  BY <1>3, <1>4, <1>5, <1>6, <1>7, <1>8 DEF Next

\* No more rows are active than max_active_sandboxes, whatever is started, recreated,
\* healed, stopped, swept and abandoned at once, as long as no operation makes a row RUNNING
\* again from an object it held before the lock.  The settings do not matter: a session may
\* hold stale objects, and the reconciler may run.
THEOREM LimitIsKept == Spec /\ [][~StaleRevival]_vars => []CapacityRespected
<1>1. Init => CapacityRespected
  <2> SUFFICES ASSUME Init
               PROVE  CapacityRespected
    OBVIOUS
  <2>1. Active = {}
    BY DEF Init, Active, BlankRow
  <2> QED
    BY <2>1, FS_EmptySet, LifecycleAssumption DEF CapacityRespected
<1>2. LifecycleInv /\ CapacityRespected /\ [Next]_vars /\ [~StaleRevival]_vars => CapacityRespected'
  <2>1. UNCHANGED vars => (CapacityRespected => CapacityRespected')
    BY DEF CapacityRespected, Active, vars, dbVars
  <2> QED
    BY <2>1, LimitStep
<1> QED
  BY <1>1, <1>2, LifecycleHolds, PTL DEF Spec
=============================================================================
