-------------------------- MODULE ExperimentalTurn --------------------------
(***************************************************************************)
(* The presentation graph of agents/experimental/graph.py.  An outer run   *)
(* (kickoff -> pump -> ... -> END) starts a background run of the agent in  *)
(* a hidden inner thread, polls that thread, and shows its texts and       *)
(* widgets one by one; a question of the inner run is put to the user and  *)
(* the answer sent back in a new inner run.                                 *)
(*                                                                         *)
(* Every await that matters is a step of its own: between two of them the  *)
(* inner run goes on, and the user may stop the outer run.  A node's       *)
(* updates reach the outer state only when the node returns; a node that   *)
(* is cut short loses what it kept in local variables, and is run again    *)
(* from its beginning, calls to the server and the cache included.         *)
(*                                                                         *)
(* External (the LangGraph server and the agent, as graph.py uses them):   *)
(* runs of a thread are queued; the human message of a run, and the stub   *)
(* answer that repairs the history before it, appear when the run starts.  *)
(***************************************************************************)
EXTENDS Integers, Sequences, FiniteSets, SequencesExt

CONSTANTS
    MaxInnerRuns,   \* bound on inner runs, the repeated ones included
    MaxWrites,      \* bound on the messages an inner run writes
    MaxSubmits,     \* bound on messages and retries of the user
    MaxStops,       \* bound on stops of the outer run
    MaxOuterFaults  \* bound on failed runs and calls, restarts and lost cache entries

ASSUME ExperimentalAssumption ==
    /\ MaxInnerRuns \in Nat \ {0} /\ MaxWrites \in Nat /\ MaxWrites >= 2
    /\ MaxSubmits \in Nat /\ MaxStops \in Nat /\ MaxOuterFaults \in Nat

VARIABLES
    thread,    \* inner thread: its messages; a message's id is its position
    runs,      \* inner runs, in the order they were created
    question,  \* the interrupt pending in the inner thread, 0 if none
    node,      \* where the outer run is
    local,     \* local variables of the node under way
    state,     \* ExperimentalState, as last committed
    shown,     \* inner messages in the outer thread, in its order
    marker,    \* marker[a]: the activity marker with activity_id a
    activity,  \* the activity log in the cache
    tally      \* submits, stops, faults and questions so far

innerVars == <<thread, runs, question>>
outerVars == <<node, local, state, shown, marker, activity>>
experimentalVars == <<innerVars, outerVars, tally>>

-----------------------------------------------------------------------------
(* Messages and runs *)

\* "ai" has text for the user, "call" is an AI message with a tool call and no
\* text, "ask" one that calls ask_questions, "result" and "widget" answer a call.
InnerKind == {"human", "ai", "call", "ask", "result", "widget"}

\* A message remembers the turn (activity_id) of the run that wrote it.
InnerMessage == [kind : InnerKind, turn : 1..MaxInnerRuns]

InnerRun == [status : {"pending", "running", "success", "error", "interrupted", "forgotten"},
             how    : {"input", "resume", "retry"},
             answers : Nat,                   \* the question a resume answers
             turn   : 1..MaxInnerRuns,
             left   : 0..MaxWrites]           \* messages it may still write

ActiveRunStatuses_Interrupted == {"pending", "running", "interrupted"}
ActiveRunStatuses == {"pending", "running"}
Active(r) == runs[r].status \in ActiveRunStatuses

\* _eligible_output
Eligible(i) == thread[i].kind \in {"ai", "widget"}

LastKind == IF thread = <<>> THEN "none" ELSE Last(thread).kind

-----------------------------------------------------------------------------
(* The outer run's state *)

Nowhere == [pc |-> "none", base |-> 0, clean |-> TRUE, made |-> 0, retry |-> FALSE,
            cursor |-> {}, item |-> 0]

\* A cache without a boundary gives 0.  clean: it gives the length the thread had in
\* kickoff, while no inner run was under way.
NoActivity == [finished |-> FALSE, tools |-> {}, base |-> 0, clean |-> TRUE]
KeptActivity(log, boundary) ==
    [finished |-> log /\ activity.finished,
     tools |-> IF log THEN activity.tools ELSE {},
     base |-> IF boundary THEN activity.base ELSE 0,
     clean |-> activity.clean /\ (boundary \/ activity.base = 0)]

ExperimentalInit ==
    /\ thread = <<>> /\ runs = <<>> /\ question = 0
    /\ node = "idle" /\ local = Nowhere
    /\ state = [thread |-> FALSE, run |-> 0, processed |-> {}, ask |-> 0,
                done |-> FALSE, act |-> 0]
    /\ shown = <<>>
    /\ marker = [a \in 1..MaxInnerRuns |-> "none"]
    /\ activity = NoActivity
    /\ tally = [submits |-> 0, stops |-> 0, faults |-> 0, asks |-> 0]

OuterFault == /\ tally.faults < MaxOuterFaults
              /\ tally' = [tally EXCEPT !.faults = @ + 1]

\* The outer run goes to a node, whose local variables are new.
Enter(n, pc, processed) ==
    /\ node' = n
    /\ local' = [Nowhere EXCEPT !.pc = pc, !.cursor = processed]

\* runs.create: the new run is queued behind the thread's other runs.
CreateRun(how, q, turn) ==
    /\ Len(runs) < MaxInnerRuns
    /\ runs' = Append(runs, [status |-> "pending", how |-> how, answers |-> q,
                             turn |-> turn, left |-> MaxWrites])

-----------------------------------------------------------------------------
(* kickoff *)

\* A message, or "retry" on the marker of a turn whose inner run failed.  A user
\* who is asked something may write a new message instead of answering.
Submit(retry) ==
    /\ node \in {"idle", "asked"}
    /\ tally.submits < MaxSubmits
    /\ Len(runs) < MaxInnerRuns
    /\ retry => /\ node = "idle" /\ state.act # 0 /\ marker[state.act] = "failed"
    /\ node' = "kickoff"
    /\ local' = [Nowhere EXCEPT !.pc = "thread", !.retry = retry]
    /\ tally' = [tally EXCEPT !.submits = @ + 1]
    /\ UNCHANGED <<innerVars, state, shown, marker, activity>>

\* The hidden thread is reused, and its length is this turn's baseline, or 0 if it
\* cannot be read ...
KickoffReuses ==
    /\ node = "kickoff" /\ local.pc = "thread" /\ state.thread
    /\ \E base \in {Len(thread), 0} :
          /\ local' = [local EXCEPT !.pc = "run", !.base = base,
                 !.clean = base = Len(thread) /\ \A r \in DOMAIN runs : ~Active(r)]
          /\ IF base = Len(thread) THEN UNCHANGED tally ELSE OuterFault
    /\ UNCHANGED <<innerVars, node, state, shown, marker, activity>>

\* ... or created.  One that a stopped kickoff left behind is known to nobody, and
\* neither are its runs.
KickoffCreates ==
    /\ node = "kickoff" /\ local.pc = "thread" /\ ~state.thread
    /\ local' = [local EXCEPT !.pc = "run"]
    /\ thread' = <<>> /\ question' = 0
    /\ runs' = [r \in DOMAIN runs |-> [runs[r] EXCEPT !.status = "forgotten"]]
    /\ UNCHANGED <<node, state, shown, marker, activity, tally>>

KickoffRun ==
    /\ node = "kickoff" /\ local.pc = "run"
    /\ IF local.retry THEN CreateRun("retry", 0, state.act)
                       ELSE CreateRun("input", 0, Len(runs) + 1)
    /\ local' = [local EXCEPT !.pc = "commit", !.made = Len(runs) + 1]
    /\ UNCHANGED <<thread, question, node, state, shown, marker, activity, tally>>

\* The activity log is reset, the marker shown, the cursor kept.
KeptCursor_Reset == {}
KeptCursor == state.processed
ActivityId == IF local.retry THEN state.act ELSE local.made
KickoffCommits ==
    /\ node = "kickoff" /\ local.pc = "commit"
    /\ state' = [state EXCEPT !.thread = TRUE, !.run = local.made, !.act = ActivityId,
                              !.processed = KeptCursor, !.done = FALSE]
    /\ marker' = [marker EXCEPT ![ActivityId] = "running"]
    /\ activity' = [NoActivity EXCEPT !.base = local.base, !.clean = local.clean]
    /\ Enter("pump", "poll", KeptCursor)
    /\ UNCHANGED <<innerVars, shown, tally>>

-----------------------------------------------------------------------------
(* pump *)

\* _record_tools_from_snapshot: the calls behind this turn's boundary.
LastHuman == SelectLastInSeq(thread, LAMBDA m : m.kind = "human")
Recorded_SinceHuman ==
    activity.tools \cup {i \in DOMAIN thread : i > LastHuman /\ thread[i].kind = "call"}
Recorded ==
    activity.tools \cup {i \in DOMAIN thread : i > activity.base /\ thread[i].kind = "call"}

\* A snapshot of the inner thread: the next message to show, if it has one; those
\* before it that are not shown are done with.
Poll ==
    LET fresh == DOMAIN thread \ local.cursor
        eligible == {i \in fresh : Eligible(i)}
        next == CHOOSE i \in eligible : \A j \in eligible : i <= j
    IN
    /\ node = "pump" /\ local.pc = "poll"
    /\ activity' = [activity EXCEPT !.tools = Recorded]
    /\ local' = IF eligible = {}
                THEN [local EXCEPT !.pc = "check", !.cursor = @ \cup fresh]
                ELSE [local EXCEPT !.pc = "rewrite", !.item = next,
                                   !.cursor = @ \cup {i \in fresh : i <= next}]
    /\ UNCHANGED <<innerVars, node, state, shown, marker, tally>>

\* The text was rewritten, or the widget copied: the node returns.
Surface ==
    /\ node = "pump" /\ local.pc = "rewrite"
    /\ shown' = Append(shown, local.item)
    /\ state' = [state EXCEPT !.processed = local.cursor, !.ask = 0, !.done = FALSE]
    /\ Enter("pump", "poll", local.cursor)
    /\ UNCHANGED <<innerVars, marker, activity, tally>>

\* Nothing to show: runs.get tells whether the inner run goes on.
AfterCheck_Snapshot == IF Active(state.run) /\ question = 0 THEN "poll" ELSE "settle"
AfterCheck == IF Active(state.run) THEN "poll" ELSE "settle"
Check ==
    /\ node = "pump" /\ local.pc = "check"
    /\ local' = [local EXCEPT !.pc = AfterCheck]
    /\ UNCHANGED <<innerVars, node, state, shown, marker, activity, tally>>

\* It does not.  A second snapshot: a question goes to the interrupt node ...
SettleQuestion ==
    /\ node = "pump" /\ local.pc = "settle"
    /\ question # 0
    /\ state' = [state EXCEPT !.processed = local.cursor, !.ask = question, !.done = FALSE]
    /\ Enter("asked", "none", {})
    /\ UNCHANGED <<innerVars, shown, marker, activity, tally>>

\* ... otherwise the turn is over: the log is completed for the marker ...
SettleTurn ==
    /\ node = "pump" /\ local.pc = "settle"
    /\ question = 0
    /\ activity' = [activity EXCEPT !.tools = Recorded, !.finished = TRUE]
    /\ local' = [local EXCEPT !.pc = "forget"]
    /\ UNCHANGED <<innerVars, node, state, shown, marker, tally>>

\* ... and deleted from the cache with its boundary, unless a deletion fails ...
ForgetActivity ==
    /\ node = "pump" /\ local.pc = "forget"
    /\ \E log, boundary \in BOOLEAN :
          /\ activity' = KeptActivity(log, boundary)
          /\ IF log \/ boundary THEN OuterFault ELSE UNCHANGED tally  \* a failed deletion
    /\ local' = [local EXCEPT !.pc = "done"]
    /\ UNCHANGED <<innerVars, node, state, shown, marker>>

\* ... before the node's updates are committed.
TurnCommits ==
    /\ node = "pump" /\ local.pc = "done"
    /\ marker' = [marker EXCEPT ![state.act] =
                     IF runs[state.run].status = "error" THEN "failed" ELSE "final"]
    /\ state' = [state EXCEPT !.processed = local.cursor, !.ask = 0, !.done = TRUE]
    /\ Enter("idle", "none", {})
    /\ UNCHANGED <<innerVars, shown, activity, tally>>

-----------------------------------------------------------------------------
(* interrupt_node *)

\* The user answers: the node runs again, this time beyond interrupt().  The answer is
\* kept by the server, and given to every run of the node.
Answer ==
    /\ node = "asked"
    /\ Len(runs) < MaxInnerRuns
    /\ Enter("interrupt", "run", {})
    /\ UNCHANGED <<innerVars, state, shown, marker, activity, tally>>

InterruptRun ==
    /\ node = "interrupt" /\ local.pc = "run"
    /\ CreateRun("resume", state.ask, state.act)
    /\ local' = [local EXCEPT !.pc = "commit", !.made = Len(runs) + 1]
    /\ UNCHANGED <<thread, question, node, state, shown, marker, activity, tally>>

InterruptCommits ==
    /\ node = "interrupt" /\ local.pc = "commit"
    /\ state' = [state EXCEPT !.run = local.made, !.ask = 0, !.done = FALSE]
    /\ Enter("pump", "poll", state.processed)
    /\ UNCHANGED <<innerVars, shown, marker, activity, tally>>

-----------------------------------------------------------------------------
(* The user stops the outer run; the process restarts *)

\* A stopped pump gives the log an end and cancels its inner run, best-effort.
StopPump ==
    /\ node = "pump"
    /\ tally.stops < MaxStops
    /\ activity' = [activity EXCEPT !.finished = TRUE]
    /\ \/ /\ runs' = IF Active(state.run)
                     THEN [runs EXCEPT ![state.run].status = "interrupted"] ELSE runs
          /\ tally' = [tally EXCEPT !.stops = @ + 1]
       \/ /\ Active(state.run)
          /\ tally.faults < MaxOuterFaults
          /\ tally' = [tally EXCEPT !.stops = @ + 1, !.faults = @ + 1]
          /\ UNCHANGED runs
    /\ Enter("idle", "none", {})
    /\ UNCHANGED <<thread, question, state, shown, marker>>

\* The other nodes have no handler: an inner run they created goes on.  A call of
\* theirs that fails ends the outer run in the same way.
StopNode ==
    /\ node \in {"kickoff", "interrupt"}
    /\ tally.stops < MaxStops
    /\ tally' = [tally EXCEPT !.stops = @ + 1]
    /\ Enter("idle", "none", {})
    /\ UNCHANGED <<innerVars, state, shown, marker, activity>>

\* The node under way runs again, from the committed state and the input of its run;
\* kickoff and interrupt_node create an inner run again.
Restart ==
    /\ OuterFault
    /\ \/ node = "pump" /\ Enter("pump", "poll", state.processed)
       \/ /\ node = "interrupt" /\ Len(runs) < MaxInnerRuns
          /\ Enter("interrupt", "run", {})
       \/ /\ node = "kickoff" /\ Len(runs) < MaxInnerRuns
          /\ local' = [Nowhere EXCEPT !.pc = "thread", !.retry = local.retry]
          /\ UNCHANGED node
    /\ UNCHANGED <<innerVars, state, shown, marker, activity>>

\* The log or its boundary leaves the cache before the turn ends (_ACTIVITY_TTL).
ActivityExpires ==
    /\ node \in {"pump", "asked", "interrupt"}
    /\ OuterFault
    /\ \E log \in BOOLEAN : activity' = KeptActivity(log, FALSE)
    /\ activity' # activity
    /\ UNCHANGED <<innerVars, node, local, state, shown, marker>>

-----------------------------------------------------------------------------
(* Inner runs (external) *)

Written(r, kinds) == [i \in DOMAIN kinds |-> [kind |-> kinds[i], turn |-> runs[r].turn]]

RunStarts(r) ==
    /\ runs[r].status = "pending"
    /\ \A o \in DOMAIN runs : o < r => runs[o].status \notin {"pending", "running"}
    /\ runs' = [runs EXCEPT ![r].status = "running"]
    /\ question' = IF runs[r].how = "retry" THEN question ELSE 0
    /\ thread' = thread \o Written(r,
          CASE runs[r].how = "input" ->
                  IF LastKind \in {"call", "ask"} THEN <<"result", "human">> ELSE <<"human">>
            [] runs[r].how = "resume" -> IF LastKind = "ask" THEN <<"result">> ELSE <<>>
            [] OTHER -> <<>>)
    /\ UNCHANGED <<outerVars, tally>>

\* A call needs an answer, and a run ends with a text, or two; the last message it may
\* write follows a call.
InnerNext(r) ==
    CASE LastKind = "call" -> {"result", "widget"}
      [] LastKind = "ask" \/ (LastKind = "ai" /\ runs[r].left = 1) -> {}
      [] OTHER -> IF runs[r].left >= 3 THEN {"ai", "call", "ask"} ELSE {"ai"}

RunWrites(r) ==
    /\ runs[r].status = "running" /\ runs[r].left > 0
    /\ \E k \in InnerNext(r) : thread' = thread \o Written(r, <<k>>)
    /\ runs' = [runs EXCEPT ![r].left = @ - 1]
    /\ UNCHANGED <<question, outerVars, tally>>

RunAsks(r) ==
    /\ runs[r].status = "running" /\ LastKind = "ask"
    /\ runs' = [runs EXCEPT ![r].status = "interrupted"]
    /\ question' = tally.asks + 1
    /\ tally' = [tally EXCEPT !.asks = @ + 1]
    /\ UNCHANGED <<thread, outerVars>>

RunSucceeds(r) ==
    /\ runs[r].status = "running" /\ LastKind \notin {"call", "ask"}
    /\ LastKind = "ai" \/ runs[r].left = 0
    /\ runs' = [runs EXCEPT ![r].status = "success"]
    /\ UNCHANGED <<thread, question, outerVars, tally>>

RunFails(r) ==
    /\ runs[r].status = "running"
    /\ OuterFault
    /\ runs' = [runs EXCEPT ![r].status = "error"]
    /\ UNCHANGED <<thread, question, outerVars>>

-----------------------------------------------------------------------------
OuterStep == \/ KickoffReuses \/ KickoffCreates \/ KickoffRun \/ KickoffCommits
             \/ Poll \/ Surface \/ Check \/ SettleQuestion
             \/ SettleTurn \/ ForgetActivity \/ TurnCommits
             \/ InterruptRun \/ InterruptCommits
InnerStep == \E r \in DOMAIN runs : RunStarts(r) \/ RunWrites(r) \/ RunAsks(r) \/ RunSucceeds(r)

ExperimentalNext ==
    \/ \E retry \in BOOLEAN : Submit(retry)
    \/ OuterStep
    \/ Answer
    \/ StopPump \/ StopNode \/ Restart \/ ActivityExpires
    \/ InnerStep
    \/ \E r \in DOMAIN runs : RunFails(r)

\* A graph run that has begun goes on, the outer one and the inner ones; the user
\* may stay away, and nothing has to fail.
ExperimentalFairness ==
    /\ WF_experimentalVars(OuterStep)
    /\ WF_experimentalVars(InnerStep)

ExperimentalSpec == ExperimentalInit /\ [][ExperimentalNext]_experimentalVars
ExperimentalFairSpec == ExperimentalSpec /\ ExperimentalFairness

-----------------------------------------------------------------------------
(* Properties *)

\* Types of the inner thread, its runs and the outer state; pump has a run of a turn.
ExperimentalTypeOK ==
    /\ thread \in Seq(InnerMessage)
    /\ runs \in Seq(InnerRun)
    /\ question \in Nat
    /\ node \in {"idle", "kickoff", "pump", "asked", "interrupt"}
    /\ local \in [pc : {"none", "thread", "run", "commit", "poll", "rewrite", "check",
                        "settle", "forget", "done"},
                  base : Nat, clean : BOOLEAN, made : 0..MaxInnerRuns, retry : BOOLEAN,
                  cursor : SUBSET Nat, item : Nat]
    /\ state \in [thread : BOOLEAN, run : 0..MaxInnerRuns, processed : SUBSET Nat,
                  ask : Nat, done : BOOLEAN, act : 0..MaxInnerRuns]
    /\ node = "pump" => state.run \in DOMAIN runs /\ state.act \in 1..state.run
    /\ shown \in Seq(Nat)
    /\ marker \in [1..MaxInnerRuns -> {"none", "running", "final", "failed"}]
    /\ activity \in [finished : BOOLEAN, tools : SUBSET Nat, base : Nat, clean : BOOLEAN]
    /\ tally \in [submits : Nat, stops : Nat, faults : Nat, asks : Nat]

\* Inner messages are shown in their order and none twice, over all turns, stops,
\* retries and restarts, and the cursor skips none that is for the user: what it
\* has passed was shown (processed_inner_ids, graph.py:868-871).
ShownInOrder ==
    /\ \A i, j \in DOMAIN shown : i < j => shown[i] < shown[j]
    /\ \A i \in state.processed : Eligible(i) => Contains(shown, i)

\* The run of an interrupt_node that was cut short before its commit and ran again.
Repeated(r) ==
    \E o \in DOMAIN runs : /\ o < r /\ runs[o].how = "resume"
                          /\ runs[o].answers = runs[r].answers

\* The user is asked what is pending, and the answer reaches that question: when a
\* resume run starts, the pending question is the one the user saw.  The resume of a
\* repeated interrupt_node is a second one, and may meet the next question
\* (graph.py:1057-1071).
AnswersMatch ==
    /\ node = "asked" => question = state.ask
    /\ \A r \in DOMAIN runs :
          /\ runs[r].status = "pending" /\ runs[r].how = "resume" /\ ~Repeated(r)
          /\ \A o \in DOMAIN runs : o < r => ~Active(o)
          => question = runs[r].answers

\* The activity of a turn lists no tool call of another turn, over questions, stops,
\* retries and repeated nodes, as long as its boundary is the one kickoff read while
\* no inner run was under way (graph.py:148-155).  One that could not be read, or left
\* the cache before the turn's end, is 0.
ActivityIsOfTheTurn ==
    activity.clean => \A i \in activity.tools : thread[i].turn = state.act

\* What the user started ends, or asks: nothing is polled for ever.
TurnSettles == node \in {"kickoff", "pump", "interrupt"} ~> node \in {"idle", "asked"}

\* A turn that is done has shown everything its inner run wrote for the user: "the
\* end is decided by the NEXT pump on a fresh snapshot" (graph.py:933-936).
DoneMeansShown ==
    node = "idle" /\ state.done =>
        \A i \in DOMAIN thread :
            thread[i].turn = state.act /\ Eligible(i) => Contains(shown, i)
=============================================================================
