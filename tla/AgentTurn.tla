----------------------------- MODULE AgentTurn -----------------------------
(***************************************************************************)
(* One thread of the chat agent: the graph of core/agent/graph_factory.py  *)
(* (before_agent -> model -> after_model -> tools -> model ... -> end) with *)
(* its middlewares, the tool node, the anti-loop guard and the repair of a  *)
(* history that a stopped run left with unanswered calls.                   *)
(*                                                                         *)
(* One action is one node of the graph, or one tool call of the tools node; *)
(* a node's updates reach the history when the node returns, and what a cut *)
(* short node had done is lost to the history but not undone.  An interrupt *)
(* is answered by running its node again from its start.  Both optional     *)
(* features, think and multi_tool_use, are on.                              *)
(*                                                                         *)
(* External: the model (any batch of Batches, or an answer), the tools (any *)
(* outcome), the user, LangGraph's checkpoints.                             *)
(***************************************************************************)
EXTENDS Integers, Sequences, FiniteSets, SequencesExt

CONSTANTS
    Batches,              \* calls a model may ask for at once, by their tools
    Outcomes,             \* Outcomes[tool]: what a call of the tool may come to
    StepBudget,           \* STEP_BUDGET_PER_TURN
    DuplicateThreshold,   \* DUPLICATE_CALL_THRESHOLD
    OscillationMaxPeriod, \* OSCILLATION_MAX_PERIOD
    OscillationRepeats,   \* OSCILLATION_MIN_REPEATS
    ErrorStreak,          \* ERROR_STREAK_THRESHOLD
    MaxThinkHops,         \* MAX_THINK_HOPS
    MaxRounds,            \* bound on the batches of the thread, all turns together
    MaxHumans,            \* bound on the messages of the user
    MaxUpsets             \* bound on stops, failures of the model and toggles

ASSUME AgentTurnAssumption ==
    /\ \A b \in Batches : b \in Seq(STRING) /\ b # <<>>
    /\ {StepBudget, DuplicateThreshold, OscillationMaxPeriod, OscillationRepeats,
        ErrorStreak, MaxThinkHops} \subseteq Nat \ {0}
    /\ \A b \in Batches : \A k \in DOMAIN b :
          Outcomes[b[k]] \subseteq {"ok", "raised", "error"}
    /\ MaxRounds \in Nat /\ MaxHumans \in Nat /\ MaxUpsets \in Nat

VARIABLES
    hist,    \* the messages of the thread
    at,      \* the node that runs, or runs next
    phase,   \* running, interrupted, stopped, failed or done
    work,    \* the calls of the tools node under way, in their order
    answers, \* questions of that node the user has answered
    kernel,  \* state["kernel_id"], 0 if none
    chain,   \* the kernel the next python call of the node is given
    auto,    \* the autonomy flag in the thread's metadata
    log,     \* history: calls that began, were refused, were let through; kernels used
    turns    \* messages and upsets so far

turnVars == <<hist, at, phase, work, answers, kernel, chain, auto, log, turns>>

-----------------------------------------------------------------------------
(* Messages *)

\* A tool message answers call "to"; "bad": its status is "error".
Human == [who |-> "human", calls |-> <<>>, to |-> 0, bad |-> FALSE]
AI(calls) == [Human EXCEPT !.who = "ai", !.calls = calls]
Result(id, bad) == [Human EXCEPT !.who = "tool", !.to = id, !.bad = bad]
Stub(call) == Result(call.id, FALSE)

Ids(calls) == {calls[k].id : k \in DOMAIN calls}
Tools(calls) == {calls[k].tool : k \in DOMAIN calls}
LastId(h) == Max({0} \cup UNION {Ids(h[i].calls) : i \in DOMAIN h})

\* The calls with these ids, in their order.
Those(calls, ids) ==
    FlattenSeq([k \in DOMAIN calls |-> IF calls[k].id \in ids THEN <<calls[k]>> ELSE <<>>])

Rounds(h) == Cardinality({i \in DOMAIN h : h[i].calls # <<>>})

\* The AI message asks for the batch; every call gets an id above n.
Asking(n, batch) == AI([k \in DOMAIN batch |-> [id |-> n + k, tool |-> batch[k]]])

LastOf(h, who) == SelectLastInSeq(h, LAMBDA m : m.who = who)
ThisTurn(h) == SubSeq(h, LastOf(h, "human") + 1, Len(h))

\* _fetch_last_ai_and_tool_messages and the calls of the last AI message that no
\* later tool message answers.
Pending(h) ==
    LET ai == LastOf(h, "ai")
        answered == {h[i].to : i \in (ai + 1)..Len(h)}
    IN Those(h[ai].calls, Ids(h[ai].calls) \ answered)

-----------------------------------------------------------------------------
(* repair_dangling_tool_calls *)

\* The AI message whose calls are open at position i: the last message before i
\* that is no result (0: there is none).
Block(h, i) == SelectLastInSeq(SubSeq(h, 1, i - 1), LAMBDA m : m.who # "tool")

AnswersOpenCall(h, i) ==
    /\ Block(h, i) # 0
    /\ h[i].to \in Ids(h[Block(h, i)].calls)
    /\ \A j \in (Block(h, i) + 1)..(i - 1) : h[j].to # h[i].to

\* Stubs for the calls the block before the message at i leaves open.
Stubs(h, i) ==
    LET b == Block(h, i)
        open == Those(h[b].calls, Ids(h[b].calls) \ {h[j].to : j \in (b + 1)..(i - 1)})
    IN IF b = 0 THEN <<>> ELSE [k \in DOMAIN open |-> Stub(open[k])]

Repaired_Unclosed(h) == h
Repaired(h) ==
    IF h = <<>> \/ Last(h).who # "human" THEN h
    ELSE FlattenSeq([i \in DOMAIN h |->
            IF h[i].who # "tool" THEN Stubs(h, i) \o <<h[i]>>
            ELSE IF AnswersOpenCall(h, i) THEN <<h[i]>> ELSE <<>>])

-----------------------------------------------------------------------------
(* What the model is shown *)

ResultsAfter(h, i) ==
    {j \in (i + 1)..Len(h) : \A k \in (i + 1)..j : h[k].who = "tool"}
OwnResults(h, i) == {j \in ResultsAfter(h, i) : h[j].to \in Ids(h[i].calls)}

\* collapse_tool_messages: an AI message with several calls and several results
\* becomes one multi_tool_use call with one result, whatever the number of both.
Collapses(h, i) == Len(h[i].calls) > 1 /\ Cardinality(OwnResults(h, i)) > 1
CollapsedTools(h) ==
    FlattenSeq([i \in DOMAIN h |->
        IF Collapses(h, i)
        THEN <<AI(<<[id |-> h[i].calls[1].id, tool |-> "multi_tool_use"]>>),
               Result(h[i].calls[1].id, FALSE)>>
        ELSE IF \E b \in 1..(i - 1) : Collapses(h, b) /\ i \in OwnResults(h, b)
             THEN <<>> ELSE <<h[i]>>])

\* _is_think_pair
ThinkPair(h, i) ==
    /\ i \in 1..(Len(h) - 1)
    /\ Len(h[i].calls) = 1 /\ h[i].calls[1].tool = "think"
    /\ h[i + 1].who = "tool" /\ h[i + 1].to = h[i].calls[1].id

\* collapse_think_hops: of consecutive pairs only the last stays.
CollapsedThinks(h) ==
    FlattenSeq([i \in DOMAIN h |->
        IF \/ ThinkPair(h, i) /\ ThinkPair(h, i + 2)
           \/ ThinkPair(h, i - 1) /\ ThinkPair(h, i + 1)
        THEN <<>> ELSE <<h[i]>>])

LlmView(h) == CollapsedThinks(CollapsedTools(h))

\* _count_trailing_think_tool_pairs
ThinkHops(h) ==
    Cardinality({n \in 1..(Len(h) \div 2) :
                    \A k \in 1..n : ThinkPair(h, Len(h) + 1 - 2 * k)})

-----------------------------------------------------------------------------
(* detect_loop *)

\* The calls of a message, whatever their order.
Signature(m) ==
    [t \in Tools(m.calls) |-> Cardinality({k \in DOMAIN m.calls : m.calls[k].tool = t})]
Signatures(h) ==
    FoldLeft(LAMBDA s, m : IF m.calls = <<>> THEN s ELSE Append(s, Signature(m)),
             <<>>, ThisTurn(h))

Duplicate(s) ==
    /\ Len(s) >= DuplicateThreshold
    /\ \A k \in (Len(s) - DuplicateThreshold + 1)..Len(s) : s[k] = Last(s)

Oscillation(s) ==
    \E period \in 2..OscillationMaxPeriod :
        LET needed == period * OscillationRepeats
            before == Len(s) - needed
        IN /\ Len(s) >= needed
           /\ \E i, j \in 1..period : s[before + i] # s[before + j]
           /\ \A i \in 1..needed : s[before + i] = s[before + ((i - 1) % period) + 1]

OverBudget_Never(s) == FALSE
OverBudget(s) == Len(s) >= StepBudget

\* Results of the turn from its end on, AI messages between them skipped.
Failing(h) ==
    \E results \in {SelectSeq(ThisTurn(h), LAMBDA m : m.who = "tool")} :
        /\ Len(results) >= ErrorStreak
        /\ \A k \in (Len(results) - ErrorStreak + 1)..Len(results) : results[k].bad

Loops(h) ==
    \/ \E s \in {Signatures(h)} : Duplicate(s) \/ Oscillation(s) \/ OverBudget(s)
    \/ Failing(h)

-----------------------------------------------------------------------------
(* The graph *)

NoCalls == <<>>

AgentTurnInit ==
    /\ hist = <<>> /\ at = "before_agent" /\ phase = "done"
    /\ work = NoCalls /\ answers = 0
    /\ kernel = 0 /\ chain = 0
    /\ auto = FALSE
    /\ log = [began |-> {}, refused |-> {}, overruled |-> {}, used |-> {}, lost |-> FALSE]
    /\ turns = [humans |-> 0, upsets |-> 0]

Upset == /\ turns.upsets < MaxUpsets
         /\ turns' = [turns EXCEPT !.upsets = @ + 1]

At(node) == phase = "running" /\ at = node

\* _arun_tool_calls: all calls begin together, but python calls one by one.
IsPython(c) == c.tool = "python"
Begun(calls) ==
    [k \in DOMAIN calls |->
        [id |-> calls[k].id, tool |-> calls[k].tool,
         got |-> IF IsPython(calls[k]) /\ \E j \in 1..(k - 1) : IsPython(calls[j])
                 THEN "waits" ELSE "runs"]]
InHand(w) == {w[k].id : k \in {j \in DOMAIN w : w[j].got = "runs"}}

BeginTools(calls, logged) ==
    /\ work' = Begun(calls)
    /\ chain' = kernel
    /\ log' = [logged EXCEPT !.began = @ \cup InHand(Begun(calls))]

\* model_to_tools: where a run goes with history h.
Goes(h, logged) ==
    /\ hist' = h
    /\ answers' = 0
    /\ IF h[LastOf(h, "ai")].calls = <<>>
       THEN /\ at' = "before_agent" /\ phase' = "done"
            /\ log' = logged /\ UNCHANGED <<work, chain>>
       ELSE IF Pending(h) = <<>>
       THEN /\ at' = "model" /\ phase' = "running"
            /\ log' = logged /\ UNCHANGED <<work, chain>>
       ELSE /\ at' = "tools" /\ phase' = "running"
            /\ BeginTools(Pending(h), logged)

\* A run begins with a message of the user, in whatever state the last one is; calls
\* he was asked about are refused by it.
NewMessage ==
    /\ phase # "running"
    /\ turns.humans < MaxHumans
    /\ Rounds(hist) + StepBudget <= MaxRounds
    /\ turns' = [turns EXCEPT !.humans = @ + 1]
    /\ hist' = Append(hist, Human)
    /\ at' = "before_agent" /\ phase' = "running"
    /\ work' = NoCalls /\ answers' = 0
    /\ log' = IF phase = "interrupted" /\ at = "after_model"
              THEN [log EXCEPT !.refused = @ \cup Ids(Pending(hist))] ELSE log
    /\ UNCHANGED <<kernel, chain, auto>>

\* The history is repaired; the run's own autonomy flag, if it has one, stored.
BeforeAgent ==
    /\ At("before_agent")
    /\ hist' = Repaired(hist)
    /\ auto' \in BOOLEAN
    /\ at' = "model"
    /\ UNCHANGED <<phase, work, answers, kernel, chain, log, turns>>

\* amodel_node: a stop message, or what the model says.
CallModel ==
    /\ At("model")
    /\ Rounds(hist) <= MaxRounds
    /\ IF Loops(hist)
       THEN hist' = Append(hist, AI(<<>>))
       ELSE /\ ThinkHops(hist) <= MaxThinkHops
            /\ \E n \in {LastId(hist)}, batch \in Batches \cup {<<>>} :
                  hist' = Append(hist, Asking(n, batch))
    /\ at' = "after_model"
    /\ UNCHANGED <<phase, work, answers, kernel, chain, auto, log, turns>>

ThinksTooLong ==
    /\ At("model")
    /\ ThinkHops(hist) > MaxThinkHops /\ ~Loops(hist)
    /\ phase' = "failed"
    /\ UNCHANGED <<hist, at, work, answers, kernel, chain, auto, log, turns>>

ModelFails ==
    /\ At("model")
    /\ ~Loops(hist)
    /\ Upset
    /\ phase' = "failed"
    /\ UNCHANGED <<hist, at, work, answers, kernel, chain, auto, log>>

\* A failed run is started again without input.
Retry ==
    /\ phase = "failed"
    /\ Upset
    /\ phase' = "running"
    /\ UNCHANGED <<hist, at, work, answers, kernel, chain, auto, log>>

-----------------------------------------------------------------------------
(* ToolResultMiddleware.after_model *)

Asked == Last(hist).calls
Frontend ==
    Those(Asked, {Asked[k].id : k \in {j \in DOMAIN Asked : Asked[j].tool = "front"}})
Harmless(calls) == Tools(calls) \subseteq {"think", "ask"}
NeedsUser == ~Harmless(Asked) /\ (Frontend # <<>> \/ ~auto)

AfterModelAsks ==
    /\ At("after_model")
    /\ NeedsUser
    /\ phase' = "interrupted"
    /\ UNCHANGED <<hist, at, work, answers, kernel, chain, auto, log, turns>>

AfterModelGoes ==
    /\ At("after_model")
    /\ ~NeedsUser
    /\ Goes(hist, log)
    /\ UNCHANGED <<kernel, auto, turns>>

Interrupted(node) == phase = "interrupted" /\ at = node

\* "comment": no call is to run.  If autonomy was switched on meanwhile the node does
\* not come to its interrupt again, and the comment is lost.
Cancelled_Frontend(calls) == SelectSeq(calls, LAMBDA c : c.tool = "front")
Cancelled(calls) == calls
UserRejects ==
    /\ Interrupted("after_model")
    /\ LET heard == NeedsUser
           refused == [log EXCEPT !.refused = @ \cup Ids(Asked)]
           calls == Cancelled(Asked)
       IN IF heard
          THEN Goes(hist \o [k \in DOMAIN calls |-> Stub(calls[k])], refused)
          ELSE Goes(hist, [refused EXCEPT !.overruled = @ \cup Ids(Asked)])
    /\ UNCHANGED <<kernel, auto, turns>>

UserApproves ==
    /\ Interrupted("after_model")
    /\ Frontend = <<>>
    /\ Goes(hist, log)
    /\ UNCHANGED <<kernel, auto, turns>>

\* The client ran its tools and sends the results it has.
ClientReturns ==
    /\ Interrupted("after_model")
    /\ Frontend # <<>>
    /\ \E returned \in SUBSET Ids(Frontend) :
          LET calls == Those(Frontend, returned)
          IN Goes(hist \o [k \in DOMAIN calls |-> Stub(calls[k])], log)
    /\ UNCHANGED <<kernel, auto, turns>>

-----------------------------------------------------------------------------
(* ToolNode *)

\* What a call comes to.  "ok": it returned, maybe with an error it reports itself.
\* "raised": _execute_tool_async turned its exception into a message.  Of both,
\* process_tool_result builds the message anew, without its status.  "error": the
\* wrapper raised, and the status stays.

\* A python call without a kernel gets a new one; its Command, if it returned, names it.
Kernel == IF chain # 0 THEN chain ELSE Cardinality(log.used) + 1

\* The next python call begins when one is finished.
NextPython(w) == SelectInSeq(w, LAMBDA c : c.got = "waits")
Finish(w, k, got) ==
    LET done == [w EXCEPT ![k].got = got]
    IN IF IsPython(w[k]) /\ NextPython(w) # 0
       THEN [done EXCEPT ![NextPython(w)].got = "runs"] ELSE done

Chained_Never == chain
Chained == Kernel
ToolEnds(k, got) ==
    /\ At("tools")
    /\ work[k].got = "runs" /\ work[k].tool # "ask"
    /\ got \in Outcomes[work[k].tool]
    /\ work' = Finish(work, k, got)
    /\ chain' = IF IsPython(work[k]) /\ got = "ok" THEN Chained ELSE chain
    /\ log' = [log EXCEPT !.began = @ \cup InHand(work'),
                          !.used = IF IsPython(work[k]) THEN @ \cup {Kernel} ELSE @,
                          !.lost = @ \/ (IsPython(work[k]) /\ got # "ok")]
    /\ UNCHANGED <<hist, at, phase, answers, kernel, auto, turns>>

\* ask_questions interrupts, and takes the node with it, or has its answer.
AskedBefore(k) == {j \in 1..k : work[j].tool = "ask"}
AskInterrupts(k) ==
    /\ At("tools")
    /\ work[k].got = "runs" /\ work[k].tool = "ask"
    /\ Cardinality(AskedBefore(k)) > answers
    /\ phase' = "interrupted"
    /\ log' = [log EXCEPT !.lost = @ \/ \E j \in DOMAIN work : IsPython(work[j])]
    /\ UNCHANGED <<hist, at, work, answers, kernel, chain, auto, turns>>

AskEnds(k) ==
    /\ At("tools")
    /\ work[k].got = "runs" /\ work[k].tool = "ask"
    /\ Cardinality(AskedBefore(k)) <= answers
    /\ work' = [work EXCEPT ![k].got = "ok"]
    /\ UNCHANGED <<hist, at, phase, answers, kernel, chain, auto, log, turns>>

\* The node runs again with all its calls.
UserAnswers ==
    /\ Interrupted("tools")
    /\ answers' = answers + 1
    /\ phase' = "running"
    /\ BeginTools(Pending(hist), log)
    /\ UNCHANGED <<hist, at, kernel, auto, turns>>

\* _combine_tool_outputs, in the order of the calls.  Only the last python call's
\* Command still names a kernel.
LastPython(w) == SelectLastInSeq(w, IsPython)
CommitTools ==
    /\ At("tools")
    /\ \A k \in DOMAIN work : work[k].got \notin {"waits", "runs"}
    /\ hist' = hist \o [k \in DOMAIN work |->
                          Result(work[k].id, work[k].got = "error")]
    /\ kernel' = IF LastPython(work) # 0 /\ work[LastPython(work)].got = "ok"
                 THEN chain ELSE kernel
    /\ at' = "model" /\ work' = NoCalls /\ chain' = 0 /\ answers' = 0
    /\ UNCHANGED <<phase, auto, log, turns>>

-----------------------------------------------------------------------------
(* The user stops the run, or switches autonomy *)

Stop ==
    /\ phase = "running"
    /\ Upset
    /\ phase' = "stopped" /\ work' = NoCalls /\ chain' = 0
    /\ log' = [log EXCEPT !.lost = @ \/ \E k \in DOMAIN work : IsPython(work[k])]
    /\ UNCHANGED <<hist, at, answers, kernel, auto>>

\* At any time; it is told apart only before after_model reads the flag, and after.
ToggleAuto ==
    /\ At("after_model") \/ phase = "interrupted"
    /\ Upset
    /\ auto' = ~auto
    /\ UNCHANGED <<hist, at, phase, work, answers, kernel, chain, log>>

-----------------------------------------------------------------------------
GraphStep ==
    \/ BeforeAgent \/ CallModel \/ ThinksTooLong
    \/ AfterModelAsks \/ AfterModelGoes
    \/ \E k \in DOMAIN work : \/ \E got \in {"ok", "raised", "error"} : ToolEnds(k, got)
                              \/ AskInterrupts(k) \/ AskEnds(k)
    \/ CommitTools

AgentTurnNext ==
    \/ GraphStep
    \/ NewMessage \/ Retry \/ ModelFails \/ Stop \/ ToggleAuto
    \/ UserRejects \/ UserApproves \/ ClientReturns \/ UserAnswers

AgentTurnSpec == AgentTurnInit /\ [][AgentTurnNext]_turnVars

\* (A graph run that has begun goes on, WF_turnVars(GraphStep): in MCConversations.)

-----------------------------------------------------------------------------
(* Properties *)

Message == [who : {"human", "ai", "tool"}, calls : Seq([id : Nat, tool : STRING]),
            to : Nat, bad : BOOLEAN]

\* Types; the tools node has work exactly while it is under way.
TurnTypeOK ==
    /\ hist \in Seq(Message)
    /\ at \in {"before_agent", "model", "after_model", "tools"}
    /\ phase \in {"running", "interrupted", "stopped", "failed", "done"}
    /\ work \in Seq([id : Nat, tool : STRING,
                     got : {"waits", "runs", "ok", "raised", "error"}])
    /\ (work # NoCalls) = (at = "tools" /\ phase \in {"running", "interrupted"})
    /\ answers \in Nat /\ kernel \in Nat /\ chain \in Nat /\ auto \in BOOLEAN

\* Whenever the model is called, what it is shown is a history its API accepts: an AI
\* message has at most one call, the call is answered by the next message, and no
\* result is without its call (repair.py:3-9, graph_factory.py:744-750, multi_tool_use.py).
ModelSeesAnsweredCalls ==
    LET v == LlmView(hist)
    IN At("model") =>
        /\ \A i \in DOMAIN v : Len(v[i].calls) <= 1
        /\ \A i \in DOMAIN v : v[i].calls # <<>> =>
              i < Len(v) /\ v[i + 1].who = "tool" /\ v[i + 1].to = v[i].calls[1].id
        /\ \A i \in DOMAIN v : v[i].who = "tool" =>
              i > 1 /\ v[i].to \in Ids(v[i - 1].calls)

\* A call the user refused, by a comment or by writing something else, never runs,
\* however the run goes on; except where switching autonomy on made the refusal void.
RefusedStayUnrun == log.began \cap log.refused \subseteq log.overruled

\* All python code of a thread runs in one kernel as long as no python call raised
\* and no tools node with one was cut short (tool_node.py:485-508).
OneKernel == ~log.lost => Cardinality(log.used) <= 1
=============================================================================
