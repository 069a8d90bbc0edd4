----------------------- MODULE ExperimentalTurnProofs -----------------------
(***************************************************************************)
(* Theorems about ExperimentalTurn, for any number of inner runs, of their *)
(* messages, of submits, stops and faults.                                 *)
(***************************************************************************)
EXTENDS ExperimentalTurn, SequenceTheorems, NaturalsInduction, WellFoundedInduction, TLAPS

-----------------------------------------------------------------------------
(* The inductive invariant *)

LocalState ==
    [pc : {"none", "thread", "run", "commit", "poll", "rewrite", "check", "settle",
           "forget", "done"},
     base : Nat, clean : BOOLEAN, made : 0..MaxInnerRuns, retry : BOOLEAN,
     cursor : SUBSET Nat, item : Nat]
OuterState == [thread : BOOLEAN, run : 0..MaxInnerRuns, processed : SUBSET Nat,
               ask : Nat, done : BOOLEAN, act : 0..MaxInnerRuns]
ActivityLog == [finished : BOOLEAN, tools : SUBSET Nat, base : Nat, clean : BOOLEAN]

\* The types of the inner variables and of the outer ones.
InnerTyped == thread \in Seq(InnerMessage) /\ runs \in Seq(InnerRun) /\ question \in Nat
OuterTyped ==
    /\ node \in {"idle", "kickoff", "pump", "asked", "interrupt"}
    /\ local \in LocalState /\ state \in OuterState
    /\ shown \in Seq(Nat)
    /\ marker \in [1..MaxInnerRuns -> {"none", "running", "final", "failed"}]
    /\ activity \in ActivityLog
TallyTyped == tally \in [submits : Nat, stops : Nat, faults : Nat, asks : Nat]

Idle == \A r \in DOMAIN runs : ~Active(r)

\* Where each node can be, and which run and turn it is about: the run that is
\* pumped, or just made, is the last one.
NodeIsPlaced ==
    /\ node = "kickoff" => /\ local.pc \in {"thread", "run", "commit"}
                           /\ local.retry => state.act # 0
    /\ node = "interrupt" => local.pc \in {"run", "commit"}
    /\ node = "pump" => local.pc \in {"poll", "rewrite", "check", "settle", "forget", "done"}
    /\ state.act <= Len(runs)
    /\ node \in {"pump", "asked", "interrupt"} =>
          state.thread /\ state.run \in DOMAIN runs /\ state.act \in 1..state.run
    /\ node = "pump" => state.run = Len(runs)
    /\ node \in {"kickoff", "interrupt"} /\ local.pc = "commit" =>
          local.made = Len(runs) /\ local.made # 0

\* Before the hidden thread is known nothing was shown or recorded.
NothingYet ==
    ~state.thread => state.processed = {} /\ shown = <<>> /\ activity.tools = {}

\* The cursor is a beginning of the thread, and what it has passed since the last
\* commit is not for the user, but for the message that is being shown.
CursorInOrder ==
    \E p \in 0..Len(thread) :
        /\ state.processed = 1..p
        /\ \A i \in DOMAIN shown : shown[i] \in 1..p
        /\ node = "pump" =>
              \E n \in p..Len(thread) :
                  /\ local.cursor = 1..n
                  /\ local.pc = "rewrite" => p < n /\ local.item = n
                  /\ \A i \in (p + 1)..n :
                        Eligible(i) => local.pc = "rewrite" /\ local.item = i

\* Runs are served one by one: one that is under way has none before it, and the one
\* the outer run is about ends after those before it.
RunsInOrder ==
    /\ \A r \in DOMAIN runs : runs[r].status = "running" => \A o \in DOMAIN runs : o < r => ~Active(o)
    /\ node = "pump" \/ (node \in {"kickoff", "interrupt"} /\ local.pc = "commit") =>
          Active(Len(runs)) \/ Idle

\* A question was answered, by this run of interrupt_node or one that was cut short.
Answered(q) == \E r \in DOMAIN runs : runs[r].how = "resume" /\ runs[r].answers = q

\* The user is asked, and answers, while nothing runs; the first run with his answer is
\* queued behind nothing.
QuestionKept ==
    /\ node = "pump" /\ local.pc \in {"settle", "forget", "done"} => Idle
    /\ node = "asked" => Idle /\ state.ask = question
    /\ node = "interrupt" /\ local.pc = "run" /\ ~Answered(state.ask) =>
          Idle /\ state.ask = question
    /\ node = "interrupt" /\ local.pc = "commit" => Answered(state.ask)
    /\ \A r \in DOMAIN runs :
          runs[r].status = "pending" /\ runs[r].how = "resume" /\ ~Repeated(r) =>
              (\A o \in DOMAIN runs : o < r => ~Active(o)) /\ question = runs[r].answers

\* What is written beyond a boundary, and what may still be, is of one turn.
OfTurn(base, turn) ==
    /\ \A i \in DOMAIN thread : i > base => thread[i].turn = turn
    /\ \A r \in DOMAIN runs : Active(r) => runs[r].turn = turn

Boundary ==
    /\ activity.tools \subseteq DOMAIN thread
    /\ node \in {"pump", "asked", "interrupt"} /\ activity.clean => OfTurn(activity.base, state.act)
    /\ node = "kickoff" /\ local.clean =>
          /\ local.pc = "run" => Idle /\ \A i \in DOMAIN thread : i <= local.base
          /\ local.pc = "commit" => OfTurn(local.base, ActivityId)

TurnInv ==
    /\ InnerTyped /\ OuterTyped /\ TallyTyped
    /\ NodeIsPlaced
    /\ NothingYet
    /\ ShownInOrder
    /\ CursorInOrder
    /\ RunsInOrder
    /\ QuestionKept
    /\ Boundary
    /\ ActivityIsOfTheTurn

-----------------------------------------------------------------------------
(* Numbers, sequences and records *)

\* A non-empty set of naturals has a least element.
LEMMA LeastOfSet ==
    ASSUME NEW S \in SUBSET Nat, S # {}
    PROVE  \E m \in S : \A n \in S : m <= n
<1> DEFINE R == OpToRel(<, Nat)
<1>1. \E m \in S : \A n \in S : ~(<<n, m>> \in R)
  <2> HIDE DEF R
  <2>1. IsWellFoundedOn(R, Nat)
    BY NatLessThanWellFounded DEF R
  <2> QED
    BY <2>1, WFMin
<1>2. \A m, n \in Nat : n < m => <<n, m>> \in R
  BY DEF OpToRel
<1> HIDE DEF R
<1>3. PICK m \in S : \A n \in S : ~(<<n, m>> \in R)
  BY <1>1
<1>4. \A n \in S : m <= n
  <2> SUFFICES ASSUME NEW n \in S PROVE m <= n
    OBVIOUS
  <2>1. m \in Nat /\ n \in Nat /\ ~(n < m)
    BY <1>2, <1>3
  <2> QED
    BY <2>1
<1> QED
  BY <1>4

\* The type the runs check follows from the invariant.
LEMMA TurnInvTyped == TurnInv => ExperimentalTypeOK
BY DEF TurnInv, InnerTyped, OuterTyped, TallyTyped, NodeIsPlaced, ExperimentalTypeOK,
       LocalState, OuterState, ActivityLog

\* A node's local variables are new when it is entered.
LEMMA EnterLocal ==
    ASSUME NEW n, NEW pc \in {"none", "thread", "run", "commit", "poll"},
           NEW C \in SUBSET Nat, Enter(n, pc, C)
    PROVE  /\ node' = n /\ local' \in LocalState
           /\ local'.pc = pc /\ local'.cursor = C /\ local'.clean /\ ~local'.retry
<1>1. local' = [pc |-> pc, base |-> 0, clean |-> TRUE, made |-> 0, retry |-> FALSE,
                cursor |-> C, item |-> 0]
  BY DEF Enter, Nowhere
<1>2. 0 \in 0..MaxInnerRuns
  BY ExperimentalAssumption
<1>3. local' \in LocalState
  BY <1>1, <1>2 DEF LocalState
<1>4. local'.pc = pc /\ local'.cursor = C /\ local'.clean = TRUE /\ local'.retry = FALSE
  BY <1>1
<1> QED
  BY <1>3, <1>4 DEF Enter

\* A run that is marked: the others stay, and so does what it is for.
Marked(r, status) ==
    /\ DOMAIN runs' = DOMAIN runs /\ Len(runs') = Len(runs)
    /\ \A o \in DOMAIN runs :
          /\ runs'[o].turn = runs[o].turn /\ runs'[o].how = runs[o].how
          /\ runs'[o].answers = runs[o].answers
          /\ runs'[o].status = IF o = r THEN status ELSE runs[o].status

\* Marking an inner run changes its status and nothing else.
LEMMA RunMarked ==
    ASSUME runs \in Seq(InnerRun), NEW r \in DOMAIN runs,
           NEW status \in {"pending", "running", "success", "error", "interrupted"},
           runs' = [runs EXCEPT ![r].status = status]
    PROVE  runs' \in Seq(InnerRun) /\ Marked(r, status)
<1> DEFINE e == [runs[r] EXCEPT !.status = status]
<1>1. r \in 1..Len(runs) /\ DOMAIN runs = 1..Len(runs) /\ \A o \in DOMAIN runs : runs[o] \in InnerRun
  OBVIOUS
<1>2. /\ e \in InnerRun /\ e.status = status /\ e.turn = runs[r].turn /\ e.how = runs[r].how
      /\ e.answers = runs[r].answers
  BY <1>1 DEF InnerRun
<1>3. runs' = [runs EXCEPT ![r] = e]
  OBVIOUS
<1> HIDE DEF e
<1>4. /\ runs' \in Seq(InnerRun) /\ Len(runs') = Len(runs)
      /\ \A o \in 1..Len(runs) : runs'[o] = IF o = r THEN e ELSE runs[o]
  BY <1>1, <1>2, <1>3, ExceptSeq
<1>5. DOMAIN runs' = 1..Len(runs)
  BY <1>4
<1> QED
  BY <1>1, <1>2, <1>4, <1>5 DEF Marked

\* A run that is made comes last.
Made(how, q, turn) ==
    /\ runs' \in Seq(InnerRun) /\ Len(runs') = Len(runs) + 1
    /\ Len(runs) + 1 \in 1..MaxInnerRuns
    /\ DOMAIN runs = 1..Len(runs) /\ DOMAIN runs' = 1..(Len(runs) + 1)
    /\ \A o \in DOMAIN runs : runs'[o] = runs[o]
    /\ runs'[Len(runs) + 1].status = "pending" /\ runs'[Len(runs) + 1].turn = turn
    /\ runs'[Len(runs) + 1].how = how /\ runs'[Len(runs) + 1].answers = q

\* Creating an inner run appends it and leaves the others.
LEMMA RunMade ==
    ASSUME runs \in Seq(InnerRun), NEW how \in {"input", "resume", "retry"}, NEW q \in Nat,
           NEW turn \in 1..MaxInnerRuns, CreateRun(how, q, turn)
    PROVE  Made(how, q, turn)
<1> DEFINE e == [status |-> "pending", how |-> how, answers |-> q, turn |-> turn,
                 left |-> MaxWrites]
<1>1. MaxWrites \in Nat /\ MaxInnerRuns \in Nat
  BY ExperimentalAssumption
<1>2. /\ e \in InnerRun /\ e.status = "pending" /\ e.turn = turn /\ e.how = how
      /\ e.answers = q
  BY <1>1 DEF InnerRun
<1>3. runs' = Append(runs, e) /\ Len(runs) < MaxInnerRuns
  BY DEF CreateRun
<1> HIDE DEF e
<1>4. /\ runs' \in Seq(InnerRun) /\ Len(runs') = Len(runs) + 1
      /\ \A o \in 1..Len(runs) : runs'[o] = runs[o]
      /\ runs'[Len(runs) + 1] = e
  BY <1>2, <1>3, AppendProperties
<1>5. /\ DOMAIN runs = 1..Len(runs) /\ DOMAIN runs' = 1..(Len(runs) + 1)
      /\ Len(runs) + 1 \in 1..MaxInnerRuns
  BY <1>1, <1>3, <1>4
<1> QED
  BY <1>2, <1>4, <1>5 DEF Made

-----------------------------------------------------------------------------
(* The inner runs *)

\* The thread has become longer, by messages of one turn.
Grown(turn) ==
    /\ thread' \in Seq(InnerMessage)
    /\ Len(thread) \in Nat /\ Len(thread') \in Nat /\ Len(thread) <= Len(thread')
    /\ DOMAIN thread = 1..Len(thread) /\ DOMAIN thread' = 1..Len(thread')
    /\ \A i \in DOMAIN thread : thread'[i] = thread[i]
    /\ \A i \in DOMAIN thread' : i \notin DOMAIN thread => thread'[i].turn = turn

\* A thread that does not change has grown by nothing.
LEMMA SameThread ==
    ASSUME thread \in Seq(InnerMessage), thread' = thread, NEW turn
    PROVE  Grown(turn)
BY DEF Grown

\* A thread to which a turn's messages are appended has grown for that turn.
LEMMA RunWrote ==
    ASSUME thread \in Seq(InnerMessage), NEW turn \in 1..MaxInnerRuns,
           NEW w \in Seq(InnerMessage), \A i \in DOMAIN w : w[i].turn = turn,
           thread' = thread \o w
    PROVE  Grown(turn)
<1>1. /\ Len(thread) \in Nat /\ Len(w) \in Nat
      /\ DOMAIN thread = 1..Len(thread) /\ DOMAIN w = 1..Len(w)
  OBVIOUS
<1>2. /\ thread' \in Seq(InnerMessage) /\ Len(thread') = Len(thread) + Len(w)
      /\ \A i \in 1..Len(thread) + Len(w) :
            thread'[i] = IF i <= Len(thread) THEN thread[i] ELSE w[i - Len(thread)]
  BY ConcatProperties
<1>3. DOMAIN thread' = 1..Len(thread')
  BY <1>2
<1>4. \A i \in DOMAIN thread' : i \notin DOMAIN thread => thread'[i].turn = turn
  <2> SUFFICES ASSUME NEW i \in DOMAIN thread', i \notin DOMAIN thread
               PROVE  thread'[i].turn = turn
    OBVIOUS
  <2>1. i - Len(thread) \in DOMAIN w /\ ~(i <= Len(thread)) /\ i \in 1..Len(thread) + Len(w)
    BY <1>1, <1>2, <1>3
  <2> QED
    BY <1>2, <2>1
<1> QED
  BY <1>1, <1>2, <1>3, <1>4 DEF Grown

\* What was shown, passed or recorded stays so when the thread grows.
LEMMA SeenStays ==
    ASSUME TurnInv, UNCHANGED outerVars, NEW turn, Grown(turn)
    PROVE  /\ NothingYet' /\ ShownInOrder' /\ CursorInOrder' /\ ActivityIsOfTheTurn'
           /\ activity'.tools \subseteq DOMAIN thread'
<1>1. /\ node' = node /\ local' = local /\ state' = state /\ shown' = shown
      /\ activity' = activity
  BY DEF outerVars
<1>2. PICK p \in 0..Len(thread) :
          /\ state.processed = 1..p
          /\ \A i \in DOMAIN shown : shown[i] \in 1..p
          /\ node = "pump" =>
                \E n \in p..Len(thread) :
                    /\ local.cursor = 1..n
                    /\ local.pc = "rewrite" => p < n /\ local.item = n
                    /\ \A i \in (p + 1)..n :
                          Eligible(i) => local.pc = "rewrite" /\ local.item = i
  BY DEF TurnInv, CursorInOrder
<1>3. p \in Nat /\ p \in 0..Len(thread') /\ p <= Len(thread)
  BY <1>2 DEF Grown
<1>4. \A i \in 1..Len(thread) : Eligible(i)' <=> Eligible(i)
  BY DEF Grown, Eligible
<1>5. ASSUME node = "pump"
      PROVE  \E n \in p..Len(thread') :
                    /\ local.cursor = 1..n
                    /\ local.pc = "rewrite" => p < n /\ local.item = n
                    /\ \A i \in (p + 1)..n :
                          Eligible(i)' => local.pc = "rewrite" /\ local.item = i
  <2>1. PICK n \in p..Len(thread) :
                    /\ local.cursor = 1..n
                    /\ local.pc = "rewrite" => p < n /\ local.item = n
                    /\ \A i \in (p + 1)..n :
                          Eligible(i) => local.pc = "rewrite" /\ local.item = i
    BY <1>2, <1>5
  <2>2. n \in p..Len(thread') /\ \A i \in (p + 1)..n : i \in 1..Len(thread)
    BY <1>3, <2>1 DEF Grown
  <2> QED
    BY <1>4, <2>1, <2>2
<1>6. CursorInOrder'
  BY <1>1, <1>2, <1>3, <1>5 DEF CursorInOrder
<1>7. \A i \in state.processed : i \in 1..Len(thread)
  BY <1>2, <1>3 DEF Grown
<1>8. ShownInOrder'
  BY <1>1, <1>4, <1>7 DEF TurnInv, ShownInOrder, Contains
<1>9. activity'.tools \subseteq DOMAIN thread' /\ ActivityIsOfTheTurn'
  BY <1>1 DEF TurnInv, Boundary, ActivityIsOfTheTurn, Grown
<1> QED
  BY <1>1, <1>6, <1>8, <1>9 DEF TurnInv, NothingYet

\* A step of the first run that is pending or under way: it starts, writes or ends.
LEMMA InnerKeeps ==
    ASSUME TurnInv, UNCHANGED outerVars, question' \in Nat, TallyTyped',
           NEW r \in DOMAIN runs, Active(r), \A o \in DOMAIN runs : o < r => ~Active(o),
           NEW status, status # "pending", Marked(r, status), runs' \in Seq(InnerRun),
           Grown(runs[r].turn)
    PROVE  TurnInv'
<1>1. /\ node' = node /\ local' = local /\ state' = state /\ shown' = shown
      /\ activity' = activity /\ marker' = marker
  BY DEF outerVars
<1>2. InnerTyped' /\ OuterTyped'
  BY <1>1 DEF TurnInv, InnerTyped, OuterTyped, Grown
<1>3. NodeIsPlaced'
  BY <1>1 DEF TurnInv, NodeIsPlaced, Marked
<1>4. \A o \in DOMAIN runs : o # r => (Active(o)' <=> Active(o)) /\ runs'[o].status = runs[o].status
  BY DEF Marked, Active
<1>5. DOMAIN runs = 1..Len(runs) /\ r \in 1..Len(runs) /\ Len(runs) \in Nat
  BY DEF TurnInv, InnerTyped
<1>6. \A o \in DOMAIN runs : o > r => runs[o].status # "running"
  BY <1>5 DEF TurnInv, RunsInOrder
<1>7. ~Idle
  BY DEF Idle
<1>8. RunsInOrder'
  <2>1. \A o \in DOMAIN runs' : runs'[o].status = "running" => o = r
    <3> SUFFICES ASSUME NEW o \in DOMAIN runs, o # r PROVE runs'[o].status # "running"
      BY DEF Marked
    <3>1. runs[o].status = "running" => Active(o)
      BY DEF Active, ActiveRunStatuses
    <3>2. o < r \/ o > r
      BY <1>5
    <3> QED
      BY <1>4, <1>6, <3>1, <3>2
  <2>2. \A o \in DOMAIN runs' : o < r => ~Active(o)'
    BY <1>4, <1>5 DEF Marked
  <2>3. ASSUME Active(Len(runs)) \/ Idle
        PROVE  runs'[Len(runs)].status \in ActiveRunStatuses \/ Idle'
    <3>1. CASE r = Len(runs)
      <4>1. Active(r)' \/ Idle'
        BY <2>2, <1>5, <3>1 DEF Idle, Marked
      <4> QED
        BY <3>1, <4>1 DEF Active
    <3>2. CASE r # Len(runs)
      <4>1. Len(runs) \in DOMAIN runs /\ Active(Len(runs))
        BY <1>5, <1>7, <2>3
      <4> QED
        BY <1>4, <3>2, <4>1 DEF Active
    <3> QED
      BY <3>1, <3>2
  <2>4. Len(runs') = Len(runs)
    BY DEF Marked
  <2>5. node = "pump" \/ (node \in {"kickoff", "interrupt"} /\ local.pc = "commit") =>
            Active(Len(runs)) \/ Idle
    BY DEF TurnInv, RunsInOrder
  <2>6. node' = "pump" \/ (node' \in {"kickoff", "interrupt"} /\ local'.pc = "commit") =>
            runs'[Len(runs')].status \in ActiveRunStatuses \/ Idle'
    BY <1>1, <2>3, <2>4, <2>5
  <2> QED
    BY <2>1, <2>2, <2>6 DEF RunsInOrder, Active
<1>9. QuestionKept'
  <2>1. \A o \in DOMAIN runs : Repeated(o)' <=> Repeated(o)
    BY DEF Marked, Repeated
  <2>2. \A o \in DOMAIN runs' :
            ~(runs'[o].status = "pending" /\ runs'[o].how = "resume" /\ ~Repeated(o)')
    <3> SUFFICES ASSUME NEW o \in DOMAIN runs, runs'[o].status = "pending",
                        runs'[o].how = "resume", ~Repeated(o)'
                 PROVE  FALSE
      BY DEF Marked
    <3>1. o # r /\ runs[o].status = "pending" /\ runs[o].how = "resume" /\ ~Repeated(o)
      BY <1>4, <2>1 DEF Marked
    <3>2. Active(o)
      BY <3>1 DEF Active, ActiveRunStatuses
    <3>3. o > r
      BY <1>5, <3>1, <3>2
    <3> QED
      BY <3>1, <3>3 DEF TurnInv, QuestionKept
  <2>3. Answered(state.ask) => Answered(state.ask)'
    BY <1>1 DEF Marked, Answered
  <2> QED
    BY <1>1, <1>7, <2>2, <2>3 DEF TurnInv, QuestionKept
<1>10. \A base, turn : OfTurn(base, turn) => OfTurn(base, turn)'
  <2> SUFFICES ASSUME NEW base, NEW turn, OfTurn(base, turn)
               PROVE  OfTurn(base, turn)'
    OBVIOUS
  <2>1. runs[r].turn = turn
    BY DEF OfTurn
  <2>2. \A i \in DOMAIN thread' : i > base => thread'[i].turn = turn
    BY <2>1 DEF OfTurn, Grown
  <2>3. \A o \in DOMAIN runs' : Active(o)' => runs'[o].turn = turn
    BY <1>4, <2>1 DEF OfTurn, Marked
  <2> QED
    BY <2>2, <2>3 DEF OfTurn
<1>11. ActivityId' = ActivityId
  BY <1>1 DEF ActivityId
<1>12. Boundary'
  <2>1. activity'.tools \subseteq DOMAIN thread'
    BY SeenStays
  <2> QED
    BY <1>1, <1>7, <1>10, <1>11, <2>1 DEF TurnInv, Boundary
<1> QED
  BY <1>2, <1>3, <1>8, <1>9, <1>12, SeenStays DEF TurnInv

\* What a run writes has its turn.
LEMMA WrittenType ==
    ASSUME runs \in Seq(InnerRun), NEW r \in DOMAIN runs, NEW kinds \in Seq(InnerKind)
    PROVE  /\ runs[r].turn \in 1..MaxInnerRuns
           /\ Written(r, kinds) \in Seq(InnerMessage)
           /\ \A i \in DOMAIN Written(r, kinds) : Written(r, kinds)[i].turn = runs[r].turn
<1> DEFINE m == [k \in InnerKind |-> [kind |-> k, turn |-> runs[r].turn]]
<1>1. runs[r].turn \in 1..MaxInnerRuns
  <2>1. runs[r] \in InnerRun
    OBVIOUS
  <2> QED
    BY <2>1 DEF InnerRun
<1>2. /\ m \in [InnerKind -> InnerMessage]
      /\ \A k \in InnerKind : m[k].turn = runs[r].turn
  BY <1>1 DEF InnerMessage
<1>3. \A i \in DOMAIN kinds : kinds[i] \in InnerKind
  OBVIOUS
<1>4. Written(r, kinds) = [i \in DOMAIN kinds |-> m[kinds[i]]]
  BY <1>3 DEF Written
<1>5. DOMAIN kinds = 1..Len(kinds) /\ Len(kinds) \in Nat
  OBVIOUS
<1> HIDE DEF m
<1>6. [i \in 1..Len(kinds) |-> m[kinds[i]]] \in Seq(InnerMessage)
  BY <1>2, <1>3, <1>5
<1> QED
  BY <1>1, <1>2, <1>3, <1>4, <1>5, <1>6

\* A run starts, with the message or the answer it is for.
LEMMA RunStartsStep ==
    ASSUME TurnInv, NEW r \in DOMAIN runs, RunStarts(r)
    PROVE  TurnInv'
<1>1. InnerTyped /\ TallyTyped
  BY DEF TurnInv
<1>2. /\ runs[r].status = "pending" /\ UNCHANGED outerVars /\ tally' = tally
      /\ \A o \in DOMAIN runs : o < r => ~Active(o)
      /\ runs' = [runs EXCEPT ![r].status = "running"]
  BY DEF RunStarts, Active, ActiveRunStatuses
<1>3. Active(r)
  BY <1>2 DEF Active, ActiveRunStatuses
<1>4. PICK kinds \in Seq(InnerKind) : thread' = thread \o Written(r, kinds)
  <2>1. /\ <<"result", "human">> \in Seq(InnerKind) /\ <<"human">> \in Seq(InnerKind)
        /\ <<"result">> \in Seq(InnerKind) /\ <<>> \in Seq(InnerKind)
    BY DEF InnerKind
  <2> QED
    BY <2>1 DEF RunStarts
<1>5. Grown(runs[r].turn)
  BY <1>1, <1>4, WrittenType, RunWrote DEF InnerTyped
<1>6. question' \in Nat
  BY <1>1 DEF RunStarts, InnerTyped
<1>7. runs' \in Seq(InnerRun) /\ Marked(r, "running")
  BY <1>1, <1>2, RunMarked DEF InnerTyped
<1>8. TallyTyped'
  BY <1>1, <1>2 DEF TallyTyped
<1> QED
  BY <1>2, <1>3, <1>5, <1>6, <1>7, <1>8, InnerKeeps

\* The run under way is the first one that is not over.
LEMMA RunningIsFirst ==
    ASSUME TurnInv, NEW r \in DOMAIN runs, runs[r].status = "running"
    PROVE  Active(r) /\ \A o \in DOMAIN runs : o < r => ~Active(o)
BY DEF TurnInv, RunsInOrder, Active, ActiveRunStatuses

\* It writes a message.
LEMMA RunWritesStep ==
    ASSUME TurnInv, NEW r \in DOMAIN runs, RunWrites(r)
    PROVE  TurnInv'
<1>1. InnerTyped /\ TallyTyped
  BY DEF TurnInv
<1>2. runs[r].status = "running" /\ UNCHANGED outerVars /\ tally' = tally /\ question' = question
  BY DEF RunWrites
<1>3. PICK k \in InnerKind : thread' = thread \o Written(r, <<k>>)
  BY DEF RunWrites, InnerNext, InnerKind
<1>4. Grown(runs[r].turn)
  <2>1. <<k>> \in Seq(InnerKind)
    OBVIOUS
  <2> QED
    BY <1>1, <1>3, <2>1, WrittenType, RunWrote DEF InnerTyped
<1>5. runs' \in Seq(InnerRun) /\ Marked(r, "running")
  <2> DEFINE n == runs[r].left - 1
             e == [runs[r] EXCEPT !.left = n]
  <2>1. n \in 0..MaxWrites /\ runs[r] \in InnerRun
    <3>1. runs[r] \in InnerRun
      BY <1>1 DEF InnerTyped
    <3>2. runs[r].left \in 0..MaxWrites /\ runs[r].left > 0 /\ MaxWrites \in Nat
      BY <3>1, ExperimentalAssumption DEF InnerRun, RunWrites
    <3> QED
      BY <3>1, <3>2
  <2>2. runs' = [runs EXCEPT ![r] = e]
    BY DEF RunWrites
  <2> HIDE DEF n
  <2>3. /\ e \in InnerRun /\ e.status = "running" /\ e.turn = runs[r].turn
        /\ e.how = runs[r].how /\ e.answers = runs[r].answers
    BY <1>2, <2>1 DEF InnerRun
  <2> HIDE DEF e
  <2>4. r \in 1..Len(runs) /\ DOMAIN runs = 1..Len(runs)
    BY <1>1 DEF InnerTyped
  <2>5. /\ runs' \in Seq(InnerRun) /\ Len(runs') = Len(runs)
        /\ \A o \in 1..Len(runs) : runs'[o] = IF o = r THEN e ELSE runs[o]
    BY <1>1, <2>2, <2>3, <2>4, ExceptSeq DEF InnerTyped
  <2>6. DOMAIN runs' = 1..Len(runs)
    BY <2>5
  <2> QED
    BY <2>3, <2>4, <2>5, <2>6 DEF Marked
<1>6. TallyTyped' /\ question' \in Nat
  BY <1>1, <1>2 DEF TallyTyped, InnerTyped
<1> QED
  BY <1>2, <1>4, <1>5, <1>6, RunningIsFirst, InnerKeeps

\* It ends: it asks, succeeds or fails.
LEMMA RunEndsStep ==
    ASSUME TurnInv, NEW r \in DOMAIN runs, RunAsks(r) \/ RunSucceeds(r) \/ RunFails(r)
    PROVE  TurnInv'
<1>1. InnerTyped /\ TallyTyped
  BY DEF TurnInv
<1>2. PICK status \in {"interrupted", "success", "error"} :
          runs' = [runs EXCEPT ![r].status = status]
  BY DEF RunAsks, RunSucceeds, RunFails
<1>3. runs[r].status = "running" /\ UNCHANGED outerVars /\ thread' = thread
  BY DEF RunAsks, RunSucceeds, RunFails
<1>4. runs' \in Seq(InnerRun) /\ Marked(r, status)
  BY <1>1, <1>2, RunMarked DEF InnerTyped
<1>5. question' \in Nat /\ TallyTyped'
  <2>1. tally.asks + 1 \in Nat /\ tally.faults + 1 \in Nat /\ question \in Nat
    BY <1>1 DEF InnerTyped, TallyTyped
  <2>2. PICK k \in Nat : k = tally.asks + 1
    BY <2>1
  <2>3. PICK m \in Nat : m = tally.faults + 1
    BY <2>1
  <2>4. /\ tally' \in {tally, [tally EXCEPT !.asks = k], [tally EXCEPT !.faults = m]}
        /\ question' \in {question, k}
    BY <2>2, <2>3 DEF RunAsks, RunSucceeds, RunFails, OuterFault
  <2> QED
    BY <1>1, <2>1, <2>4 DEF TallyTyped
<1>6. Grown(runs[r].turn)
  BY <1>1, <1>3, SameThread DEF InnerTyped
<1> QED
  BY <1>3, <1>4, <1>5, <1>6, RunningIsFirst, InnerKeeps

-----------------------------------------------------------------------------
(* The outer run *)

\* Nothing more is shown: the cursor is where it was, or back at the last commit.
LEMMA ShownSame ==
    ASSUME TurnInv, thread' = thread, shown' = shown, state'.processed = state.processed,
           node' = "pump" =>
               /\ local'.pc # "rewrite"
               /\ \/ local'.cursor = state.processed
                  \/ node = "pump" /\ local.pc # "rewrite" /\ local'.cursor = local.cursor
    PROVE  ShownInOrder' /\ CursorInOrder'
<1>1. PICK p \in 0..Len(thread) :
          /\ state.processed = 1..p
          /\ \A i \in DOMAIN shown : shown[i] \in 1..p
          /\ node = "pump" =>
                \E n \in p..Len(thread) :
                    /\ local.cursor = 1..n
                    /\ local.pc = "rewrite" => p < n /\ local.item = n
                    /\ \A i \in (p + 1)..n :
                          Eligible(i) => local.pc = "rewrite" /\ local.item = i
  BY DEF TurnInv, CursorInOrder
<1>2. ASSUME node' = "pump"
      PROVE  \E n \in p..Len(thread) :
                    /\ local'.cursor = 1..n
                    /\ local'.pc = "rewrite" => p < n /\ local'.item = n
                    /\ \A i \in (p + 1)..n :
                          Eligible(i) => local'.pc = "rewrite" /\ local'.item = i
  <2>1. CASE local'.cursor = state.processed
    <3>1. p \in p..Len(thread) /\ \A i \in (p + 1)..p : FALSE
      BY <1>1 DEF TurnInv, InnerTyped
    <3> QED
      BY <1>1, <1>2, <2>1, <3>1
  <2>2. CASE node = "pump" /\ local.pc # "rewrite" /\ local'.cursor = local.cursor
    BY <1>1, <1>2, <2>2
  <2> QED
    BY <1>2, <2>1, <2>2
<1>3. CursorInOrder'
  BY <1>1, <1>2 DEF CursorInOrder, Eligible
<1> QED
  BY <1>3 DEF TurnInv, ShownInOrder, Eligible

\* The node ends with nothing in its cursor that the user has not seen.
LEMMA ShownPassed ==
    ASSUME TurnInv, thread' = thread, shown' = shown, node = "pump", local.pc # "rewrite",
           state'.processed = local.cursor, node' # "pump"
    PROVE  ShownInOrder' /\ CursorInOrder'
<1>0. PICK p \in 0..Len(thread) :
          /\ state.processed = 1..p
          /\ \A i \in DOMAIN shown : shown[i] \in 1..p
          /\ \E n \in p..Len(thread) :
                local.cursor = 1..n /\ \A i \in (p + 1)..n : ~Eligible(i)
  BY DEF TurnInv, CursorInOrder
<1>1. PICK n \in p..Len(thread) : local.cursor = 1..n /\ \A i \in (p + 1)..n : ~Eligible(i)
  BY <1>0
<1>2. p \in Nat /\ n \in Nat /\ p <= n /\ n \in 0..Len(thread) /\ \A i \in 1..p : i \in 1..n
  BY <1>0, <1>1 DEF TurnInv, InnerTyped
<1>3. CursorInOrder'
  BY <1>0, <1>1, <1>2 DEF CursorInOrder
<1>4. \A i \in 1..n : Eligible(i) => i \in state.processed
  BY <1>0, <1>1, <1>2
<1> QED
  BY <1>1, <1>3, <1>4 DEF TurnInv, ShownInOrder, Eligible

\* The user sends a message or retries.
LEMMA SubmitStep ==
    ASSUME TurnInv, NEW retry \in BOOLEAN, Submit(retry)
    PROVE  TurnInv'
<1>1. local \in LocalState /\ tally.submits + 1 \in Nat
  BY DEF TurnInv, OuterTyped, TallyTyped
<1>2. /\ node' = "kickoff" /\ local'.pc = "thread" /\ local'.retry = retry
      /\ local' \in LocalState
  <2>1. local' = [pc |-> "thread", base |-> 0, clean |-> TRUE, made |-> 0, retry |-> retry,
                  cursor |-> {}, item |-> 0]
    BY DEF Submit, Nowhere
  <2>2. 0 \in 0..MaxInnerRuns
    BY ExperimentalAssumption
  <2>3. local' \in LocalState
    BY <2>1, <2>2 DEF LocalState
  <2> QED
    BY <2>1, <2>3 DEF Submit
<1>3. /\ UNCHANGED <<thread, runs, question, state, shown, marker, activity>>
      /\ retry => state.act # 0
  BY DEF Submit, innerVars
<1>4. TallyTyped'
  <2>1. PICK k \in Nat : k = tally.submits + 1
    BY <1>1
  <2>2. tally' = [tally EXCEPT !.submits = k]
    BY <2>1 DEF Submit
  <2> QED
    BY <2>2 DEF TurnInv, TallyTyped
<1>5. InnerTyped' /\ OuterTyped'
  BY <1>2, <1>3 DEF TurnInv, InnerTyped, OuterTyped
<1>6. ShownInOrder' /\ CursorInOrder'
  BY <1>2, <1>3, ShownSame
<1>7. NodeIsPlaced' /\ NothingYet' /\ ActivityIsOfTheTurn'
  BY <1>2, <1>3 DEF TurnInv, NodeIsPlaced, NothingYet, ActivityIsOfTheTurn
<1>8. RunsInOrder' /\ QuestionKept' /\ Boundary'
  BY <1>2, <1>3 DEF TurnInv, RunsInOrder, QuestionKept, Answered, Repeated, Boundary, Active
<1> QED
  BY <1>4, <1>5, <1>6, <1>7, <1>8 DEF TurnInv

\* A fault is counted.
LEMMA FaultCounted ==
    ASSUME TurnInv, OuterFault \/ tally' = tally
    PROVE  TallyTyped'
<1>1. PICK k \in Nat : k = tally.faults + 1
  BY DEF TurnInv, TallyTyped
<1>2. tally' \in {tally, [tally EXCEPT !.faults = k]}
  BY <1>1 DEF OuterFault
<1> QED
  BY <1>2 DEF TurnInv, TallyTyped

\* kickoff finds the hidden thread, and where this turn begins in it, or fails to.
LEMMA KickoffReusesStep ==
    ASSUME TurnInv, KickoffReuses
    PROVE  TurnInv'
<1>1. /\ node' = "kickoff"
      /\ UNCHANGED <<thread, runs, question, state, shown, marker, activity>>
  BY DEF KickoffReuses, innerVars
<1>2. PICK base \in Nat, clean \in BOOLEAN :
          /\ clean => base = Len(thread) /\ Idle
          /\ local' = [local EXCEPT !.pc = "run", !.base = base, !.clean = clean]
  <2>1. Len(thread) \in Nat /\ Idle \in BOOLEAN
    BY DEF TurnInv, InnerTyped, Idle
  <2>2. PICK base \in {Len(thread), 0} :
            local' = [local EXCEPT !.pc = "run", !.base = base,
                                   !.clean = base = Len(thread) /\ Idle]
    BY DEF KickoffReuses, Idle
  <2>3. PICK clean \in BOOLEAN : clean = (base = Len(thread) /\ Idle)
    OBVIOUS
  <2>4. local' = [local EXCEPT !.pc = "run", !.base = base, !.clean = clean]
    BY <2>2, <2>3
  <2> QED
    BY <2>1, <2>3, <2>4
<1>3. /\ local' \in LocalState /\ local'.pc = "run" /\ local'.base = base
      /\ local'.clean = clean /\ local'.retry = local.retry
  BY <1>2 DEF TurnInv, OuterTyped, LocalState
<1>4. InnerTyped' /\ OuterTyped' /\ TallyTyped'
  <2>1. OuterFault \/ tally' = tally
    BY DEF KickoffReuses
  <2>2. TallyTyped'
    BY <2>1, FaultCounted
  <2> QED
    BY <1>1, <1>3, <2>2 DEF TurnInv, InnerTyped, OuterTyped
<1>5. ShownInOrder' /\ CursorInOrder'
  BY <1>1, ShownSame
<1>6. NodeIsPlaced' /\ NothingYet' /\ ActivityIsOfTheTurn'
  BY <1>1, <1>3 DEF TurnInv, NodeIsPlaced, NothingYet, ActivityIsOfTheTurn, KickoffReuses
<1>7. RunsInOrder' /\ QuestionKept'
  BY <1>1, <1>3 DEF TurnInv, RunsInOrder, QuestionKept, Answered, Repeated, Active
<1>8. Boundary'
  <2>1. clean => Idle /\ \A i \in DOMAIN thread : i <= base
    BY <1>2 DEF TurnInv, InnerTyped
  <2> QED
    BY <1>1, <1>2, <1>3, <2>1 DEF TurnInv, Boundary, Idle, Active
<1> QED
  BY <1>4, <1>5, <1>6, <1>7, <1>8 DEF TurnInv

\* kickoff makes a hidden thread; nothing was shown of another.
LEMMA KickoffCreatesStep ==
    ASSUME TurnInv, KickoffCreates
    PROVE  TurnInv'
<1>1. /\ node' = "kickoff" /\ tally' = tally /\ thread' = <<>> /\ question' = 0
      /\ UNCHANGED <<state, shown, marker, activity>>
  BY DEF KickoffCreates
<1>2. /\ local' \in LocalState /\ local'.pc = "run" /\ local'.retry = local.retry
      /\ local'.base = local.base
  BY DEF KickoffCreates, TurnInv, OuterTyped, LocalState
<1>3. /\ runs' \in Seq(InnerRun) /\ DOMAIN runs' = DOMAIN runs /\ Len(runs') = Len(runs)
      /\ \A r \in DOMAIN runs : runs'[r].status = "forgotten"
  <2> DEFINE f == [r \in DOMAIN runs |-> [runs[r] EXCEPT !.status = "forgotten"]]
  <2>1. DOMAIN runs = 1..Len(runs) /\ Len(runs) \in Nat /\ \A r \in DOMAIN runs : runs[r] \in InnerRun
    BY DEF TurnInv, InnerTyped
  <2>2. \A r \in DOMAIN runs : f[r] \in InnerRun /\ f[r].status = "forgotten"
    BY <2>1 DEF InnerRun
  <2>3. runs' = f /\ DOMAIN f = 1..Len(runs)
    BY <2>1 DEF KickoffCreates
  <2>4. f \in [1..Len(runs) -> InnerRun]
    BY <2>1, <2>2
  <2> HIDE DEF f
  <2>5. f \in Seq(InnerRun) /\ Len(f) = Len(runs)
    BY <2>1, <2>4, SeqDef
  <2> QED
    BY <2>1, <2>2, <2>3, <2>5
<1>4. <<>> \in Seq(InnerMessage) /\ DOMAIN <<>> = {} /\ Len(<<>>) = 0
  OBVIOUS
<1>5. InnerTyped' /\ OuterTyped' /\ TallyTyped'
  BY <1>1, <1>2, <1>3, <1>4 DEF TurnInv, InnerTyped, OuterTyped, TallyTyped
<1>6. state.processed = {} /\ shown = <<>> /\ activity.tools = {}
  BY DEF TurnInv, NothingYet, KickoffCreates
<1>7. ShownInOrder' /\ ActivityIsOfTheTurn'
  BY <1>1, <1>4, <1>6 DEF ShownInOrder, ActivityIsOfTheTurn
<1>8. CursorInOrder'
  <2>1. 0 \in 0..Len(thread') /\ 1..0 = {}
    BY <1>1, <1>4
  <2> QED
    BY <1>1, <1>4, <1>6, <2>1 DEF CursorInOrder
<1>9. NodeIsPlaced' /\ NothingYet'
  BY <1>1, <1>2, <1>3 DEF TurnInv, NodeIsPlaced, NothingYet, KickoffCreates
<1>10. Idle' /\ \A r \in DOMAIN runs' : runs'[r].status = "forgotten"
  BY <1>3 DEF Idle, Active, ActiveRunStatuses
<1>11. RunsInOrder' /\ QuestionKept'
  BY <1>1, <1>2, <1>10 DEF RunsInOrder, QuestionKept
<1>12. Boundary'
  BY <1>1, <1>2, <1>4, <1>6, <1>10 DEF Boundary
<1> QED
  BY <1>5, <1>7, <1>8, <1>9, <1>11, <1>12 DEF TurnInv

\* A new run is behind all others: nothing else is queued for the thread or asked.
LEMMA MadeLast ==
    ASSUME TurnInv, NEW how, NEW q, NEW turn, Made(how, q, turn)
    PROVE  /\ \A r \in DOMAIN runs : r \in DOMAIN runs' /\ (Active(r)' <=> Active(r))
           /\ runs'[Len(runs')].status \in ActiveRunStatuses
           /\ \A r \in DOMAIN runs' : runs'[r].status = "running" =>
                  \A o \in DOMAIN runs' : o < r => ~Active(o)'
<1>1. DOMAIN runs = 1..Len(runs) /\ Len(runs) \in Nat
  BY DEF TurnInv, InnerTyped
<1>2. \A r \in DOMAIN runs : r \in DOMAIN runs' /\ (Active(r)' <=> Active(r))
  BY DEF Made, Active
<1>3. runs'[Len(runs')].status = "pending"
  BY DEF Made
<1>4. ASSUME NEW r \in DOMAIN runs', runs'[r].status = "running",
             NEW o \in DOMAIN runs', o < r
      PROVE  ~Active(o)'
  <2>1. r \in DOMAIN runs /\ o \in DOMAIN runs /\ runs[r].status = "running"
    BY <1>1, <1>3, <1>4 DEF Made
  <2>2. ~Active(o)
    BY <1>4, <2>1 DEF TurnInv, RunsInOrder
  <2> QED
    BY <1>2, <2>1, <2>2
<1> QED
  BY <1>2, <1>3, <1>4 DEF ActiveRunStatuses

\* kickoff makes the run of the turn.
LEMMA KickoffRunStep ==
    ASSUME TurnInv, KickoffRun
    PROVE  TurnInv'
<1>1. /\ node' = "kickoff" /\ node = "kickoff" /\ local.pc = "run" /\ tally' = tally
      /\ UNCHANGED <<thread, question, state, shown, marker, activity>>
  BY DEF KickoffRun
<1>2. /\ Len(runs) \in Nat /\ local \in LocalState /\ state \in OuterState
      /\ runs \in Seq(InnerRun) /\ DOMAIN runs = 1..Len(runs)
  BY DEF TurnInv, InnerTyped, OuterTyped
<1>3. PICK how \in {"input", "retry"}, turn \in 1..MaxInnerRuns :
          /\ CreateRun(how, 0, turn)
          /\ turn = IF local.retry THEN state.act ELSE Len(runs) + 1
  <2>1. local.retry => state.act \in 1..MaxInnerRuns
    BY <1>1, <1>2, ExperimentalAssumption DEF TurnInv, NodeIsPlaced, OuterState
  <2>2. ~local.retry => Len(runs) + 1 \in 1..MaxInnerRuns
    BY <1>2, ExperimentalAssumption DEF KickoffRun, CreateRun
  <2> QED
    BY <2>1, <2>2 DEF KickoffRun
<1>4. Made(how, 0, turn)
  BY <1>2, <1>3, RunMade
<1>5. /\ local' \in LocalState /\ local'.pc = "commit" /\ local'.made = Len(runs) + 1
      /\ local'.retry = local.retry /\ local'.clean = local.clean /\ local'.base = local.base
  <2>1. PICK m \in 0..MaxInnerRuns : m = Len(runs) + 1
    BY <1>4 DEF Made
  <2>2. local' = [local EXCEPT !.pc = "commit", !.made = m]
    BY <2>1 DEF KickoffRun
  <2> QED
    BY <1>2, <2>1, <2>2 DEF LocalState
<1>6. InnerTyped' /\ OuterTyped' /\ TallyTyped'
  BY <1>1, <1>4, <1>5 DEF TurnInv, InnerTyped, OuterTyped, TallyTyped, Made
<1>7. ShownInOrder' /\ CursorInOrder'
  BY <1>1, ShownSame
<1>8. NodeIsPlaced' /\ NothingYet' /\ ActivityIsOfTheTurn'
  <2>1. state.act <= Len(runs) + 1
    BY <1>2 DEF TurnInv, NodeIsPlaced, OuterState
  <2>2. local'.made = Len(runs') /\ local'.made # 0 /\ Len(runs') = Len(runs) + 1
    BY <1>2, <1>4, <1>5 DEF Made
  <2> QED
    BY <1>1, <1>5, <2>1, <2>2 DEF TurnInv, NodeIsPlaced, NothingYet, ActivityIsOfTheTurn
<1>9. RunsInOrder'
  BY <1>4, MadeLast DEF RunsInOrder, Active
<1>10. QuestionKept'
  <2>1. ASSUME NEW r \in DOMAIN runs', runs'[r].status = "pending", runs'[r].how = "resume",
               ~Repeated(r)'
        PROVE  (\A o \in DOMAIN runs' : o < r => ~Active(o)') /\ question = runs'[r].answers
    <3>1. /\ r \in DOMAIN runs /\ runs[r].status = "pending" /\ runs[r].how = "resume"
          /\ runs[r].answers = runs'[r].answers
      BY <1>2, <1>4, <2>1 DEF Made
    <3>2. \A o \in DOMAIN runs' : o < r => o \in DOMAIN runs
      BY <1>2, <1>4, <3>1 DEF Made
    <3>3. ~Repeated(r)
      BY <1>2, <1>4, <2>1, <3>1 DEF Made, Repeated
    <3>4. (\A o \in DOMAIN runs : o < r => ~Active(o)) /\ question = runs[r].answers
      BY <3>1, <3>3 DEF TurnInv, QuestionKept
    <3> QED
      BY <1>4, <3>1, <3>2, <3>4, MadeLast
  <2> QED
    BY <1>1, <2>1 DEF QuestionKept
<1>11. Boundary'
  <2>1. ActivityId' = turn
    BY <1>1, <1>3, <1>5 DEF ActivityId
  <2>2. ASSUME local.clean
        PROVE  OfTurn(local.base, turn)'
    <3>1. Idle /\ \A i \in DOMAIN thread : i <= local.base
      BY <1>1, <2>2 DEF TurnInv, Boundary
    <3>2. \A r \in DOMAIN runs' : Active(r)' => runs'[r].turn = turn
      BY <1>4, <3>1, MadeLast DEF Idle, Made
    <3>3. \A i \in DOMAIN thread : ~(i > local.base)
      <4>1. \A i \in DOMAIN thread : i \in Nat
        BY DEF TurnInv, InnerTyped
      <4>2. local.base \in Nat
        BY <1>2 DEF LocalState
      <4> QED
        BY <3>1, <4>1, <4>2
    <3> QED
      BY <1>1, <1>3, <1>5, <3>2, <3>3 DEF OfTurn
  <2>3. activity'.tools \subseteq DOMAIN thread'
    BY <1>1 DEF TurnInv, Boundary
  <2> QED
    BY <1>1, <1>5, <2>1, <2>2, <2>3 DEF Boundary, OfTurn
<1> QED
  BY <1>6, <1>7, <1>8, <1>9, <1>10, <1>11 DEF TurnInv

\* The turn begins: the log is new, the cursor is kept, and the run is known.
LEMMA KickoffCommitsStep ==
    ASSUME TurnInv, KickoffCommits
    PROVE  TurnInv'
<1>1. /\ node = "kickoff" /\ local.pc = "commit" /\ tally' = tally
      /\ UNCHANGED <<thread, runs, question, shown>>
  BY DEF KickoffCommits, innerVars
<1>2. /\ local \in LocalState /\ state \in OuterState /\ activity \in ActivityLog
      /\ local.made = Len(runs) /\ local.made # 0 /\ Len(runs) \in Nat
      /\ runs \in Seq(InnerRun) /\ DOMAIN runs = 1..Len(runs)
  BY <1>1 DEF TurnInv, InnerTyped, OuterTyped, NodeIsPlaced
<1>3. local.made \in 1..MaxInnerRuns /\ ActivityId \in 1..MaxInnerRuns /\ ActivityId <= Len(runs)
  <2>1. local.made \in 1..MaxInnerRuns
    BY <1>2, ExperimentalAssumption DEF LocalState
  <2>2. state.act \in 0..MaxInnerRuns /\ state.act <= Len(runs) /\ (local.retry => state.act # 0)
    BY <1>1, <1>2 DEF TurnInv, NodeIsPlaced, OuterState
  <2> QED
    BY <1>2, <2>1, <2>2 DEF ActivityId
<1>4. PICK act \in 1..MaxInnerRuns : act = ActivityId
  BY <1>3
<1>5. /\ state' \in OuterState /\ state'.thread = TRUE /\ state'.run = local.made
      /\ state'.act = act /\ state'.processed = state.processed
  <2>1. PICK m \in 1..MaxInnerRuns, C \in SUBSET Nat : m = local.made /\ C = state.processed
    BY <1>2, <1>3 DEF OuterState
  <2>2. state' = [state EXCEPT !.thread = TRUE, !.run = m, !.act = act, !.processed = C,
                               !.done = FALSE]
    BY <1>4, <2>1 DEF KickoffCommits, KeptCursor
  <2>3. m \in 0..MaxInnerRuns /\ act \in 0..MaxInnerRuns
    BY <1>4, <2>1, ExperimentalAssumption
  <2> QED
    BY <1>2, <2>1, <2>2, <2>3 DEF OuterState
<1>6. /\ node' = "pump" /\ local' \in LocalState /\ local'.pc = "poll"
      /\ local'.cursor = state.processed
  BY <1>2, EnterLocal DEF KickoffCommits, KeptCursor, OuterState
<1>7. /\ activity' \in ActivityLog /\ activity'.tools = {}
      /\ activity'.base = local.base /\ activity'.clean = local.clean
  <2>1. activity' = [finished |-> FALSE, tools |-> {}, base |-> local.base,
                     clean |-> local.clean]
    BY DEF KickoffCommits, NoActivity
  <2> QED
    BY <1>2, <2>1 DEF LocalState, ActivityLog
<1>8. InnerTyped' /\ OuterTyped' /\ TallyTyped'
  <2>1. marker' \in [1..MaxInnerRuns -> {"none", "running", "final", "failed"}]
    BY DEF TurnInv, OuterTyped, KickoffCommits
  <2> QED
    BY <1>1, <1>5, <1>6, <1>7, <2>1 DEF TurnInv, InnerTyped, OuterTyped, TallyTyped
<1>9. ShownInOrder' /\ CursorInOrder'
  BY <1>1, <1>5, <1>6, ShownSame
<1>10. NodeIsPlaced' /\ NothingYet' /\ ActivityIsOfTheTurn'
  BY <1>1, <1>2, <1>3, <1>4, <1>5, <1>6, <1>7
     DEF NodeIsPlaced, NothingYet, ActivityIsOfTheTurn
<1>11. RunsInOrder' /\ QuestionKept'
  BY <1>1, <1>6 DEF TurnInv, RunsInOrder, QuestionKept, Answered, Repeated, Active, Idle
<1>12. Boundary'
  <2>1. local.clean => OfTurn(local.base, act)
    BY <1>1, <1>4 DEF TurnInv, Boundary
  <2> QED
    BY <1>1, <1>5, <1>6, <1>7, <2>1 DEF Boundary, OfTurn, Active
<1> QED
  BY <1>8, <1>9, <1>10, <1>11, <1>12 DEF TurnInv

\* What has not been looked at, and what of it is for the user.
Fresh == DOMAIN thread \ local.cursor
ToShow == {i \in Fresh : Eligible(i)}
NextToShow == CHOOSE i \in ToShow : \A j \in ToShow : i <= j

\* A snapshot passes everything that is not for the user, up to the next message that is.
LEMMA PollPasses ==
    ASSUME TurnInv, Poll
    PROVE  /\ local' \in LocalState /\ local'.pc \in {"check", "rewrite"}
           /\ thread' = thread /\ shown' = shown /\ state' = state /\ node = "pump" /\ node' = node
           /\ CursorInOrder'
<1>1. /\ node = "pump" /\ node' = "pump" /\ local.pc = "poll" /\ state' = state
      /\ thread' = thread /\ shown' = shown
  BY DEF Poll, innerVars
<1>2. /\ local \in LocalState /\ Len(thread) \in Nat /\ DOMAIN thread = 1..Len(thread)
  BY DEF TurnInv, InnerTyped, OuterTyped
<1>3. PICK p \in 0..Len(thread) :
          /\ state.processed = 1..p
          /\ \A i \in DOMAIN shown : shown[i] \in 1..p
          /\ \E n \in p..Len(thread) :
                local.cursor = 1..n /\ \A i \in (p + 1)..n : ~Eligible(i)
  BY <1>1 DEF TurnInv, CursorInOrder
<1>4. PICK n \in p..Len(thread) : local.cursor = 1..n /\ \A i \in (p + 1)..n : ~Eligible(i)
  BY <1>3
<1>5. p \in Nat /\ n \in Nat /\ p <= n /\ n <= Len(thread) /\ Fresh = (n + 1)..Len(thread)
  BY <1>2, <1>3, <1>4 DEF Fresh
<1>6. \A i \in (p + 1)..Len(thread) : i \in (p + 1)..n \/ i \in Fresh
  BY <1>5
<1>7. CASE ToShow = {}
  <2> DEFINE C == local.cursor \cup Fresh
  <2>1. C = 1..Len(thread) /\ C \in SUBSET Nat
    BY <1>4, <1>5
  <2>2. local' = [local EXCEPT !.pc = "check", !.cursor = C]
    BY <1>7 DEF Poll, ToShow, Fresh
  <2> HIDE DEF C
  <2>3. local' \in LocalState /\ local'.pc = "check" /\ local'.cursor = 1..Len(thread)
    BY <1>2, <2>1, <2>2 DEF LocalState
  <2>4. Len(thread) \in p..Len(thread) /\ \A i \in (p + 1)..Len(thread) : ~Eligible(i)
    BY <1>4, <1>5, <1>6, <1>7 DEF ToShow
  <2>5. CursorInOrder'
    BY <1>1, <1>3, <2>3, <2>4 DEF CursorInOrder, Eligible
  <2> QED
    BY <1>1, <2>3, <2>5
<1>8. CASE ToShow # {}
  <2> DEFINE C == local.cursor \cup {i \in Fresh : i <= NextToShow}
  <2>1. NextToShow \in ToShow /\ \A j \in ToShow : NextToShow <= j
    <3>1. ToShow \in SUBSET Nat
      BY <1>5 DEF ToShow
    <3>2. \E i \in ToShow : \A j \in ToShow : i <= j
      BY <1>8, <3>1, LeastOfSet
    <3> QED
      BY <3>2 DEF NextToShow
  <2>2. PICK m \in ToShow : m = NextToShow
    BY <2>1
  <2>3. m \in (n + 1)..Len(thread) /\ m \in Nat
    BY <1>5, <2>2 DEF ToShow
  <2>4. C = 1..m /\ C \in SUBSET Nat
    BY <1>4, <1>5, <2>2, <2>3
  <2>5. local' = [local EXCEPT !.pc = "rewrite", !.item = m, !.cursor = C]
    BY <1>8, <2>2 DEF Poll, ToShow, Fresh, NextToShow
  <2> HIDE DEF C
  <2>6. /\ local' \in LocalState /\ local'.pc = "rewrite" /\ local'.item = m
        /\ local'.cursor = 1..m
    BY <1>2, <2>3, <2>4, <2>5 DEF LocalState
  <2>7. m \in p..Len(thread) /\ p < m
    BY <1>5, <2>3
  <2>8. \A i \in (p + 1)..m : Eligible(i) => i = m
    <3> SUFFICES ASSUME NEW i \in (p + 1)..m, Eligible(i) PROVE i = m
      OBVIOUS
    <3>1. i \in (p + 1)..Len(thread)
      BY <1>5, <2>3
    <3>2. i \in ToShow
      BY <1>4, <1>6, <3>1 DEF ToShow
    <3>3. m <= i
      BY <2>1, <2>2, <3>2
    <3> QED
      BY <1>5, <2>3, <3>3
  <2>9. CursorInOrder'
    BY <1>1, <1>3, <2>6, <2>7, <2>8 DEF CursorInOrder, Eligible
  <2> QED
    BY <1>1, <2>6, <2>9
<1> QED
  BY <1>7, <1>8

\* pump takes a snapshot; the calls it records are behind the turn's boundary.
LEMMA PollStep ==
    ASSUME TurnInv, Poll
    PROVE  TurnInv'
<1>1. /\ node = "pump" /\ node' = "pump" /\ tally' = tally
      /\ UNCHANGED <<thread, runs, question, state, shown, marker>>
  BY DEF Poll, innerVars
<1>2. local' \in LocalState /\ local'.pc \in {"check", "rewrite"} /\ CursorInOrder'
  BY PollPasses
<1>3. /\ activity' \in ActivityLog /\ activity'.tools = Recorded
      /\ activity'.base = activity.base /\ activity'.clean = activity.clean
      /\ Recorded \subseteq DOMAIN thread
  <2>1. DOMAIN thread \subseteq Nat /\ activity \in ActivityLog
    BY DEF TurnInv, InnerTyped, OuterTyped
  <2>2. Recorded \subseteq DOMAIN thread
    BY DEF Recorded, TurnInv, Boundary
  <2>3. PICK T \in SUBSET Nat : T = Recorded
    BY <2>1, <2>2
  <2>4. activity' = [activity EXCEPT !.tools = T]
    BY <2>3 DEF Poll
  <2> QED
    BY <2>1, <2>2, <2>3, <2>4 DEF ActivityLog
<1>4. InnerTyped' /\ OuterTyped' /\ TallyTyped'
  BY <1>1, <1>2, <1>3 DEF TurnInv, InnerTyped, OuterTyped, TallyTyped
<1>5. NodeIsPlaced' /\ NothingYet'
  BY <1>1, <1>2 DEF TurnInv, NodeIsPlaced, NothingYet
<1>6. ShownInOrder'
  BY <1>1 DEF TurnInv, ShownInOrder, Eligible
<1>7. RunsInOrder' /\ QuestionKept'
  BY <1>1, <1>2 DEF TurnInv, RunsInOrder, QuestionKept, Answered, Repeated, Active, Idle
<1>8. activity.clean => OfTurn(activity.base, state.act)
  BY <1>1 DEF TurnInv, Boundary
<1>9. Boundary'
  BY <1>1, <1>3, <1>8 DEF Boundary, OfTurn, Active
<1>10. ActivityIsOfTheTurn'
  <2>1. ASSUME activity.clean, NEW i \in Recorded
        PROVE  thread[i].turn = state.act
    BY <1>8, <2>1 DEF TurnInv, ActivityIsOfTheTurn, Recorded, OfTurn
  <2> QED
    BY <1>1, <1>3, <2>1 DEF ActivityIsOfTheTurn
<1> QED
  BY <1>2, <1>4, <1>5, <1>6, <1>7, <1>9, <1>10 DEF TurnInv

\* The message is shown after all others, and everything up to it is done with.
LEMMA SurfaceStep ==
    ASSUME TurnInv, Surface
    PROVE  TurnInv'
<1>1. /\ node = "pump" /\ local.pc = "rewrite" /\ tally' = tally
      /\ UNCHANGED <<thread, runs, question, marker, activity>>
  BY DEF Surface, innerVars
<1>2. /\ local \in LocalState /\ state \in OuterState /\ shown \in Seq(Nat)
      /\ Len(thread) \in Nat
  BY DEF TurnInv, InnerTyped, OuterTyped
<1>3. /\ state' \in OuterState /\ state'.thread = state.thread /\ state'.run = state.run
      /\ state'.act = state.act /\ state'.processed = local.cursor
  <2>1. PICK C \in SUBSET Nat : C = local.cursor
    BY <1>2 DEF LocalState
  <2>2. state' = [state EXCEPT !.processed = C, !.ask = 0, !.done = FALSE]
    BY <2>1 DEF Surface
  <2> QED
    BY <1>2, <2>1, <2>2 DEF OuterState
<1>4. /\ node' = "pump" /\ local' \in LocalState /\ local'.pc = "poll"
      /\ local'.cursor = local.cursor
  BY <1>2, EnterLocal DEF Surface, LocalState
<1>5. PICK p \in 0..Len(thread) :
          /\ state.processed = 1..p
          /\ \A i \in DOMAIN shown : shown[i] \in 1..p
          /\ \E n \in p..Len(thread) :
                /\ local.cursor = 1..n /\ p < n /\ local.item = n
                /\ \A i \in (p + 1)..n : Eligible(i) => local.item = i
  BY <1>1 DEF TurnInv, CursorInOrder
<1>6. PICK n \in p..Len(thread) :
          /\ local.cursor = 1..n /\ p < n /\ local.item = n
          /\ \A i \in (p + 1)..n : Eligible(i) => i = n
  BY <1>5
<1>7. p \in Nat /\ n \in Nat /\ n \in 0..Len(thread) /\ n <= Len(thread)
  BY <1>2, <1>5, <1>6
<1>8. /\ shown' \in Seq(Nat) /\ Len(shown') = Len(shown) + 1 /\ Len(shown) \in Nat
      /\ DOMAIN shown = 1..Len(shown) /\ DOMAIN shown' = 1..(Len(shown) + 1)
      /\ \A i \in DOMAIN shown : shown'[i] = shown[i]
      /\ shown'[Len(shown) + 1] = n
  <2>1. shown' = Append(shown, n)
    BY <1>6 DEF Surface
  <2>2. /\ shown' \in Seq(Nat) /\ Len(shown') = Len(shown) + 1
        /\ \A i \in 1..Len(shown) : shown'[i] = shown[i]
        /\ shown'[Len(shown) + 1] = n
    BY <1>2, <1>7, <2>1, AppendProperties
  <2>3. Len(shown) \in Nat /\ DOMAIN shown = 1..Len(shown)
    BY <1>2
  <2>4. DOMAIN shown' = 1..Len(shown')
    BY <2>2
  <2> QED
    BY <2>2, <2>3, <2>4
<1>9. CursorInOrder'
  <2>1. \A i \in DOMAIN shown' : shown'[i] \in 1..n
    <3> SUFFICES ASSUME NEW i \in DOMAIN shown' PROVE shown'[i] \in 1..n
      OBVIOUS
    <3>1. CASE i \in DOMAIN shown
      <4>1. shown'[i] \in 1..p
        BY <1>5, <1>8, <3>1
      <4> QED
        BY <1>6, <1>7, <4>1
    <3>2. CASE i = Len(shown) + 1
      BY <1>6, <1>7, <1>8, <3>2
    <3> QED
      BY <1>8, <3>1, <3>2
  <2>2. n \in n..Len(thread) /\ \A i \in (n + 1)..n : FALSE
    BY <1>2, <1>7
  <2> QED
    BY <1>1, <1>3, <1>4, <1>6, <1>7, <2>1, <2>2 DEF CursorInOrder
<1>10. ShownInOrder'
  <2>1. ASSUME NEW i \in DOMAIN shown', NEW j \in DOMAIN shown', i < j
        PROVE  shown'[i] < shown'[j]
    <3>1. i \in DOMAIN shown
      BY <1>8, <2>1
    <3>2. CASE j \in DOMAIN shown
      BY <1>8, <2>1, <3>1, <3>2 DEF TurnInv, ShownInOrder
    <3>3. CASE j = Len(shown) + 1
      <4>1. shown'[i] \in 1..p
        BY <1>5, <1>8, <3>1
      <4> QED
        BY <1>6, <1>7, <1>8, <3>3, <4>1
    <3> QED
      BY <1>8, <3>2, <3>3
  <2>2. ASSUME NEW i \in 1..n, Eligible(i)
        PROVE  Contains(shown', i)
    <3>1. CASE i \in 1..p
      <4>1. PICK k \in 1..Len(shown) : shown[k] = i
        BY <1>5, <2>2, <3>1 DEF TurnInv, ShownInOrder, Contains
      <4>2. k \in 1..Len(shown') /\ shown'[k] = i
        BY <1>8, <4>1
      <4> QED
        BY <4>2 DEF Contains
    <3>2. CASE i \in (p + 1)..n
      <4>1. Len(shown) + 1 \in 1..Len(shown') /\ shown'[Len(shown) + 1] = i
        BY <1>6, <1>8, <2>2, <3>2
      <4> QED
        BY <4>1 DEF Contains
    <3> QED
      BY <1>7, <3>1, <3>2
  <2> QED
    BY <1>1, <1>3, <1>6, <2>1, <2>2 DEF ShownInOrder, Eligible
<1>11. InnerTyped' /\ OuterTyped' /\ TallyTyped'
  BY <1>1, <1>3, <1>4, <1>8 DEF TurnInv, InnerTyped, OuterTyped, TallyTyped
<1>12. NodeIsPlaced' /\ NothingYet' /\ ActivityIsOfTheTurn'
  BY <1>1, <1>3, <1>4 DEF TurnInv, NodeIsPlaced, NothingYet, ActivityIsOfTheTurn
<1>13. RunsInOrder' /\ QuestionKept' /\ Boundary'
  BY <1>1, <1>3, <1>4 DEF TurnInv, RunsInOrder, QuestionKept, Answered, Repeated, Boundary,
         OfTurn, Active, Idle
<1> QED
  BY <1>9, <1>10, <1>11, <1>12, <1>13 DEF TurnInv

\* runs.get says whether the run goes on.
LEMMA CheckStep ==
    ASSUME TurnInv, Check
    PROVE  TurnInv'
<1>1. /\ node = "pump" /\ node' = "pump" /\ local.pc = "check" /\ tally' = tally
      /\ UNCHANGED <<thread, runs, question, state, shown, marker, activity>>
  BY DEF Check, innerVars
<1>2. PICK pc \in {"poll", "settle"} :
          local' = [local EXCEPT !.pc = pc] /\ (pc = "settle" => ~Active(state.run))
  BY DEF Check, AfterCheck
<1>3. local' \in LocalState /\ local'.pc = pc /\ local'.cursor = local.cursor
  BY <1>2 DEF TurnInv, OuterTyped, LocalState
<1>4. InnerTyped' /\ OuterTyped' /\ TallyTyped'
  BY <1>1, <1>3 DEF TurnInv, InnerTyped, OuterTyped, TallyTyped
<1>5. ShownInOrder' /\ CursorInOrder'
  BY <1>1, <1>3, ShownSame
<1>6. NodeIsPlaced' /\ NothingYet' /\ ActivityIsOfTheTurn'
  BY <1>1, <1>3 DEF TurnInv, NodeIsPlaced, NothingYet, ActivityIsOfTheTurn
<1>7. pc = "settle" => Idle
  BY <1>1, <1>2 DEF TurnInv, NodeIsPlaced, RunsInOrder
<1>8. RunsInOrder' /\ QuestionKept' /\ Boundary'
  BY <1>1, <1>3, <1>7 DEF TurnInv, RunsInOrder, QuestionKept, Answered, Repeated, Boundary,
         OfTurn, Active, Idle
<1> QED
  BY <1>4, <1>5, <1>6, <1>8 DEF TurnInv

\* The question is put to the user, while nothing runs.
LEMMA SettleQuestionStep ==
    ASSUME TurnInv, SettleQuestion
    PROVE  TurnInv'
<1>1. /\ node = "pump" /\ local.pc = "settle" /\ tally' = tally
      /\ UNCHANGED <<thread, runs, question, shown, marker, activity>>
  BY DEF SettleQuestion, innerVars
<1>2. local \in LocalState /\ state \in OuterState /\ question \in Nat
  BY DEF TurnInv, InnerTyped, OuterTyped
<1>3. /\ state' \in OuterState /\ state'.thread = state.thread /\ state'.run = state.run
      /\ state'.act = state.act /\ state'.processed = local.cursor /\ state'.ask = question
  <2>1. PICK C \in SUBSET Nat : C = local.cursor
    BY <1>2 DEF LocalState
  <2>2. state' = [state EXCEPT !.processed = C, !.ask = question, !.done = FALSE]
    BY <2>1 DEF SettleQuestion
  <2> QED
    BY <1>2, <2>1, <2>2 DEF OuterState
<1>4. node' = "asked" /\ local' \in LocalState
  <2>1. {} \in SUBSET Nat
    OBVIOUS
  <2> QED
    BY <2>1, EnterLocal DEF SettleQuestion
<1>5. InnerTyped' /\ OuterTyped' /\ TallyTyped'
  BY <1>1, <1>3, <1>4 DEF TurnInv, InnerTyped, OuterTyped, TallyTyped
<1>6. ShownInOrder' /\ CursorInOrder'
  BY <1>1, <1>3, <1>4, ShownPassed
<1>7. NodeIsPlaced' /\ NothingYet' /\ ActivityIsOfTheTurn'
  BY <1>1, <1>3, <1>4 DEF TurnInv, NodeIsPlaced, NothingYet, ActivityIsOfTheTurn
<1>8. RunsInOrder' /\ QuestionKept' /\ Boundary'
  BY <1>1, <1>3, <1>4 DEF TurnInv, RunsInOrder, QuestionKept, Answered, Repeated, Boundary,
         OfTurn, Active, Idle
<1> QED
  BY <1>5, <1>6, <1>7, <1>8 DEF TurnInv

\* What the calls behind the boundary are, while the turn's run is polled or settled.
LEMMA RecordedOfTurn ==
    ASSUME TurnInv, node = "pump"
    PROVE  /\ Recorded \subseteq DOMAIN thread
           /\ activity.clean => \A i \in Recorded : thread[i].turn = state.act
<1>1. activity.clean => OfTurn(activity.base, state.act)
  BY DEF TurnInv, Boundary
<1>2. Recorded \subseteq DOMAIN thread
  BY DEF Recorded, TurnInv, Boundary
<1>3. ASSUME activity.clean, NEW i \in Recorded
      PROVE  thread[i].turn = state.act
  BY <1>1, <1>3 DEF TurnInv, ActivityIsOfTheTurn, Recorded, OfTurn
<1> QED
  BY <1>2, <1>3

\* The turn is over: its log is completed.
LEMMA SettleTurnStep ==
    ASSUME TurnInv, SettleTurn
    PROVE  TurnInv'
<1>1. /\ node = "pump" /\ node' = "pump" /\ local.pc = "settle" /\ tally' = tally
      /\ UNCHANGED <<thread, runs, question, state, shown, marker>>
  BY DEF SettleTurn, innerVars
<1>2. local' \in LocalState /\ local'.pc = "forget" /\ local'.cursor = local.cursor
  BY DEF SettleTurn, TurnInv, OuterTyped, LocalState
<1>3. /\ activity' \in ActivityLog /\ activity'.tools = Recorded
      /\ activity'.base = activity.base /\ activity'.clean = activity.clean
  <2>1. DOMAIN thread \subseteq Nat /\ activity \in ActivityLog
    BY DEF TurnInv, InnerTyped, OuterTyped
  <2>2. PICK T \in SUBSET Nat : T = Recorded
    BY <1>1, <2>1, RecordedOfTurn
  <2>3. activity' = [activity EXCEPT !.tools = T, !.finished = TRUE]
    BY <2>2 DEF SettleTurn
  <2> QED
    BY <2>1, <2>2, <2>3 DEF ActivityLog
<1>4. InnerTyped' /\ OuterTyped' /\ TallyTyped'
  BY <1>1, <1>2, <1>3 DEF TurnInv, InnerTyped, OuterTyped, TallyTyped
<1>5. ShownInOrder' /\ CursorInOrder'
  BY <1>1, <1>2, ShownSame
<1>6. NodeIsPlaced' /\ NothingYet'
  BY <1>1, <1>2 DEF TurnInv, NodeIsPlaced, NothingYet
<1>7. RunsInOrder' /\ QuestionKept'
  BY <1>1, <1>2 DEF TurnInv, RunsInOrder, QuestionKept, Answered, Repeated, Active, Idle
<1>8. Boundary' /\ ActivityIsOfTheTurn'
  <2>1. activity.clean => OfTurn(activity.base, state.act)
    BY <1>1 DEF TurnInv, Boundary
  <2> QED
    BY <1>1, <1>3, <2>1, RecordedOfTurn DEF Boundary, ActivityIsOfTheTurn, OfTurn, Active
<1> QED
  BY <1>4, <1>5, <1>6, <1>7, <1>8 DEF TurnInv

\* What is left of the log in the cache is a part of it; a boundary that is lost is one
\* that counts no more.
LEMMA ActivityKept ==
    ASSUME TurnInv, NEW log \in BOOLEAN, NEW boundary \in BOOLEAN,
           activity' = KeptActivity(log, boundary)
    PROVE  /\ activity' \in ActivityLog /\ activity'.tools \subseteq activity.tools
           /\ activity'.clean => activity.clean /\ activity'.base = activity.base
<1>1. activity \in ActivityLog
  BY DEF TurnInv, OuterTyped
<1>2. PICK f \in BOOLEAN, T \in SUBSET Nat, n \in Nat, c \in BOOLEAN :
          /\ activity' = [finished |-> f, tools |-> T, base |-> n, clean |-> c]
          /\ T \subseteq activity.tools
          /\ c => activity.clean /\ n = activity.base
  <2>1. /\ activity.tools \in SUBSET Nat /\ activity.base \in Nat
        /\ activity.finished \in BOOLEAN /\ activity.clean \in BOOLEAN
    BY <1>1 DEF ActivityLog
  <2> DEFINE f == log /\ activity.finished
             T == IF log THEN activity.tools ELSE {}
             n == IF boundary THEN activity.base ELSE 0
             c == activity.clean /\ (boundary \/ activity.base = 0)
  <2>2. activity' = [finished |-> f, tools |-> T, base |-> n, clean |-> c]
    BY DEF KeptActivity
  <2>3. f \in BOOLEAN /\ T \in SUBSET Nat /\ n \in Nat /\ c \in BOOLEAN
    BY <2>1
  <2>4. T \subseteq activity.tools /\ (c => activity.clean /\ n = activity.base)
    OBVIOUS
  <2> HIDE DEF f, T, n, c
  <2> QED
    BY <2>2, <2>3, <2>4
<1> QED
  BY <1>2 DEF ActivityLog

\* What holds of the log holds of what is left of it.
LEMMA LessLog ==
    ASSUME TurnInv, UNCHANGED <<thread, runs, state, shown>>, node' = node,
           node # "kickoff",
           activity'.tools \subseteq activity.tools,
           activity'.clean => activity.clean /\ activity'.base = activity.base
    PROVE  Boundary' /\ ActivityIsOfTheTurn' /\ NothingYet'
BY DEF TurnInv, Boundary, ActivityIsOfTheTurn, NothingYet, OfTurn, Active

\* The log is deleted, or a part of it.
LEMMA ForgetActivityStep ==
    ASSUME TurnInv, ForgetActivity
    PROVE  TurnInv'
<1>1. /\ node = "pump" /\ node' = "pump" /\ local.pc = "forget"
      /\ OuterFault \/ tally' = tally
      /\ UNCHANGED <<thread, runs, question, state, shown, marker>>
  BY DEF ForgetActivity, innerVars
<1>2. local' \in LocalState /\ local'.pc = "done" /\ local'.cursor = local.cursor
  BY DEF ForgetActivity, TurnInv, OuterTyped, LocalState
<1>3. /\ activity' \in ActivityLog /\ activity'.tools \subseteq activity.tools
      /\ activity'.clean => activity.clean /\ activity'.base = activity.base
  BY ActivityKept DEF ForgetActivity
<1>4. TallyTyped'
  BY <1>1, FaultCounted
<1>5. InnerTyped' /\ OuterTyped'
  BY <1>1, <1>2, <1>3 DEF TurnInv, InnerTyped, OuterTyped
<1>6. ShownInOrder' /\ CursorInOrder'
  BY <1>1, <1>2, ShownSame
<1>7. NodeIsPlaced'
  BY <1>1, <1>2 DEF TurnInv, NodeIsPlaced
<1>8. Boundary' /\ ActivityIsOfTheTurn' /\ NothingYet'
  BY <1>1, <1>3, LessLog
<1>9. RunsInOrder' /\ QuestionKept'
  BY <1>1, <1>2 DEF TurnInv, RunsInOrder, QuestionKept, Answered, Repeated, Active, Idle
<1> QED
  BY <1>4, <1>5, <1>6, <1>7, <1>8, <1>9 DEF TurnInv

\* The marker and the cursor are committed, and the outer run ends.
LEMMA TurnCommitsStep ==
    ASSUME TurnInv, TurnCommits
    PROVE  TurnInv'
<1>1. /\ node = "pump" /\ local.pc = "done" /\ tally' = tally
      /\ UNCHANGED <<thread, runs, question, shown, activity>>
  BY DEF TurnCommits, innerVars
<1>2. local \in LocalState /\ state \in OuterState /\ question \in Nat
  BY DEF TurnInv, InnerTyped, OuterTyped
<1>3. /\ state' \in OuterState /\ state'.thread = state.thread /\ state'.run = state.run
      /\ state'.act = state.act /\ state'.processed = local.cursor
  <2>1. PICK C \in SUBSET Nat : C = local.cursor
    BY <1>2 DEF LocalState
  <2>2. state' = [state EXCEPT !.processed = C, !.ask = 0, !.done = TRUE]
    BY <2>1 DEF TurnCommits
  <2> QED
    BY <1>2, <2>1, <2>2 DEF OuterState
<1>4. node' = "idle" /\ local' \in LocalState
  <2>1. {} \in SUBSET Nat
    OBVIOUS
  <2> QED
    BY <2>1, EnterLocal DEF TurnCommits
<1>5. marker' \in [1..MaxInnerRuns -> {"none", "running", "final", "failed"}]
  BY DEF TurnInv, OuterTyped, TurnCommits
<1>6. InnerTyped' /\ OuterTyped' /\ TallyTyped'
  BY <1>1, <1>3, <1>4, <1>5 DEF TurnInv, InnerTyped, OuterTyped, TallyTyped
<1>7. ShownInOrder' /\ CursorInOrder'
  BY <1>1, <1>3, <1>4, ShownPassed
<1>8. NodeIsPlaced' /\ NothingYet' /\ ActivityIsOfTheTurn'
  BY <1>1, <1>3, <1>4 DEF TurnInv, NodeIsPlaced, NothingYet, ActivityIsOfTheTurn
<1>9. RunsInOrder' /\ QuestionKept' /\ Boundary'
  BY <1>1, <1>4 DEF TurnInv, RunsInOrder, QuestionKept, Answered, Repeated, Boundary, Active,
                     Idle
<1> QED
  BY <1>6, <1>7, <1>8, <1>9 DEF TurnInv

\* The user answers.
LEMMA AnswerStep ==
    ASSUME TurnInv, Answer
    PROVE  TurnInv'
<1>1. /\ node = "asked" /\ tally' = tally
      /\ UNCHANGED <<thread, runs, question, state, shown, marker, activity>>
  BY DEF Answer, innerVars
<1>2. node' = "interrupt" /\ local' \in LocalState /\ local'.pc = "run"
  <2>1. {} \in SUBSET Nat
    OBVIOUS
  <2> QED
    BY <2>1, EnterLocal DEF Answer
<1>3. InnerTyped' /\ OuterTyped' /\ TallyTyped'
  BY <1>1, <1>2 DEF TurnInv, InnerTyped, OuterTyped, TallyTyped
<1>4. ShownInOrder' /\ CursorInOrder'
  BY <1>1, <1>2, ShownSame
<1>5. NodeIsPlaced' /\ NothingYet' /\ ActivityIsOfTheTurn'
  BY <1>1, <1>2 DEF TurnInv, NodeIsPlaced, NothingYet, ActivityIsOfTheTurn
<1>6. RunsInOrder' /\ QuestionKept' /\ Boundary'
  BY <1>1, <1>2 DEF TurnInv, RunsInOrder, QuestionKept, Answered, Repeated, Boundary,
         OfTurn, Active, Idle
<1> QED
  BY <1>3, <1>4, <1>5, <1>6 DEF TurnInv

\* The answer is sent as a run of the turn, and nothing is queued before it.
LEMMA InterruptRunStep ==
    ASSUME TurnInv, InterruptRun
    PROVE  TurnInv'
<1>1. /\ node' = "interrupt" /\ node = "interrupt" /\ local.pc = "run" /\ tally' = tally
      /\ UNCHANGED <<thread, question, state, shown, marker, activity>>
  BY DEF InterruptRun
<1>2. /\ Len(runs) \in Nat /\ local \in LocalState /\ state \in OuterState
      /\ runs \in Seq(InnerRun) /\ DOMAIN runs = 1..Len(runs)
  BY DEF TurnInv, InnerTyped, OuterTyped
<1>3. ~Answered(state.ask) => Idle /\ state.ask = question
  BY <1>1 DEF TurnInv, QuestionKept
<1>4. Made("resume", state.ask, state.act)
  <2>1. state.act \in 1..MaxInnerRuns
    <3>1. state.act \in 0..MaxInnerRuns /\ state.act >= 1
      BY <1>1, <1>2 DEF TurnInv, NodeIsPlaced, OuterState
    <3> QED
      BY <3>1, ExperimentalAssumption
  <2>2. state.ask \in Nat
    BY <1>2 DEF OuterState
  <2> QED
    BY <1>2, <2>1, <2>2, RunMade DEF InterruptRun
<1>5. /\ local' \in LocalState /\ local'.pc = "commit" /\ local'.made = Len(runs) + 1
  <2>1. PICK m \in 0..MaxInnerRuns : m = Len(runs) + 1
    BY <1>4 DEF Made
  <2>2. local' = [local EXCEPT !.pc = "commit", !.made = m]
    BY <2>1 DEF InterruptRun
  <2> QED
    BY <1>2, <2>1, <2>2 DEF LocalState
<1>6. InnerTyped' /\ OuterTyped' /\ TallyTyped'
  BY <1>1, <1>4, <1>5 DEF TurnInv, InnerTyped, OuterTyped, TallyTyped, Made
<1>7. ShownInOrder' /\ CursorInOrder'
  BY <1>1, ShownSame
<1>8. NodeIsPlaced' /\ NothingYet' /\ ActivityIsOfTheTurn'
  <2>1. state.act <= Len(runs) + 1
    BY <1>2 DEF TurnInv, NodeIsPlaced, OuterState
  <2>2. local'.made = Len(runs') /\ local'.made # 0 /\ Len(runs') = Len(runs) + 1
    BY <1>2, <1>4, <1>5 DEF Made
  <2>3. state.run \in DOMAIN runs'
    BY <1>1, <1>4, MadeLast DEF TurnInv, NodeIsPlaced
  <2> QED
    BY <1>1, <1>5, <2>1, <2>2, <2>3 DEF TurnInv, NodeIsPlaced, NothingYet, ActivityIsOfTheTurn
<1>9. RunsInOrder'
  BY <1>4, MadeLast DEF RunsInOrder, Active
<1>10. \A r \in DOMAIN runs : Active(r)' => Active(r)
  BY <1>4, MadeLast
<1>11. \A r \in DOMAIN runs' : r \in DOMAIN runs \/ r = Len(runs) + 1
  BY <1>2, <1>4 DEF Made
<1>12. QuestionKept'
  <2>1. ASSUME NEW r \in DOMAIN runs', runs'[r].status = "pending", runs'[r].how = "resume",
               ~Repeated(r)'
        PROVE  (\A o \in DOMAIN runs' : o < r => ~Active(o)') /\ question = runs'[r].answers
    <3>1. \A o \in DOMAIN runs' : o < r => o \in DOMAIN runs
      BY <1>2, <1>4, <2>1 DEF Made
    <3>2. CASE r = Len(runs) + 1
      <4>1. ~Answered(state.ask)
        BY <1>2, <1>4, <2>1, <3>2 DEF Made, Repeated, Answered
      <4>2. Idle /\ state.ask = question
        BY <1>3, <4>1
      <4> QED
        BY <1>4, <1>10, <3>1, <3>2, <4>2 DEF Made, Idle
    <3>3. CASE r \in DOMAIN runs
      <4>1. /\ runs[r].status = "pending" /\ runs[r].how = "resume" /\ ~Repeated(r)
            /\ runs[r].answers = runs'[r].answers
        BY <1>2, <1>4, <2>1, <3>3 DEF Made, Repeated
      <4>2. (\A o \in DOMAIN runs : o < r => ~Active(o)) /\ question = runs[r].answers
        BY <3>3, <4>1 DEF TurnInv, QuestionKept
      <4> QED
        BY <1>10, <3>1, <4>1, <4>2
    <3> QED
      BY <1>11, <3>2, <3>3
  <2>2. Answered(state.ask)'
    <3>1. /\ Len(runs) + 1 \in DOMAIN runs' /\ runs'[Len(runs) + 1].how = "resume"
          /\ runs'[Len(runs) + 1].answers = state.ask
      BY <1>2, <1>4 DEF Made
    <3> QED
      BY <1>1, <3>1 DEF Answered
  <2> QED
    BY <1>1, <1>5, <2>1, <2>2 DEF QuestionKept
<1>13. Boundary'
  <2>1. activity.clean => OfTurn(activity.base, state.act)
    BY <1>1 DEF TurnInv, Boundary
  <2>2. activity.clean => \A r \in DOMAIN runs' : Active(r)' => runs'[r].turn = state.act
    BY <1>4, <1>10, <1>11, <2>1 DEF Made, OfTurn
  <2>3. activity.tools \subseteq DOMAIN thread
    BY DEF TurnInv, Boundary
  <2> QED
    BY <1>1, <2>1, <2>2, <2>3 DEF Boundary, OfTurn
<1> QED
  BY <1>6, <1>7, <1>8, <1>9, <1>12, <1>13 DEF TurnInv

\* The outer run goes on with the run that carries the answer.
LEMMA InterruptCommitsStep ==
    ASSUME TurnInv, InterruptCommits
    PROVE  TurnInv'
<1>1. /\ node = "interrupt" /\ local.pc = "commit" /\ tally' = tally
      /\ UNCHANGED <<thread, runs, question, shown, marker, activity>>
  BY DEF InterruptCommits, innerVars
<1>2. /\ local \in LocalState /\ state \in OuterState
      /\ local.made = Len(runs) /\ local.made # 0
      /\ Len(runs) \in Nat /\ DOMAIN runs = 1..Len(runs)
  BY <1>1 DEF TurnInv, InnerTyped, OuterTyped, NodeIsPlaced
<1>3. /\ state' \in OuterState /\ state'.thread = state.thread /\ state'.run = local.made
      /\ state'.act = state.act /\ state'.processed = state.processed
  <2>1. PICK m \in 0..MaxInnerRuns : m = local.made
    BY <1>2 DEF LocalState
  <2>2. state' = [state EXCEPT !.run = m, !.ask = 0, !.done = FALSE]
    BY <2>1 DEF InterruptCommits
  <2> QED
    BY <1>2, <2>1, <2>2 DEF OuterState
<1>4. /\ node' = "pump" /\ local' \in LocalState /\ local'.pc = "poll"
      /\ local'.cursor = state.processed
  BY <1>2, EnterLocal DEF InterruptCommits, OuterState
<1>5. InnerTyped' /\ OuterTyped' /\ TallyTyped'
  BY <1>1, <1>3, <1>4 DEF TurnInv, InnerTyped, OuterTyped, TallyTyped
<1>6. ShownInOrder' /\ CursorInOrder'
  BY <1>1, <1>3, <1>4, ShownSame
<1>7. NodeIsPlaced' /\ NothingYet' /\ ActivityIsOfTheTurn'
  <2>1. state.act \in Nat /\ state.act >= 1 /\ state.act <= Len(runs) /\ state.thread
    BY <1>1, <1>2 DEF TurnInv, NodeIsPlaced, OuterState
  <2> QED
    BY <1>1, <1>2, <1>3, <1>4, <2>1 DEF TurnInv, NodeIsPlaced, NothingYet, ActivityIsOfTheTurn
<1>8. RunsInOrder' /\ QuestionKept' /\ Boundary'
  BY <1>1, <1>3, <1>4 DEF TurnInv, RunsInOrder, QuestionKept, Answered, Repeated, Boundary,
         OfTurn, Active, Idle
<1> QED
  BY <1>5, <1>6, <1>7, <1>8 DEF TurnInv

-----------------------------------------------------------------------------
(* Stops and restarts *)

\* The user stops pump: its run is marked as interrupted, or the cancellation is lost.
LEMMA StopPumpStep ==
    ASSUME TurnInv, StopPump
    PROVE  TurnInv'
<1>1. /\ node = "pump" /\ UNCHANGED <<thread, question, state, shown, marker>>
  BY DEF StopPump
<1>2. node' = "idle" /\ local' \in LocalState
  <2>1. {} \in SUBSET Nat
    OBVIOUS
  <2> QED
    BY <2>1, EnterLocal DEF StopPump
<1>3. /\ activity' \in ActivityLog /\ activity'.tools = activity.tools
      /\ activity'.clean = activity.clean
  BY DEF StopPump, TurnInv, OuterTyped, ActivityLog
<1>4. /\ runs' \in Seq(InnerRun) /\ Len(runs') = Len(runs) /\ DOMAIN runs' = DOMAIN runs
      /\ \A r \in DOMAIN runs : /\ runs'[r].status \in {runs[r].status, "interrupted"}
                                /\ runs'[r].how = runs[r].how
                                /\ runs'[r].answers = runs[r].answers
  <2>1. runs \in Seq(InnerRun) /\ state.run \in DOMAIN runs
    BY <1>1 DEF TurnInv, InnerTyped, NodeIsPlaced
  <2>2. CASE runs' = runs
    BY <2>1, <2>2
  <2>3. CASE runs' = [runs EXCEPT ![state.run].status = "interrupted"]
    <3>1. runs' \in Seq(InnerRun) /\ Marked(state.run, "interrupted")
      BY <2>1, <2>3, RunMarked
    <3> QED
      BY <3>1 DEF Marked
  <2> QED
    BY <2>2, <2>3 DEF StopPump
<1>5. TallyTyped'
  <2>1. tally.stops + 1 \in Nat /\ tally.faults + 1 \in Nat
    BY DEF TurnInv, TallyTyped
  <2>2. PICK k \in Nat, m \in Nat : k = tally.stops + 1 /\ m = tally.faults + 1
    BY <2>1
  <2>3. tally' \in {[tally EXCEPT !.stops = k], [tally EXCEPT !.stops = k, !.faults = m]}
    BY <2>2 DEF StopPump
  <2> QED
    BY <2>3 DEF TurnInv, TallyTyped
<1>6. InnerTyped' /\ OuterTyped'
  BY <1>1, <1>2, <1>3, <1>4 DEF TurnInv, InnerTyped, OuterTyped
<1>7. ShownInOrder' /\ CursorInOrder'
  BY <1>1, <1>2, ShownSame
<1>8. NodeIsPlaced' /\ NothingYet' /\ ActivityIsOfTheTurn'
  BY <1>1, <1>2, <1>3, <1>4 DEF TurnInv, NodeIsPlaced, NothingYet, ActivityIsOfTheTurn
<1>9. \A r \in DOMAIN runs : Active(r)' => Active(r)
  BY <1>4 DEF Active, ActiveRunStatuses
<1>10. RunsInOrder' /\ QuestionKept' /\ Boundary'
  <2>1. \A r \in DOMAIN runs : /\ runs'[r].status = "running" => runs[r].status = "running"
                              /\ runs'[r].status = "pending" => runs[r].status = "pending"
    BY <1>4
  <2>2. RunsInOrder'
    BY <1>2, <1>4, <1>9, <2>1 DEF TurnInv, RunsInOrder
  <2>3. QuestionKept'
    <3>1. \A r \in DOMAIN runs : Repeated(r)' <=> Repeated(r)
      BY <1>4 DEF Repeated
    <3> QED
      BY <1>1, <1>2, <1>4, <1>9, <2>1, <3>1 DEF TurnInv, QuestionKept
  <2>4. Boundary'
    BY <1>1, <1>2, <1>3 DEF TurnInv, Boundary
  <2> QED
    BY <2>2, <2>3, <2>4
<1> QED
  BY <1>5, <1>6, <1>7, <1>8, <1>10 DEF TurnInv

\* The user stops another node: a run that it made goes on.
LEMMA StopNodeStep ==
    ASSUME TurnInv, StopNode
    PROVE  TurnInv'
<1>1. UNCHANGED <<thread, runs, question, state, shown, marker, activity>>
  BY DEF StopNode, innerVars
<1>2. node' = "idle" /\ local' \in LocalState
  <2>1. {} \in SUBSET Nat
    OBVIOUS
  <2> QED
    BY <2>1, EnterLocal DEF StopNode
<1>3. TallyTyped'
  <2>1. PICK k \in Nat : k = tally.stops + 1
    BY DEF TurnInv, TallyTyped
  <2>2. tally' = [tally EXCEPT !.stops = k]
    BY <2>1 DEF StopNode
  <2> QED
    BY <2>2 DEF TurnInv, TallyTyped
<1>4. InnerTyped' /\ OuterTyped'
  BY <1>1, <1>2 DEF TurnInv, InnerTyped, OuterTyped
<1>5. ShownInOrder' /\ CursorInOrder'
  BY <1>1, <1>2, ShownSame
<1>6. NodeIsPlaced' /\ NothingYet' /\ ActivityIsOfTheTurn'
  BY <1>1, <1>2 DEF TurnInv, NodeIsPlaced, NothingYet, ActivityIsOfTheTurn
<1>7. RunsInOrder' /\ QuestionKept' /\ Boundary'
  BY <1>1, <1>2 DEF TurnInv, RunsInOrder, QuestionKept, Answered, Repeated, Boundary, Active
<1> QED
  BY <1>3, <1>4, <1>5, <1>6, <1>7 DEF TurnInv

\* The process restarts: the node under way begins again at the last commit.
LEMMA RestartStep ==
    ASSUME TurnInv, Restart
    PROVE  TurnInv'
<1>1. node' = node /\ UNCHANGED <<thread, runs, question, state, shown, marker, activity>>
  BY DEF Restart, Enter, innerVars
<1>2. ASSUME node = "pump", Enter("pump", "poll", state.processed)
      PROVE  /\ local' \in LocalState /\ ShownInOrder' /\ CursorInOrder' /\ NodeIsPlaced'
             /\ RunsInOrder' /\ QuestionKept' /\ Boundary'
  <2>1. local' \in LocalState /\ local'.pc = "poll" /\ local'.cursor = state.processed
    <3>1. state.processed \in SUBSET Nat
      BY DEF TurnInv, OuterTyped, OuterState
    <3> QED
      BY <1>2, <3>1, EnterLocal
  <2>2. ShownInOrder' /\ CursorInOrder'
    BY <1>1, <2>1, ShownSame
  <2>3. NodeIsPlaced' /\ RunsInOrder' /\ QuestionKept' /\ Boundary'
    BY <1>1, <1>2, <2>1 DEF TurnInv, NodeIsPlaced, RunsInOrder, QuestionKept, Answered,
         Repeated, Boundary, OfTurn, Active, Idle
  <2> QED
    BY <2>1, <2>2, <2>3
<1>3. ASSUME node = "interrupt", Enter("interrupt", "run", {})
      PROVE  /\ local' \in LocalState /\ ShownInOrder' /\ CursorInOrder' /\ NodeIsPlaced'
             /\ RunsInOrder' /\ QuestionKept' /\ Boundary'
  <2>1. local' \in LocalState /\ local'.pc = "run"
    <3>1. {} \in SUBSET Nat
      OBVIOUS
    <3> QED
      BY <1>3, <3>1, EnterLocal
  <2>2. ShownInOrder' /\ CursorInOrder'
    BY <1>1, <1>3, ShownSame
  <2>3. ~Answered(state.ask) => Idle /\ state.ask = question
    BY <1>3 DEF TurnInv, NodeIsPlaced, QuestionKept
  <2>4. NodeIsPlaced' /\ RunsInOrder' /\ QuestionKept' /\ Boundary'
    BY <1>1, <1>3, <2>1, <2>3 DEF TurnInv, NodeIsPlaced, RunsInOrder, QuestionKept, Answered,
         Repeated, Boundary, OfTurn, Active, Idle
  <2> QED
    BY <2>1, <2>2, <2>4
<1>4. ASSUME node = "kickoff",
             local' = [Nowhere EXCEPT !.pc = "thread", !.retry = local.retry]
      PROVE  /\ local' \in LocalState /\ ShownInOrder' /\ CursorInOrder' /\ NodeIsPlaced'
             /\ RunsInOrder' /\ QuestionKept' /\ Boundary'
  <2>1. local' \in LocalState /\ local'.pc = "thread" /\ local'.retry = local.retry
    <3>1. PICK retry \in BOOLEAN : retry = local.retry
      BY DEF TurnInv, OuterTyped, LocalState
    <3>2. local' = [pc |-> "thread", base |-> 0, clean |-> TRUE, made |-> 0, retry |-> retry,
                    cursor |-> {}, item |-> 0]
      BY <1>4, <3>1 DEF Nowhere
    <3>3. 0 \in 0..MaxInnerRuns
      BY ExperimentalAssumption
    <3> QED
      BY <3>1, <3>2, <3>3 DEF LocalState
  <2>2. ShownInOrder' /\ CursorInOrder'
    BY <1>1, <1>4, ShownSame
  <2>3. NodeIsPlaced' /\ RunsInOrder' /\ QuestionKept' /\ Boundary'
    BY <1>1, <1>4, <2>1 DEF TurnInv, NodeIsPlaced, RunsInOrder, QuestionKept, Answered,
         Repeated, Boundary, Active
  <2> QED
    BY <2>1, <2>2, <2>3
<1>5. /\ local' \in LocalState /\ ShownInOrder' /\ CursorInOrder' /\ NodeIsPlaced'
      /\ RunsInOrder' /\ QuestionKept' /\ Boundary'
  BY <1>2, <1>3, <1>4 DEF Restart
<1>6. InnerTyped' /\ OuterTyped' /\ NothingYet' /\ ActivityIsOfTheTurn'
  BY <1>1, <1>5 DEF TurnInv, InnerTyped, OuterTyped, NothingYet, ActivityIsOfTheTurn
<1>7. TallyTyped'
  BY FaultCounted DEF Restart
<1> QED
  BY <1>5, <1>6, <1>7 DEF TurnInv

\* The log or its boundary leaves the cache.
LEMMA ActivityExpiresStep ==
    ASSUME TurnInv, ActivityExpires
    PROVE  TurnInv'
<1>1. /\ node # "kickoff"
      /\ UNCHANGED <<thread, runs, question, node, local, state, shown, marker>>
  BY DEF ActivityExpires, innerVars
<1>2. /\ activity' \in ActivityLog /\ activity'.tools \subseteq activity.tools
      /\ activity'.clean => activity.clean /\ activity'.base = activity.base
  BY ActivityKept DEF ActivityExpires
<1>3. InnerTyped' /\ OuterTyped' /\ NodeIsPlaced'
  BY <1>1, <1>2 DEF TurnInv, InnerTyped, OuterTyped, NodeIsPlaced
<1>4. TallyTyped'
  BY FaultCounted DEF ActivityExpires
<1>5. ShownInOrder' /\ CursorInOrder'
  BY <1>1 DEF TurnInv, ShownInOrder, CursorInOrder, Eligible
<1>6. Boundary' /\ ActivityIsOfTheTurn' /\ NothingYet'
  BY <1>1, <1>2, LessLog
<1>7. RunsInOrder' /\ QuestionKept'
  BY <1>1 DEF TurnInv, RunsInOrder, QuestionKept, Answered, Repeated, Active, Idle
<1> QED
  BY <1>3, <1>4, <1>5, <1>6, <1>7 DEF TurnInv

-----------------------------------------------------------------------------
(* The theorems *)

\* Before the first message.
LEMMA TurnInitHolds == ExperimentalInit => TurnInv
<1> SUFFICES ASSUME ExperimentalInit PROVE TurnInv
  OBVIOUS
<1>1. MaxInnerRuns \in Nat /\ 0 \in 0..MaxInnerRuns
  BY ExperimentalAssumption
<1>2. /\ thread = <<>> /\ runs = <<>> /\ question = 0 /\ node = "idle" /\ shown = <<>>
      /\ state.thread = FALSE /\ state.processed = {} /\ state.act = 0 /\ activity.tools = {}
  BY DEF ExperimentalInit, NoActivity
<1>3. /\ <<>> \in Seq(InnerMessage) /\ <<>> \in Seq(InnerRun) /\ <<>> \in Seq(Nat)
      /\ DOMAIN <<>> = {} /\ Len(<<>>) = 0
  OBVIOUS
<1>4. local \in LocalState
  <2>1. local = [pc |-> "none", base |-> 0, clean |-> TRUE, made |-> 0, retry |-> FALSE,
                 cursor |-> {}, item |-> 0]
    BY DEF ExperimentalInit, Nowhere
  <2> QED
    BY <1>1, <2>1 DEF LocalState
<1>5. state \in OuterState
  BY <1>1 DEF ExperimentalInit, OuterState
<1>6. activity \in ActivityLog
  BY DEF ExperimentalInit, NoActivity, ActivityLog
<1>7. OuterTyped
  BY <1>2, <1>3, <1>4, <1>5, <1>6 DEF ExperimentalInit, OuterTyped
<1>8. InnerTyped /\ TallyTyped
  BY <1>2, <1>3 DEF ExperimentalInit, InnerTyped, TallyTyped
<1>9. NodeIsPlaced /\ NothingYet /\ ShownInOrder /\ ActivityIsOfTheTurn
  BY <1>2, <1>3 DEF NodeIsPlaced, NothingYet, ShownInOrder, ActivityIsOfTheTurn
<1>10. CursorInOrder
  <2>1. 0 \in 0..Len(thread) /\ 1..0 = {}
    BY <1>2, <1>3
  <2> QED
    BY <1>2, <1>3, <2>1 DEF CursorInOrder
<1>11. RunsInOrder /\ QuestionKept /\ Boundary
  BY <1>2, <1>3 DEF RunsInOrder, QuestionKept, Boundary
<1> QED
  BY <1>7, <1>8, <1>9, <1>10, <1>11 DEF TurnInv

\* A step that changes nothing.
LEMMA StutterStep ==
    ASSUME TurnInv, UNCHANGED experimentalVars
    PROVE  TurnInv'
<1>1. /\ UNCHANGED <<thread, runs, question, node, local, state, shown, marker, activity>>
      /\ tally' = tally
  BY DEF experimentalVars, innerVars, outerVars
<1>2. InnerTyped' /\ OuterTyped' /\ TallyTyped'
  BY <1>1 DEF TurnInv, InnerTyped, OuterTyped, TallyTyped
<1>3. NodeIsPlaced' /\ NothingYet' /\ ShownInOrder' /\ ActivityIsOfTheTurn'
  BY <1>1 DEF TurnInv, NodeIsPlaced, NothingYet, ShownInOrder, ActivityIsOfTheTurn, Eligible
<1>4. CursorInOrder'
  BY <1>1 DEF TurnInv, CursorInOrder, Eligible
<1>5. RunsInOrder' /\ QuestionKept' /\ Boundary'
  BY <1>1 DEF TurnInv, RunsInOrder, QuestionKept, Answered, Repeated, Boundary, OfTurn,
                 ActivityId, Active, Idle
<1> QED
  BY <1>2, <1>3, <1>4, <1>5 DEF TurnInv

\* Every step keeps the invariant.
LEMMA TurnNextHolds ==
    ASSUME TurnInv, [ExperimentalNext]_experimentalVars
    PROVE  TurnInv'
<1>1. CASE OuterStep
  BY <1>1, KickoffReusesStep, KickoffCreatesStep, KickoffRunStep, KickoffCommitsStep, PollStep,
     SurfaceStep, CheckStep, SettleQuestionStep, SettleTurnStep, ForgetActivityStep,
     TurnCommitsStep, InterruptRunStep, InterruptCommitsStep DEF OuterStep
<1>2. CASE InnerStep \/ \E r \in DOMAIN runs : RunFails(r)
  BY <1>2, RunStartsStep, RunWritesStep, RunEndsStep DEF InnerStep
<1>3. CASE \/ Answer \/ StopPump \/ StopNode \/ Restart \/ ActivityExpires
           \/ \E retry \in BOOLEAN : Submit(retry)
  BY <1>3, AnswerStep, StopPumpStep, StopNodeStep, RestartStep, ActivityExpiresStep, SubmitStep
<1> QED
  BY <1>1, <1>2, <1>3, StutterStep DEF ExperimentalNext

\* The inductive invariant holds in every reachable state.
THEOREM TurnInvariant == ExperimentalSpec => []TurnInv
BY TurnInitHolds, TurnNextHolds, PTL DEF ExperimentalSpec

\* Every variable keeps its type, and pump has a run of a turn.
THEOREM TurnTypes == ExperimentalSpec => []ExperimentalTypeOK
BY TurnInvariant, TurnInvTyped, PTL

\* Inner messages are shown in their order, each once, and none for the user is skipped,
\* whatever is stopped, retried or restarted (processed_inner_ids).
THEOREM MessagesShownInOrder == ExperimentalSpec => []ShownInOrder
BY TurnInvariant, PTL DEF TurnInv

\* A first resume that is about to start finds the question it answers: nothing is
\* queued before it that could ask another one.
LEMMA AnswerIsAwaited == TurnInv => AnswersMatch
BY DEF TurnInv, QuestionKept, AnswersMatch

\* An answer reaches the question it was given to, through all repeats of the nodes; a
\* second resume of a repeated interrupt_node is the one that may meet another
\* (graph.py:1057-1071).
THEOREM AnswersReachQuestions == ExperimentalSpec => []AnswersMatch
BY TurnInvariant, AnswerIsAwaited, PTL

\* The log of a turn lists no tool call of another while its boundary is the one kickoff
\* read with nothing under way (_record_tools_from_snapshot).
THEOREM LogIsOfTheTurn == ExperimentalSpec => []ActivityIsOfTheTurn
BY TurnInvariant, PTL DEF TurnInv
=============================================================================
