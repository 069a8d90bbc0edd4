------------------------- MODULE ConversationProofs -------------------------
(***************************************************************************)
(* Theorems about DeepResearch, for any queries, pages, limits and number  *)
(* of researches; then about the conversations of all three graphs, which  *)
(* MCConversations puts next to each other.                                *)
(***************************************************************************)
EXTENDS MCConversations, AgentTurnProofs, ExperimentalTurnProofs

-----------------------------------------------------------------------------
(* The inductive invariant *)

\* The ids of the sources begin at zero and have no gaps, and those of a search under
\* way go on where they end, within max_sources.
Numbered ==
    \E n, m \in 0..MaxSources :
        n <= m /\ DOMAIN sources = 0..n-1 /\ DOMAIN found = n..m-1

\* No page has two ids.
PagesOnce ==
    /\ \A i, j \in DOMAIN sources : sources[i].page = sources[j].page => i = j
    /\ \A i, j \in DOMAIN found : found[i].page = found[j].page => i = j
    /\ \A i \in DOMAIN sources, j \in DOMAIN found : sources[i].page # found[j].page

\* The variables but for the sources; found belongs to the search under way.
RestTyped ==
    /\ stage \in Stage
    /\ stage # "searching" => found = NoSources
    /\ plan \subseteq Query /\ asked \subseteq Query /\ searched \subseteq Query
    /\ effort \in [iteration : Nat, stop : BOOLEAN, limit : Int]
    /\ review \in [draft : Draft, verdict : {"none", "accept", "revise"}, revisions : Nat]
    /\ report \in Draft
    /\ call \in [number : 0..MaxResearches, thread : 0..MaxResearches]
    /\ call.thread <= call.number

ResearchInv ==
    /\ RestTyped
    /\ sources \in [DOMAIN sources -> Source] /\ found \in [DOMAIN found -> Source]
    /\ Numbered
    /\ PagesOnce

-----------------------------------------------------------------------------
(* Sources *)

\* No sources at all.
LEMMA NoSourcesType ==
    /\ DOMAIN NoSources = {} /\ NoSources \in [DOMAIN NoSources -> Source]
    /\ \A n \in Int : n..n-1 = {}
BY DEF NoSources

\* The next id is the first that is free, and under max_sources as long as the search
\* is not full.
LEMMA NextIdIs ==
    ASSUME NEW n \in 0..MaxSources, NEW m \in 0..MaxSources, n <= m,
           DOMAIN sources = 0..n-1, DOMAIN found = n..m-1
    PROVE  NextId = m /\ (~Full => m < MaxSources)
<1>1. MaxSources \in Nat
  BY ResearchAssumption
<1>2. Cardinality(0..n-1) = n
  BY <1>1, FS_Interval
<1>3. Cardinality(n..m-1) = m - n
  BY <1>1, FS_Interval
<1> QED
  BY <1>1, <1>2, <1>3 DEF NextId, Full

\* The types of sources the runs check.
LEMMA ResearchInvTyped == ResearchInv => ResearchTypeOK
<1> SUFFICES ASSUME ResearchInv PROVE ResearchTypeOK
  OBVIOUS
<1>1. PICK n \in 0..MaxSources : DOMAIN sources = 0..n-1
  BY DEF ResearchInv, Numbered
<1>2. sources \in [0..n-1 -> Source]
  BY <1>1 DEF ResearchInv
<1>3. sources \in UNION {[0..k-1 -> Source] : k \in 0..MaxSources}
  BY <1>2
<1>4. \A i \in DOMAIN found : found[i] \in Source
  BY DEF ResearchInv
<1> QED
  BY <1>3, <1>4 DEF ResearchInv, RestTyped, ResearchTypeOK

\* A step that leaves the sources alone.
LEMMA SourcesStay ==
    ASSUME ResearchInv, RestTyped', sources' = sources, found' = found
    PROVE  ResearchInv'
BY DEF ResearchInv, Numbered, PagesOnce

\* A step that gives up what the search under way had found.
LEMMA FoundDropped ==
    ASSUME ResearchInv, RestTyped', sources' = sources, found' = NoSources
    PROVE  ResearchInv'
<1>1. PICK n \in 0..MaxSources : DOMAIN sources = 0..n-1
  BY DEF ResearchInv, Numbered
<1>2. DOMAIN found' = n..n-1
  BY <1>1, NoSourcesType
<1>3. Numbered'
  BY <1>1, <1>2 DEF Numbered
<1> QED
  BY <1>3, NoSourcesType DEF ResearchInv, PagesOnce

-----------------------------------------------------------------------------
(* The steps *)

\* The tool is called: on a new thread there are no sources.
LEMMA ResearchStarts ==
    ASSUME ResearchInv, NEW limit \in IterationLimit, NEW continued \in BOOLEAN,
           Research(limit, continued)
    PROVE  ResearchInv'
<1>1. RestTyped'
  <2>1. limit \in Int /\ MaxResearches \in Nat
    BY ResearchAssumption
  <2>2. call' \in [number : 0..MaxResearches, thread : 0..MaxResearches]
        /\ call'.thread <= call'.number
    BY <2>1 DEF ResearchInv, RestTyped, Research
  <2>3. effort' \in [iteration : Nat, stop : BOOLEAN, limit : Int]
    <3>1. (continued /\ effort.stop) \in BOOLEAN
      OBVIOUS
    <3> QED
      BY <2>1, <3>1 DEF ResearchInv, RestTyped, Research
  <2>4. NoDraft \in Draft
    BY <2>1 DEF NoDraft, Draft
  <2>5. /\ review' \in [draft : Draft, verdict : {"none", "accept", "revise"},
                        revisions : Nat]
        /\ report' \in Draft
    BY <2>4 DEF ResearchInv, RestTyped, Research, NoReview
  <2>6. stage' \in Stage /\ found' = NoSources
        /\ plan' \subseteq Query /\ asked' \subseteq Query /\ searched' \subseteq Query
    BY DEF ResearchInv, RestTyped, Research, Stage
  <2> QED
    BY <2>2, <2>3, <2>5, <2>6 DEF RestTyped
<1>2. CASE continued
  BY <1>1, <1>2, SourcesStay DEF Research
<1>3. CASE ~continued
  <2>1. sources' = NoSources /\ found' = NoSources
    BY <1>3 DEF ResearchInv, RestTyped, Research
  <2>2. Numbered'
    <3>1. 0 \in 0..MaxSources
      BY ResearchAssumption
    <3>2. DOMAIN sources' = 0..0-1 /\ DOMAIN found' = 0..0-1
      BY <2>1, NoSourcesType
    <3> QED
      BY <3>1, <3>2 DEF Numbered
  <2> QED
    BY <1>1, <2>1, <2>2, NoSourcesType DEF ResearchInv, PagesOnce
<1> QED
  BY <1>2, <1>3

\* The search takes a page it has not seen, under the next id.
LEMMA SearchTakesStep ==
    ASSUME ResearchInv, NEW p \in Page, SearchTakes(p)
    PROVE  ResearchInv'
<1> DEFINE r == [page |-> p, summary |-> ""]
<1>1. RestTyped'
  BY DEF ResearchInv, RestTyped, SearchTakes
<1>2. PICK n \in 0..MaxSources, m \in 0..MaxSources :
          n <= m /\ DOMAIN sources = 0..n-1 /\ DOMAIN found = n..m-1
  BY DEF ResearchInv, Numbered
<1>3. NextId = m /\ m < MaxSources
  BY <1>2, NextIdIs DEF SearchTakes
<1>4. n \in Nat /\ m \in Nat /\ MaxSources \in Nat
  BY <1>2, ResearchAssumption
<1>5. DOMAIN found \cup {m} = n..(m+1)-1 /\ m \notin DOMAIN found
  BY <1>2, <1>4
<1>6. /\ DOMAIN found' = n..(m+1)-1 /\ found'[m] = r
      /\ \A i \in DOMAIN found : found'[i] = found[i]
  BY <1>3, <1>5 DEF SearchTakes
<1>7. sources' = sources
  BY DEF SearchTakes
<1>8. Numbered'
  <2>1. m+1 \in 0..MaxSources /\ n <= m+1
    BY <1>2, <1>3, <1>4
  <2>2. DOMAIN sources' = 0..n-1
    BY <1>2, <1>7
  <2> QED
    BY <1>2, <1>6, <2>1, <2>2 DEF Numbered
<1>9. found' \in [DOMAIN found' -> Source]
  <2>1. r \in Source
    BY DEF Source, Summary
  <2>2. \A i \in DOMAIN found' : found'[i] \in Source
    BY <1>5, <1>6, <2>1 DEF ResearchInv
  <2> QED
    BY <2>2, <1>3 DEF SearchTakes
<1>10. PagesOnce'
  <2>1. /\ \A i \in DOMAIN sources : sources[i].page # p
        /\ \A i \in DOMAIN found : found[i].page # p
    BY DEF SearchTakes, IsNew, Known
  <2>2. \A i \in DOMAIN found' :
            found'[i].page = IF i = m THEN p ELSE found[i].page
    <3>1. r.page = p
      OBVIOUS
    <3>2. \A i \in DOMAIN found' : i = m \/ i \in DOMAIN found
      BY <1>5, <1>6
    <3> HIDE DEF r
    <3> QED
      BY <1>5, <1>6, <3>1, <3>2
  <2>3. \A i \in DOMAIN found' : i = m \/ i \in DOMAIN found
    BY <1>5, <1>6
  <2> QED
    BY <1>7, <2>1, <2>2, <2>3 DEF ResearchInv, PagesOnce
<1> QED
  BY <1>1, <1>7, <1>8, <1>9, <1>10 DEF ResearchInv

\* What the search found becomes the end of the sources.
LEMMA SearchEndsStep ==
    ASSUME ResearchInv, SearchEnds
    PROVE  ResearchInv' /\ \A i \in DOMAIN sources :
                               i \in DOMAIN sources' /\ sources'[i] = sources[i]
<1>1. RestTyped'
  BY DEF ResearchInv, RestTyped, SearchEnds, Stage
<1>2. PICK n \in 0..MaxSources, m \in 0..MaxSources :
          n <= m /\ DOMAIN sources = 0..n-1 /\ DOMAIN found = n..m-1
  BY DEF ResearchInv, Numbered
<1>3. n \in Nat /\ m \in Nat /\ MaxSources \in Nat
  BY <1>2, ResearchAssumption
<1>4. /\ DOMAIN sources \cup DOMAIN found = 0..m-1
      /\ \A i \in DOMAIN sources : i \notin DOMAIN found
  BY <1>2, <1>3
<1>5. /\ DOMAIN sources' = 0..m-1
      /\ \A i \in DOMAIN sources : sources'[i] = sources[i]
      /\ \A i \in DOMAIN found : sources'[i] = found[i]
  BY <1>4 DEF SearchEnds, Merged
<1>6. DOMAIN found' = m..m-1 /\ found' = NoSources
  BY <1>3, NoSourcesType DEF SearchEnds
<1>7. Numbered'
  BY <1>2, <1>5, <1>6, <1>3 DEF Numbered
<1>8. sources' \in [DOMAIN sources' -> Source]
  <2>1. \A i \in DOMAIN sources' : sources'[i] \in Source
    BY <1>4, <1>5 DEF ResearchInv
  <2> QED
    BY <2>1 DEF SearchEnds, Merged
<1>9. PagesOnce'
  BY <1>4, <1>5, <1>6, NoSourcesType DEF ResearchInv, PagesOnce
<1> QED
  BY <1>1, <1>4, <1>5, <1>6, <1>7, <1>8, <1>9, NoSourcesType DEF ResearchInv

\* Reading changes the summaries of the sources only.
LEMMA ReadStep ==
    ASSUME ResearchInv, NEW summary \in [Targets -> Summary], Read(summary)
    PROVE  ResearchInv' /\ \A i \in DOMAIN sources :
                               i \in DOMAIN sources' /\ sources'[i].page = sources[i].page
<1>1. RestTyped'
  BY DEF ResearchInv, RestTyped, Read, Stage
<1>2. DOMAIN sources' = DOMAIN sources /\ found' = found
  BY DEF Read
<1>3. ASSUME NEW i \in DOMAIN sources
      PROVE  sources'[i] \in Source /\ sources'[i].page = sources[i].page
  <2>1. sources[i] \in Source
    BY DEF ResearchInv
  <2>2. CASE i \in Targets /\ summary[i] # ""
    <3>1. sources'[i] = [sources[i] EXCEPT !.summary = summary[i]]
      BY <2>2 DEF Read
    <3>2. summary[i] \in Summary
      BY <2>2
    <3> QED
      BY <2>1, <3>1, <3>2 DEF Source
  <2>3. CASE ~(i \in Targets /\ summary[i] # "")
    <3>1. sources'[i] = sources[i]
      BY <2>3 DEF Read
    <3> QED
      BY <2>1, <3>1
  <2> QED
    BY <2>2, <2>3
<1>4. sources' \in [DOMAIN sources' -> Source]
  <2>1. \A i \in DOMAIN sources' : sources'[i] \in Source
    BY <1>2, <1>3
  <2> QED
    BY <2>1, <1>2 DEF Read
<1>5. Numbered' /\ PagesOnce'
  BY <1>2, <1>3 DEF ResearchInv, Numbered, PagesOnce
<1> QED
  BY <1>1, <1>2, <1>3, <1>4, <1>5 DEF ResearchInv

\* Every other node leaves the sources alone.
OtherStep ==
    \/ Planner \/ SearchSkips \/ SearchFails \/ ReflectStops
    \/ \E gaps, stop \in BOOLEAN, more \in SUBSET Query : Reflect(gaps, more, stop)
    \/ ComposeFallsBack
    \/ \E silent \in BOOLEAN : Compose(silent)
    \/ Accepts \/ Revises
    \/ \E uploaded \in BOOLEAN : Finalize(uploaded)

\* The steps that neither search nor read a page keep the types and the sources.
LEMMA OtherTypes ==
    ASSUME ResearchInv, OtherStep
    PROVE  RestTyped' /\ sources' = sources /\ found' = found
<1>1. RestTyped
  BY DEF ResearchInv
<1>2. /\ "search" \in Stage /\ "read" \in Stage /\ "compose" \in Stage
      /\ "critique" \in Stage /\ "finalize" \in Stage /\ "idle" \in Stage
  BY DEF Stage
<1>3. CASE Planner \/ SearchSkips \/ SearchFails
  BY <1>1, <1>2, <1>3 DEF RestTyped, Planner, SearchSkips, SearchFails
<1>4. CASE ReflectStops
  <2>1. AfterReflect(effort') \in {"compose", "search"}
    BY DEF AfterReflect
  <2>2. PICK k \in Nat : effort' = [effort EXCEPT !.iteration = k, !.stop = TRUE]
    <3>1. effort.iteration \in Nat
      BY <1>1 DEF RestTyped
    <3> DEFINE k == effort.iteration + 1
    <3>2. k \in Nat /\ effort' = [effort EXCEPT !.iteration = k, !.stop = TRUE]
      BY <1>4, <3>1 DEF ReflectStops, NextIteration
    <3> HIDE DEF k
    <3> QED
      BY <3>2
  <2>3. effort' \in [iteration : Nat, stop : BOOLEAN, limit : Int]
    BY <1>1, <2>2 DEF RestTyped
  <2> QED
    BY <1>1, <1>2, <1>4, <2>1, <2>3 DEF RestTyped, ReflectStops
<1>5. ASSUME NEW gaps \in BOOLEAN, NEW stop \in BOOLEAN, NEW more \in SUBSET Query,
             Reflect(gaps, more, stop)
      PROVE  RestTyped' /\ sources' = sources /\ found' = found
  <2>1. AfterReflect(effort') \in {"compose", "search"}
    BY DEF AfterReflect
  <2>2. (stop \/ ~gaps) \in BOOLEAN
    OBVIOUS
  <2>3. effort' \in [iteration : Nat, stop : BOOLEAN, limit : Int]
    <3>1. effort.iteration \in Nat
      BY <1>1 DEF RestTyped
    <3> DEFINE k == effort.iteration + 1
               b == stop \/ ~gaps
    <3>2. /\ k \in Nat /\ b \in BOOLEAN
          /\ effort' = [effort EXCEPT !.iteration = k, !.stop = b]
      BY <1>5, <2>2, <3>1 DEF Reflect, NextIteration
    <3> HIDE DEF k, b
    <3> QED
      BY <1>1, <3>2 DEF RestTyped
  <2>4. plan' \subseteq Query
    BY <1>1, <1>5 DEF RestTyped, Reflect
  <2> QED
    BY <1>1, <1>2, <1>5, <2>1, <2>3, <2>4 DEF RestTyped, Reflect
<1>6. Fallback \in Draft /\ Drafted \in Draft /\ review.draft \in Draft
  BY <1>1 DEF RestTyped, Fallback, Drafted, Draft
<1>7. CASE ComposeFallsBack
  BY <1>1, <1>2, <1>6, <1>7 DEF RestTyped, ComposeFallsBack
<1>8. ASSUME NEW silent \in BOOLEAN, Compose(silent)
      PROVE  RestTyped' /\ sources' = sources /\ found' = found
  <2>1. PICK draft \in Draft : review' = [review EXCEPT !.draft = draft, !.verdict = "none"]
    BY <1>6, <1>8 DEF Compose
  <2> QED
    BY <1>1, <1>2, <1>8, <2>1 DEF RestTyped, Compose
<1>9. CASE Accepts \/ Revises
  <2>1. AfterCritique(review') \in {"compose", "finalize"}
    BY DEF AfterCritique
  <2>2. review.revisions \in Nat
    BY <1>1 DEF RestTyped
  <2>3. PICK v \in {"accept", "revise"}, k \in Nat :
            review' = [review EXCEPT !.verdict = v, !.revisions = k]
    <3>1. CASE Accepts
      <4>1. review' = [review EXCEPT !.verdict = "accept", !.revisions = review.revisions]
        BY <1>1, <3>1 DEF RestTyped, Accepts
      <4> QED
        BY <2>2, <4>1
    <3>2. CASE Revises
      <4> DEFINE k == review.revisions + 1
      <4>1. k \in Nat /\ review' = [review EXCEPT !.verdict = "revise", !.revisions = k]
        BY <2>2, <3>2 DEF Revises, NewCount
      <4> HIDE DEF k
      <4> QED
        BY <4>1
    <3> QED
      BY <1>9, <3>1, <3>2
  <2>4. review' \in [draft : Draft, verdict : {"none", "accept", "revise"},
                     revisions : Nat]
    BY <1>1, <2>3 DEF RestTyped
  <2> QED
    BY <1>1, <1>2, <1>9, <2>1, <2>4 DEF RestTyped, Accepts, Revises
<1>10. ASSUME NEW uploaded \in BOOLEAN, Finalize(uploaded)
       PROVE  RestTyped' /\ sources' = sources /\ found' = found
  BY <1>1, <1>2, <1>6, <1>10 DEF RestTyped, Finalize
<1> QED
  BY <1>3, <1>4, <1>5, <1>7, <1>8, <1>9, <1>10 DEF OtherStep

\* A search begins with nothing found.
LEMMA SearchBeginsStep ==
    ASSUME ResearchInv, SearchBegins
    PROVE  ResearchInv'
<1>1. RestTyped'
  BY DEF ResearchInv, RestTyped, SearchBegins, Stage, Unsearched
<1> QED
  BY <1>1, FoundDropped DEF SearchBegins

\* A run that ends before its end gives up what its search had found.
LEMMA AbandonedStep ==
    ASSUME ResearchInv, Abandoned
    PROVE  ResearchInv'
<1>1. RestTyped'
  BY DEF ResearchInv, RestTyped, Abandoned, Stage
<1> QED
  BY <1>1, FoundDropped DEF Abandoned

-----------------------------------------------------------------------------
(* The theorems *)

\* Before the first call of the tool.
LEMMA ResearchInitHolds == ResearchInit => ResearchInv
<1> SUFFICES ASSUME ResearchInit PROVE ResearchInv
  OBVIOUS
<1>1. MaxSources \in Nat /\ MaxResearches \in Nat
  BY ResearchAssumption
<1>2. NoDraft \in Draft
  BY <1>1 DEF NoDraft, Draft
<1>3. RestTyped
  BY <1>1, <1>2 DEF ResearchInit, RestTyped, Stage, NoReview
<1>4. sources = NoSources /\ found = NoSources
  BY DEF ResearchInit
<1>5. 0 \in 0..MaxSources /\ DOMAIN sources = 0..0-1 /\ DOMAIN found = 0..0-1
  BY <1>1, <1>4, NoSourcesType
<1>6. Numbered
  BY <1>5 DEF Numbered
<1> QED
  BY <1>3, <1>4, <1>6, NoSourcesType DEF ResearchInv, PagesOnce

\* Every step keeps the invariant.
LEMMA ResearchNextHolds ==
    ASSUME ResearchInv, [ResearchNext]_researchVars
    PROVE  ResearchInv'
<1>1. CASE UNCHANGED researchVars
  <2>1. RestTyped'
    BY <1>1 DEF ResearchInv, RestTyped, researchVars
  <2> QED
    BY <1>1, <2>1, SourcesStay DEF researchVars
<1>2. CASE OtherStep
  BY <1>2, OtherTypes, SourcesStay
<1> QED
  BY <1>1, <1>2, ResearchStarts, AbandonedStep, SearchBeginsStep, SearchEndsStep,
     SearchTakesStep, ReadStep DEF ResearchNext, ResearchStep, OtherStep

\* The inductive invariant holds in every reachable state.
THEOREM ResearchInvariant == ResearchSpec => []ResearchInv
BY ResearchInitHolds, ResearchNextHolds, PTL DEF ResearchSpec

\* The sources of a thread never exceed max_sources and their ids have no gaps, over
\* any number of rounds and researches (search.py, search_node).
THEOREM ResearchTypes == ResearchSpec => []ResearchTypeOK
BY ResearchInvariant, ResearchInvTyped, PTL

\* What one step does to the sources of its thread.
CitationsStay ==
    call'.thread = call.thread =>
        /\ \A i \in DOMAIN sources :
              i \in DOMAIN sources' /\ sources'[i].page = sources[i].page
        /\ \A i \in DOMAIN sources', j \in DOMAIN sources' \ DOMAIN sources :
              sources'[i].page = sources'[j].page => i = j

\* A call on a new thread is a call on another thread; no other step takes a source
\* away or changes its page.
LEMMA CitationsStep ==
    ASSUME ResearchInv, ResearchInv', [ResearchNext]_researchVars
    PROVE  CitationsStay
<1> SUFFICES ASSUME call'.thread = call.thread
             PROVE  \A i \in DOMAIN sources :
                        i \in DOMAIN sources' /\ sources'[i].page = sources[i].page
  BY DEF CitationsStay, ResearchInv, PagesOnce
<1>1. CASE sources' = sources
  BY <1>1
<1>2. ASSUME NEW limit \in IterationLimit, NEW continued \in BOOLEAN,
             Research(limit, continued)
      PROVE  sources' = sources
  <2>1. call.thread <= call.number /\ call.thread \in Int /\ call.number \in Int
    BY DEF ResearchInv, RestTyped
  <2> QED
    BY <1>2, <2>1 DEF Research
<1>3. CASE Abandoned \/ SearchBegins \/ (\E p \in Page : SearchTakes(p))
           \/ UNCHANGED researchVars
  BY <1>1, <1>3 DEF Abandoned, SearchBegins, SearchTakes, researchVars
<1>4. CASE OtherStep
  BY <1>1, <1>4, OtherTypes
<1> QED
  BY <1>1, <1>2, <1>3, <1>4, SearchEndsStep, ReadStep
     DEF ResearchNext, ResearchStep, OtherStep

\* A number a draft cites goes on naming its page, and no page gets a second number.
THEOREM CitationsAreStable == ResearchSpec => CitationsKeepTheirPage
<1>1. ResearchInv /\ ResearchInv' /\ [ResearchNext]_researchVars
      => [CitationsStay]_researchVars
  BY CitationsStep
<1>2. ResearchSpec => [][CitationsStay]_researchVars
  BY <1>1, ResearchInvariant, PTL DEF ResearchSpec
<1> QED
  BY <1>2 DEF CitationsKeepTheirPage, CitationsStay

-----------------------------------------------------------------------------
(* What bounds a research *)

RoundsLeft == IF effort.iteration < effort.limit THEN effort.limit - effort.iteration ELSE 0
RoundsAtFirst == IF 0 < effort.limit THEN effort.limit ELSE 0
RevisionsLeft ==
    IF review.revisions <= MaxRevisions THEN MaxRevisions + 1 - review.revisions ELSE 0
RoomLeft == MaxSources - NextId

\* The steps of compose, critique and finalize: one pair for every revision, one for
\* the last draft.
WritingLeft == 2 * RevisionsLeft + 4
ReadingLeft == WritingLeft + RoomLeft + 4 * RoundsLeft

\* How many steps the research under way has at most before it: an empty round has
\* four, and a search as many more as there is room for sources.
StepsLeft ==
    CASE stage = "idle" -> 0
      [] stage = "finalize" -> 1
      [] stage = "critique" -> 2 * RevisionsLeft + 2
      [] stage = "compose" -> 2 * RevisionsLeft + 3
      [] stage = "reflect" -> ReadingLeft
      [] stage = "read" -> ReadingLeft + 1
      [] stage = "searching" -> ReadingLeft + 2
      [] stage = "search" -> ReadingLeft + 3
      [] stage = "planner" -> WritingLeft + RoomLeft + 4 * RoundsAtFirst + 4

LeftTyped ==
    /\ RoundsLeft \in Nat /\ RoundsAtFirst \in Nat
    /\ RevisionsLeft \in 0..MaxRevisions+1 /\ RoomLeft \in 0..MaxSources
    /\ MaxRevisions \in Nat /\ MaxSources \in Nat

\* What is left is counted in naturals.
LEMMA LeftIsNat == ResearchInv => LeftTyped
<1> SUFFICES ASSUME ResearchInv PROVE LeftTyped
  OBVIOUS
<1>1. MaxRevisions \in Nat /\ MaxSources \in Nat
  BY ResearchAssumption
<1>2. effort.iteration \in Nat /\ effort.limit \in Int /\ review.revisions \in Nat
  BY DEF ResearchInv, RestTyped
<1>3. RoundsLeft \in Nat /\ RoundsAtFirst \in Nat /\ RevisionsLeft \in 0..MaxRevisions+1
  BY <1>1, <1>2 DEF RoundsLeft, RoundsAtFirst, RevisionsLeft
<1>4. RoomLeft \in 0..MaxSources
  <2>1. PICK n \in 0..MaxSources, m \in 0..MaxSources :
            n <= m /\ DOMAIN sources = 0..n-1 /\ DOMAIN found = n..m-1
    BY DEF ResearchInv, Numbered
  <2>2. NextId = m
    BY <2>1, NextIdIs
  <2> QED
    BY <1>1, <2>2 DEF RoomLeft
<1> QED
  BY <1>1, <1>3, <1>4 DEF LeftTyped

\* The same of the state a step leads to.
LEMMA LeftIsNatNext == ResearchInv' => LeftTyped'
BY LeftIsNat, PTL

\* The measure is a natural number, and zero between researches only.
LEMMA StepsLeftIsNat == ResearchInv => StepsLeft \in Nat /\ (StepsLeft = 0 <=> stage = "idle")
<1> SUFFICES ASSUME ResearchInv PROVE StepsLeft \in Nat /\ (StepsLeft = 0 <=> stage = "idle")
  OBVIOUS
<1>1. stage \in Stage
  BY DEF ResearchInv, RestTyped
<1>2. ReadingLeft \in Nat /\ ReadingLeft > 0 /\ RevisionsLeft \in Nat
      /\ WritingLeft + RoomLeft + 4 * RoundsAtFirst \in Nat
  BY LeftIsNat DEF LeftTyped, ReadingLeft, WritingLeft
<1>3. CASE stage \in {"idle", "finalize", "critique", "compose"}
  BY <1>2, <1>3 DEF StepsLeft
<1>4. CASE stage \in {"reflect", "read", "searching", "search", "planner"}
  BY <1>2, <1>4 DEF StepsLeft
<1> QED
  BY <1>1, <1>3, <1>4 DEF Stage

\* A round goes from one node to the next; only the search stays where it is, and
\* then there is room for one source less.
LEMMA RoundGoesDown ==
    ASSUME ResearchInv, ResearchInv',
           \/ SearchSkips \/ SearchFails \/ SearchBegins \/ SearchEnds
           \/ \E p \in Page : SearchTakes(p)
           \/ \E summary \in [Targets -> Summary] : Read(summary)
    PROVE  StepsLeft' < StepsLeft
<1>1. /\ RoundsLeft' = RoundsLeft /\ RevisionsLeft' = RevisionsLeft
      /\ WritingLeft' = WritingLeft
  BY DEF SearchSkips, SearchFails, SearchBegins, SearchEnds, SearchTakes, Read,
         RoundsLeft, RevisionsLeft, WritingLeft
<1>2. PICK n \in 0..MaxSources, m \in 0..MaxSources :
          n <= m /\ DOMAIN sources = 0..n-1 /\ DOMAIN found = n..m-1
  BY DEF ResearchInv, Numbered
<1>3. n \in Nat /\ m \in Nat /\ MaxSources \in Nat /\ NextId = m
  BY <1>2, NextIdIs, ResearchAssumption
<1>4. WritingLeft \in Nat /\ RoundsLeft \in Nat /\ RoomLeft = MaxSources - m
  BY <1>3, LeftIsNat DEF LeftTyped, WritingLeft, RoomLeft
<1>5. ASSUME stage \in {"search", "searching", "read"}, sources' = sources, found' = found,
             \/ stage = "search" /\ stage' \in {"searching", "read"}
             \/ stage = "read" /\ stage' = "reflect"
      PROVE  StepsLeft' < StepsLeft
  <2>1. RoomLeft' = RoomLeft
    BY <1>5 DEF RoomLeft, NextId
  <2>2. ReadingLeft' = ReadingLeft /\ ReadingLeft \in Int
    BY <1>1, <1>3, <1>4, <2>1 DEF ReadingLeft
  <2> QED
    BY <1>5, <2>2 DEF StepsLeft
<1>6. CASE SearchSkips \/ SearchFails
  BY <1>5, <1>6 DEF SearchSkips, SearchFails
<1>7. CASE SearchBegins
  <2>1. found' = found
    BY <1>7 DEF SearchBegins, ResearchInv, RestTyped
  <2> QED
    BY <1>5, <1>7, <2>1 DEF SearchBegins
<1>8. CASE SearchEnds
  <2>1. DOMAIN sources' = 0..m-1 /\ DOMAIN found' = {}
    BY <1>2, <1>3, <1>8, NoSourcesType DEF SearchEnds, Merged
  <2>2. Cardinality(0..m-1) = m /\ Cardinality({}) = 0
    BY <1>3, FS_Interval, FS_EmptySet
  <2>3. NextId' = m
    BY <1>3, <2>1, <2>2 DEF NextId
  <2>4. ReadingLeft' = ReadingLeft /\ ReadingLeft \in Int
    BY <1>1, <1>3, <1>4, <2>3 DEF ReadingLeft, RoomLeft
  <2> QED
    BY <1>8, <2>4 DEF StepsLeft, SearchEnds
<1>9. ASSUME NEW p \in Page, SearchTakes(p) PROVE StepsLeft' < StepsLeft
  <2>1. DOMAIN sources' = 0..n-1 /\ DOMAIN found' = n..(m+1)-1
    <3>1. DOMAIN found \cup {m} = n..(m+1)-1
      BY <1>2, <1>3
    <3> QED
      BY <1>2, <1>3, <1>9, <3>1 DEF SearchTakes
  <2>2. Cardinality(0..n-1) = n /\ Cardinality(n..(m+1)-1) = (m+1) - n
    <3>1. Cardinality(0..n-1) = n
      BY <1>3, FS_Interval
    <3>2. PICK k \in Nat : k = (m+1) - 1 /\ n <= k + 1
      BY <1>2, <1>3
    <3>3. Cardinality(n..k) = k - n + 1
      BY <1>3, <3>2, FS_Interval
    <3> QED
      BY <1>3, <3>1, <3>2, <3>3
  <2>3. NextId' = m + 1
    BY <1>2, <1>3, <2>1, <2>2 DEF NextId
  <2>4. ReadingLeft' = ReadingLeft - 1 /\ ReadingLeft \in Int
    BY <1>1, <1>3, <1>4, <2>3 DEF ReadingLeft, RoomLeft
  <2>5. stage = "searching" /\ stage' = "searching"
    BY <1>9 DEF SearchTakes
  <2> QED
    BY <2>4, <2>5 DEF StepsLeft
<1>10. ASSUME NEW summary \in [Targets -> Summary], Read(summary)
       PROVE  StepsLeft' < StepsLeft
  <2>1. DOMAIN sources' = DOMAIN sources /\ found' = found
    BY <1>10 DEF Read
  <2>2. RoomLeft' = RoomLeft
    BY <2>1 DEF RoomLeft, NextId
  <2>3. ReadingLeft' = ReadingLeft /\ ReadingLeft \in Int
    BY <1>1, <1>3, <1>4, <2>2 DEF ReadingLeft
  <2>4. stage = "read" /\ stage' = "reflect"
    BY <1>10 DEF Read
  <2> QED
    BY <2>3, <2>4 DEF StepsLeft
<1> QED
  BY <1>6, <1>7, <1>8, <1>9, <1>10

\* Planning leaves as many rounds as the agent asked for, and reflecting one less, or none.
LEMMA PlanGoesDown ==
    ASSUME ResearchInv, ResearchInv',
           \/ Planner \/ ReflectStops
           \/ \E gaps, stop \in BOOLEAN, more \in SUBSET Query : Reflect(gaps, more, stop)
    PROVE  StepsLeft' < StepsLeft
<1>1. /\ RevisionsLeft' = RevisionsLeft /\ RoomLeft' = RoomLeft /\ WritingLeft' = WritingLeft
  BY DEF Planner, ReflectStops, Reflect, RevisionsLeft, RoomLeft, NextId, WritingLeft
<1>2. /\ RevisionsLeft \in Nat /\ RoomLeft \in Nat /\ RoundsLeft \in Nat
      /\ RoundsAtFirst \in Nat /\ WritingLeft = 2 * RevisionsLeft + 4
  BY LeftIsNat DEF LeftTyped, WritingLeft
<1>3. effort \in [iteration : Nat, stop : BOOLEAN, limit : Int]
  BY DEF ResearchInv, RestTyped
<1>4. CASE Planner
  <2>1. RoundsLeft' = RoundsAtFirst
    BY <1>3, <1>4 DEF Planner, RoundsLeft, RoundsAtFirst
  <2> QED
    BY <1>1, <1>2, <1>4, <2>1 DEF Planner, StepsLeft, ReadingLeft
<1>5. ASSUME stage = "reflect", stage' = AfterReflect(effort'),
             effort'.iteration = effort.iteration + 1, effort'.limit = effort.limit
      PROVE  StepsLeft' < StepsLeft
  <2>1. CASE stage' = "compose"
    BY <1>1, <1>2, <1>5, <2>1 DEF StepsLeft, ReadingLeft
  <2>2. CASE stage' # "compose"
    <3>1. stage' = "search" /\ ~(effort'.iteration >= effort'.limit)
      BY <1>5, <2>2 DEF AfterReflect
    <3>2. RoundsLeft' = RoundsLeft - 1
      BY <1>3, <1>5, <3>1 DEF RoundsLeft
    <3>3. ReadingLeft' = ReadingLeft - 4 /\ ReadingLeft \in Nat
      BY <1>1, <1>2, <3>2 DEF ReadingLeft
    <3> QED
      BY <1>5, <3>1, <3>3 DEF StepsLeft
  <2> QED
    BY <2>1, <2>2
<1>6. CASE ReflectStops
  <2>1. effort'.iteration = effort.iteration + 1 /\ effort'.limit = effort.limit
    BY <1>3, <1>6 DEF ReflectStops, NextIteration
  <2> QED
    BY <1>5, <1>6, <2>1 DEF ReflectStops
<1>7. ASSUME NEW gaps \in BOOLEAN, NEW stop \in BOOLEAN, NEW more \in SUBSET Query,
             Reflect(gaps, more, stop)
      PROVE  StepsLeft' < StepsLeft
  <2>1. effort'.iteration = effort.iteration + 1 /\ effort'.limit = effort.limit
    BY <1>3, <1>7 DEF Reflect, NextIteration
  <2> QED
    BY <1>5, <1>7, <2>1 DEF Reflect
<1> QED
  BY <1>4, <1>6, <1>7

\* The editor asks for a new draft one revision less often than before.
LEMMA WritingGoesDown ==
    ASSUME ResearchInv, ResearchInv',
           \/ ComposeFallsBack \/ (\E silent \in BOOLEAN : Compose(silent))
           \/ Accepts \/ Revises
           \/ \E uploaded \in BOOLEAN : Finalize(uploaded)
    PROVE  StepsLeft' < StepsLeft
<1>1. RevisionsLeft \in Nat /\ RevisionsLeft' \in Nat /\ MaxRevisions \in Nat
  BY LeftIsNat, LeftIsNatNext DEF LeftTyped
<1>2. review \in [draft : Draft, verdict : {"none", "accept", "revise"}, revisions : Nat]
  BY DEF ResearchInv, RestTyped
<1>3. CASE ComposeFallsBack \/ \E silent \in BOOLEAN : Compose(silent)
  <2>1. review'.revisions = review.revisions
    BY <1>2, <1>3 DEF ComposeFallsBack, Compose
  <2>2. RevisionsLeft' = RevisionsLeft
    BY <2>1 DEF RevisionsLeft
  <2>3. stage = "compose" /\ stage' = "critique"
    BY <1>3 DEF ComposeFallsBack, Compose
  <2> QED
    BY <1>1, <2>2, <2>3 DEF StepsLeft
<1>4. CASE Accepts
  <2>1. review'.verdict = "accept"
    BY <1>2, <1>4 DEF Accepts
  <2> QED
    BY <1>1, <1>4, <2>1 DEF Accepts, AfterCritique, StepsLeft
<1>5. CASE Revises
  <2>1. review'.revisions = review.revisions + 1 /\ review'.verdict = "revise"
    BY <1>2, <1>5 DEF Revises, NewCount
  <2>2. CASE review'.revisions <= MaxRevisions
    <3>1. RevisionsLeft' = RevisionsLeft - 1
      BY <1>1, <1>2, <2>1, <2>2 DEF RevisionsLeft
    <3>2. stage' = "compose"
      BY <1>5, <2>1, <2>2 DEF Revises, AfterCritique
    <3> QED
      BY <1>1, <1>5, <3>1, <3>2 DEF Revises, StepsLeft
  <2>3. CASE ~(review'.revisions <= MaxRevisions)
    <3>1. stage' = "finalize"
      BY <1>5, <2>1, <2>3 DEF Revises, AfterCritique
    <3> QED
      BY <1>1, <1>5, <3>1 DEF Revises, StepsLeft
  <2> QED
    BY <2>2, <2>3
<1>6. CASE \E uploaded \in BOOLEAN : Finalize(uploaded)
  BY <1>6 DEF Finalize, StepsLeft
<1> QED
  BY <1>3, <1>4, <1>5, <1>6

\* How many steps a research may take when the tool is called.
LEMMA CallBounds ==
    ASSUME ResearchInv, ResearchInv', NEW limit \in IterationLimit,
           NEW continued \in BOOLEAN, Research(limit, continued)
    PROVE  StepsLeft' <= 2 * MaxRevisions + MaxSources + 4 * RoundsAtFirst' + 10
<1>1. /\ RevisionsLeft' \in 0..MaxRevisions+1 /\ RoomLeft' \in 0..MaxSources
      /\ MaxRevisions \in Nat /\ MaxSources \in Nat /\ RoundsAtFirst' \in Nat
  BY LeftIsNat, LeftIsNatNext DEF LeftTyped
<1>2. PICK v \in 0..MaxRevisions+1, o \in 0..MaxSources, a \in Nat :
          v = RevisionsLeft' /\ o = RoomLeft' /\ a = RoundsAtFirst'
  BY <1>1
<1>3. StepsLeft' = (2 * v + 4) + o + 4 * a + 4
  <2>1. stage' = "planner"
    BY DEF Research
  <2> QED
    BY <1>2, <2>1 DEF StepsLeft, WritingLeft
<1>4. (2 * v + 4) + o + 4 * a + 4 <= 2 * MaxRevisions + MaxSources + 4 * a + 10
  BY <1>1
<1> QED
  BY <1>2, <1>3, <1>4

\* What a step does to the measure.
ResearchIsBounded ==
    /\ ResearchStep => StepsLeft' < StepsLeft
    /\ call'.number # call.number =>
          StepsLeft' <= 2 * MaxRevisions + MaxSources + 4 * RoundsAtFirst' + 10

\* Every node takes a step off what is left.
LEMMA ResearchGoesDown ==
    ASSUME ResearchInv, ResearchInv', [ResearchNext]_researchVars
    PROVE  ResearchIsBounded
<1>1. ResearchStep => StepsLeft' < StepsLeft
  BY RoundGoesDown, PlanGoesDown, WritingGoesDown DEF ResearchStep
<1>2. ASSUME call'.number # call.number
      PROVE  StepsLeft' <= 2 * MaxRevisions + MaxSources + 4 * RoundsAtFirst' + 10
  <2>1. CASE OtherStep \/ Abandoned
    BY <1>2, <2>1 DEF OtherStep, Abandoned, Planner, SearchSkips, SearchFails, ReflectStops,
       Reflect, ComposeFallsBack, Compose, Accepts, Revises, Finalize
  <2>2. CASE SearchBegins \/ SearchEnds \/ (\E p \in Page : SearchTakes(p))
             \/ (\E summary \in [Targets -> Summary] : Read(summary))
    BY <1>2, <2>2 DEF SearchBegins, SearchEnds, SearchTakes, Read
  <2>3. CASE UNCHANGED researchVars
    BY <1>2, <2>3 DEF researchVars
  <2> QED
    BY <2>1, <2>2, <2>3, CallBounds DEF ResearchNext, ResearchStep, OtherStep
<1> QED
  BY <1>1, <1>2 DEF ResearchIsBounded

\* However the model answers, a research is over after so many steps: its rounds, its
\* sources and its revisions are counted, those of the researches before it included
\* (reflect.py, route_after_reflect; critique.py, route_after_critique).
THEOREM ResearchTakesBoundedSteps ==
    ResearchSpec => /\ [](StepsLeft \in Nat /\ (StepsLeft = 0 <=> stage = "idle"))
                    /\ [][ResearchIsBounded]_researchVars
<1>1. ResearchInv /\ ResearchInv' /\ [ResearchNext]_researchVars
      => [ResearchIsBounded]_researchVars
  BY ResearchGoesDown
<1> QED
  BY <1>1, ResearchInvariant, StepsLeftIsNat, PTL DEF ResearchSpec

-----------------------------------------------------------------------------
(* The conversations *)

\* A step of a conversation is a step of its graph, and the other two stay where they are.
LEMMA ConversationStep ==
    ASSUME [Next]_vars
    PROVE  [AgentTurnNext]_turnVars /\ [ExperimentalNext]_experimentalVars /\ [ResearchNext]_researchVars
<1>1. CASE UNCHANGED vars
  BY <1>1 DEF vars
<1>2. CASE Chat
  BY <1>2 DEF Chat
<1>3. CASE Presentation
  BY <1>3 DEF Presentation
<1>4. CASE ResearchNext /\ UNCHANGED <<turnVars, experimentalVars>>
  BY <1>4
<1> QED
  BY <1>1, <1>2, <1>3, <1>4 DEF Next

\* Every graph behaves as it is specified, whichever of them runs.
THEOREM ConversationsAreOfTheGraphs ==
    Spec => AgentTurnSpec /\ ExperimentalSpec /\ ResearchInit /\ [][ResearchNext]_researchVars
<1>1. Init => AgentTurnInit /\ ExperimentalInit /\ ResearchInit
  BY DEF Init
<1>2. [Next]_vars => /\ [AgentTurnNext]_turnVars
                     /\ [ExperimentalNext]_experimentalVars
                     /\ [ResearchNext]_researchVars
  BY ConversationStep
<1> QED
  BY <1>1, <1>2, PTL DEF Spec, AgentTurnSpec, ExperimentalSpec

\* Every variable of the three graphs keeps its type.
THEOREM ConversationsTyped == Spec => []ConversationTypes
<1>1. TurnTypeOK /\ ExperimentalTypeOK /\ ResearchTypeOK => ConversationTypes
  BY DEF ConversationTypes
<1> QED
  BY <1>1, ConversationsAreOfTheGraphs, ThreadTypes, TurnTypes, ResearchInitHolds,
     ResearchNextHolds, ResearchInvTyped, PTL

\* What the graphs promise holds in every conversation.
THEOREM ConversationsKeepPromises ==
    Spec => /\ [](ModelSeesAnsweredCalls /\ RefusedStayUnrun /\ OneKernel)
            /\ [](ShownInOrder /\ AnswersMatch /\ ActivityIsOfTheTurn)
BY ConversationsAreOfTheGraphs, ModelIsShownAnsweredCalls, RefusedCallsStayUnrun,
   ThreadHasOneKernel, MessagesShownInOrder, AnswersReachQuestions, LogIsOfTheTurn, PTL
=============================================================================
