---------------------------- MODULE DeepResearch ----------------------------
(***************************************************************************)
(* The deep research graph of modules/deep_research: planner -> search ->  *)
(* read -> reflect, around again while there are gaps, then compose ->     *)
(* critique, around again while there are revisions, then finalize.  The   *)
(* tool run_deep_research runs it on a new thread, or on the thread of an  *)
(* earlier research, whose state is then still there: only the task, the   *)
(* iteration and the budget are given anew.                                *)
(*                                                                         *)
(* A node commits what it returns when it ends.  A page is a normalised    *)
(* URL, and a source is known by its id: the report cites it by the id      *)
(* (plus one).  The sub-questions of the plan are their queries: to which   *)
(* sub-question a source belongs is in the prompts only (sources_per_subq   *)
(* excludes no source, search.py:132-134), and so are the critique's words. *)
(***************************************************************************)
EXTENDS Integers, Sequences, FiniteSets

CONSTANTS
    Query,          \* search queries
    Page,           \* pages the engine may find
    BlockedPage,    \* those of domains that are never read
    MaxSources,     \* max_sources
    MaxReads,       \* max_read_per_iteration
    MaxRevisions,   \* max_revisions
    IterationLimit, \* the values of max_iterations the agent may ask for
    MaxResearches   \* bound on calls of the tool

ASSUME ResearchAssumption ==
    /\ BlockedPage \subseteq Page
    /\ {MaxSources, MaxReads, MaxRevisions} \subseteq Nat
    /\ IterationLimit \subseteq Int
    /\ MaxResearches \in Nat

VARIABLES
    stage,     \* the node under way, "idle" outside of runs
    plan,      \* the queries of the plan, none if there is no plan
    sources,   \* sources by id
    found,     \* what the search under way adds to them
    asked,     \* the queries of the search under way
    searched,  \* searched_queries
    effort,    \* iteration, should_stop and max_iterations
    review,    \* report_draft, critique_verdict, revision_count
    report,    \* the draft last uploaded
    call       \* ghost: calls of the tool so far, and the thread of the last one

researchVars == <<stage, plan, sources, found, asked, searched, effort, review, report, call>>

-----------------------------------------------------------------------------

Stage == {"idle", "planner", "search", "searching", "read", "reflect", "compose",
          "critique", "finalize"}
Summary == {"", "relevant", "irrelevant"}
Source == [page : Page, summary : Summary]

\* A draft is one the model wrote or the fallback; call is the one it is of.
Draft == [text : {"none", "fallback", "written"}, call : 0..MaxResearches]
NoDraft == [text |-> "none", call |-> 0]

NoSources == [i \in {} |-> {}]
NoReview == [draft |-> NoDraft, verdict |-> "none", revisions |-> 0]

ResearchInit ==
    /\ stage = "idle" /\ plan = {} /\ sources = NoSources /\ found = NoSources
    /\ asked = {} /\ searched = {}
    /\ effort = [iteration |-> 0, stop |-> FALSE, limit |-> 0]
    /\ review = NoReview /\ report = NoDraft
    /\ call = [number |-> 0, thread |-> 0]

\* run_deep_research.
Research(limit, continued) ==
    /\ stage = "idle" /\ call.number < MaxResearches
    /\ continued => call.thread > 0
    /\ stage' = "planner"
    /\ call' = [number |-> call.number + 1,
                thread |-> IF continued THEN call.thread ELSE call.number + 1]
    /\ effort' = [iteration |-> 0, stop |-> continued /\ effort.stop, limit |-> limit]
    /\ IF continued
       THEN UNCHANGED <<plan, sources, searched, review, report>>
       ELSE /\ plan' = {} /\ sources' = NoSources /\ searched' = {}
            /\ review' = NoReview /\ report' = NoDraft
    /\ UNCHANGED <<found, asked>>

\* The run ends before its end: the caller is gone, or a node raises.
Abandoned ==
    /\ stage # "idle"
    /\ stage' = "idle" /\ found' = NoSources /\ asked' = {}
    /\ UNCHANGED <<plan, sources, searched, effort, review, report, call>>

-----------------------------------------------------------------------------
(* planner *)

\* A blank task has no plan; without the model's, the task itself is the query.
Planner ==
    /\ stage = "planner" /\ stage' = "search"
    /\ plan' \in SUBSET Query
    /\ effort' = [effort EXCEPT !.iteration = 0]
    /\ UNCHANGED <<sources, found, asked, searched, review, report, call>>

-----------------------------------------------------------------------------
(* search *)

Unsearched == plan \ searched

\* Without new queries the engine is not asked.
SearchSkips ==
    /\ stage = "search" /\ Unsearched = {}
    /\ stage' = "read"
    /\ UNCHANGED <<plan, sources, found, asked, searched, effort, review, report, call>>

\* A search that fails leaves its queries to the next iteration.
SearchFails ==
    /\ stage = "search" /\ Unsearched # {}
    /\ stage' = "read"
    /\ UNCHANGED <<plan, sources, found, asked, searched, effort, review, report, call>>

SearchBegins ==
    /\ stage = "search" /\ Unsearched # {}
    /\ stage' = "searching" /\ asked' = Unsearched /\ found' = NoSources
    /\ UNCHANGED <<plan, sources, searched, effort, review, report, call>>

Known == {sources[i].page : i \in DOMAIN sources} \cup {found[i].page : i \in DOMAIN found}

Full_OfThisSearch == Cardinality(DOMAIN found) >= MaxSources
Full == Cardinality(DOMAIN sources) + Cardinality(DOMAIN found) >= MaxSources
NextId_Restarts == Cardinality(DOMAIN found)
NextId == Cardinality(DOMAIN sources) + Cardinality(DOMAIN found)
IsNew(p) == p \notin Known

\* One result of one of the queries.  Results that are not taken change nothing.
SearchTakes(p) ==
    /\ stage = "searching" /\ ~Full
    /\ p \notin BlockedPage /\ IsNew(p)
    /\ found' = [i \in DOMAIN found \cup {NextId} |->
                    IF i = NextId THEN [page |-> p, summary |-> ""] ELSE found[i]]
    /\ UNCHANGED <<stage, plan, sources, asked, searched, effort, review, report, call>>

\* merge_sources: sources are merged by id.
Merged(old, new) == [i \in DOMAIN old \cup DOMAIN new |->
                        IF i \in DOMAIN new THEN new[i] ELSE old[i]]

SearchEnds ==
    /\ stage = "searching" /\ stage' = "read"
    /\ sources' = Merged(sources, found)
    /\ searched' = searched \cup asked
    /\ found' = NoSources /\ asked' = {}
    /\ UNCHANGED <<plan, effort, review, report, call>>

-----------------------------------------------------------------------------
(* read *)

Unread == {i \in DOMAIN sources : sources[i].summary = ""}
Targets == {i \in Unread : Cardinality({j \in Unread : j < i}) < MaxReads}

\* Each target gets a summary; a page that cannot be read is irrelevant, and one of
\* which the model says nothing stays unread.  Without a model nothing is read.
Read(summary) ==
    /\ stage = "read" /\ stage' = "reflect"
    /\ sources' = [i \in DOMAIN sources |->
                      IF i \in Targets /\ summary[i] # ""
                      THEN [sources[i] EXCEPT !.summary = summary[i]] ELSE sources[i]]
    /\ UNCHANGED <<plan, found, asked, searched, effort, review, report, call>>

-----------------------------------------------------------------------------
(* reflect and its route *)

NextIteration == effort.iteration + 1

AfterReflect(e) ==
    IF e.stop \/ e.iteration >= e.limit \/ Cardinality(DOMAIN sources) >= MaxSources
    THEN "compose" ELSE "search"

\* The last iteration, an empty plan, and a model that fails.
ReflectStops ==
    /\ stage = "reflect"
    /\ effort' = [effort EXCEPT !.iteration = NextIteration, !.stop = TRUE]
    /\ stage' = AfterReflect(effort')
    /\ UNCHANGED <<plan, sources, found, asked, searched, review, report, call>>

\* gaps: whether a sub-question needs more; more: the queries to add to those that do.
Reflect(gaps, more, stop) ==
    /\ stage = "reflect"
    /\ NextIteration < effort.limit /\ plan # {}
    /\ more # {} => gaps
    /\ plan' = plan \cup more
    /\ effort' = [effort EXCEPT !.iteration = NextIteration, !.stop = stop \/ ~gaps]
    /\ stage' = AfterReflect(effort')
    /\ UNCHANGED <<sources, found, asked, searched, review, report, call>>

-----------------------------------------------------------------------------
(* compose, critique, finalize *)

Relevant == {i \in DOMAIN sources : sources[i].summary = "relevant"}
Fallback == [text |-> "fallback", call |-> call.number]
Drafted == [text |-> "written", call |-> call.number]

\* No relevant source, or no model.
ComposeFallsBack ==
    /\ stage = "compose" /\ stage' = "critique"
    /\ review' = [review EXCEPT !.draft = Fallback, !.verdict = "accept"]
    /\ UNCHANGED <<plan, sources, found, asked, searched, effort, report, call>>

\* The model fails or is silent: the previous draft is kept, an earlier call's too.
Compose(silent) ==
    /\ stage = "compose" /\ Relevant # {} /\ stage' = "critique"
    /\ \E draft \in {IF ~silent THEN Drafted
                     ELSE IF review.draft # NoDraft THEN review.draft ELSE Fallback} :
          review' = [review EXCEPT !.draft = draft, !.verdict = "none"]
    /\ UNCHANGED <<plan, sources, found, asked, searched, effort, report, call>>

AfterCritique(r) ==
    IF r.verdict = "revise" /\ r.revisions <= MaxRevisions THEN "compose" ELSE "finalize"

\* The editor agrees, or there is no editor.
Accepts ==
    /\ stage = "critique"
    /\ review' = [review EXCEPT !.verdict = "accept"]
    /\ stage' = AfterCritique(review')
    /\ UNCHANGED <<plan, sources, found, asked, searched, effort, report, call>>

NewCount_Kept == review.revisions
NewCount == review.revisions + 1

Revises ==
    /\ stage = "critique"
    /\ review' = [review EXCEPT !.verdict = "revise", !.revisions = NewCount]
    /\ stage' = AfterCritique(review')
    /\ UNCHANGED <<plan, sources, found, asked, searched, effort, report, call>>

\* A failed upload leaves the report of an earlier call where it is.
Finalize(uploaded) ==
    /\ stage = "finalize" /\ stage' = "idle"
    /\ report' = IF uploaded THEN review.draft ELSE report
    /\ UNCHANGED <<plan, sources, found, asked, searched, effort, review, call>>

-----------------------------------------------------------------------------

ResearchStep ==
    \/ Planner
    \/ SearchSkips \/ SearchFails \/ SearchBegins \/ SearchEnds
    \/ \E p \in Page : SearchTakes(p)
    \/ \E summary \in [Targets -> Summary] : Read(summary)
    \/ ReflectStops
    \/ \E gaps, stop \in BOOLEAN, more \in SUBSET Query : Reflect(gaps, more, stop)
    \/ ComposeFallsBack
    \/ \E silent \in BOOLEAN : Compose(silent)
    \/ Accepts \/ Revises
    \/ \E uploaded \in BOOLEAN : Finalize(uploaded)

ResearchNext ==
    \/ \E limit \in IterationLimit, continued \in BOOLEAN : Research(limit, continued)
    \/ Abandoned
    \/ ResearchStep

\* The graph goes on by itself; nothing obliges the agent to call the tool.
ResearchSpec == ResearchInit /\ [][ResearchNext]_researchVars /\ WF_researchVars(ResearchStep)

-----------------------------------------------------------------------------
(* Properties *)

\* Every variable has its type; however many rounds and researches a thread has seen,
\* its sources stay within max_sources (search.py, search_node).
ResearchTypeOK ==
    /\ stage \in Stage
    /\ plan \subseteq Query
    /\ sources \in UNION {[0..n-1 -> Source] : n \in 0..MaxSources}
    /\ \A i \in DOMAIN found : found[i] \in Source
    /\ asked \subseteq Query /\ searched \subseteq Query
    /\ effort.iteration \in Nat /\ effort.stop \in BOOLEAN
    /\ review.draft \in Draft /\ review.revisions \in Nat
    /\ report \in Draft

\* Over the rounds, revisions and researches of a thread a number goes on naming its
\* page, so that a draft that is kept still cites what it cited, and no page gets a
\* second number (config.py, merge_sources; search.py, next_id and seen_urls).
CitationsKeepTheirPage ==
    [][call'.thread = call.thread =>
          /\ \A i \in DOMAIN sources :
                i \in DOMAIN sources' /\ sources'[i].page = sources[i].page
          /\ \A i \in DOMAIN sources', j \in DOMAIN sources' \ DOMAIN sources :
                sources'[i].page = sources'[j].page => i = j
      ]_researchVars

\* A research ends: its rounds and its revisions are counted, whatever the model
\* says (reflect.py, route_after_reflect; critique.py, route_after_critique).
ResearchEnds == stage # "idle" ~> stage = "idle"
=============================================================================
