-------------------------- MODULE MCConversations --------------------------
(* A thread of the chat agent, one of the presentation graph, or one of deep   *)
(* research: they share nothing here, so one of them runs and the others stay  *)
(* at their start.  Progress of the chat agent is checked over threads of one  *)
(* message.                                                                    *)
EXTENDS AgentTurn, ExperimentalTurn, DeepResearch

VARIABLE part
vars == <<turnVars, experimentalVars, researchVars, part>>

ChatBatches == {<<"think">>, <<"python", "python">>, <<"front", "ask">>}
ChatOutcomes == [think |-> {"ok", "error"}, python |-> {"ok", "raised"},
                 front |-> {"ok"}, ask |-> {"ok"}]

Init == /\ part \in {"chat", "short chat", "presentation", "research"}
        /\ AgentTurnInit /\ ExperimentalInit /\ ResearchInit

Chat == AgentTurnNext /\ UNCHANGED <<experimentalVars, researchVars>>
Presentation == ExperimentalNext /\ UNCHANGED <<turnVars, researchVars>>

Next == /\ UNCHANGED part
        /\ \/ part = "chat" /\ Chat
           \/ part = "short chat" /\ Chat /\ turns'.humans <= 1
           \/ part = "presentation" /\ Presentation
           \/ part = "research" /\ ResearchNext /\ UNCHANGED <<turnVars, experimentalVars>>

Spec == /\ Init /\ [][Next]_vars
        /\ WF_turnVars(part = "short chat" /\ GraphStep)
        /\ WF_experimentalVars(part = "presentation" /\ OuterStep)
        /\ WF_experimentalVars(part = "presentation" /\ InnerStep)
        /\ WF_researchVars(part = "research" /\ ResearchStep)

\* Every variable of the three has its type.
ConversationTypes == TurnTypeOK /\ ExperimentalTypeOK /\ ResearchTypeOK

\* AgentTurnEnds, of short chats: a run that goes on ends, asks or fails
\* (anti_loop.py:3-7).
ChatTurnEnds == part = "short chat" /\ phase = "running" ~> phase # "running"
=============================================================================
