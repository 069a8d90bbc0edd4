--------------------------- MODULE MCSandboxLive ---------------------------
(* One sandbox under the manager's operations and sweeps, or the kernels of    *)
(* the server in it, which share nothing with the manager: one part runs and   *)
(* the other stays at its start.  Take-over is checked over cells that only    *)
(* another request ends.                                                       *)
EXTENDS SandboxLifecycle, KernelPool

VARIABLE part
liveVars == <<vars, poolVars, part>>

LiveInit == part \in {"manager", "take-over"} /\ Init /\ KernelPoolInit
LiveNext ==
    /\ UNCHANGED part
    /\ \/ part = "manager" /\ Next /\ UNCHANGED poolVars
       \/ part = "take-over" /\ KernelPoolNext /\ UNCHANGED vars

\* Fairness and KernelPoolFairness, each of its own part.
Managing == part = "manager"
Displacing == part = "take-over"
LiveSpec ==
    /\ LiveInit /\ [][LiveNext]_liveVars
    /\ \A s \in Sandbox : /\ WF_vars(Managing /\ GetsIdle(s)) /\ WF_vars(Managing /\ Ages(s))
                          /\ SF_vars(Managing /\ SelectIdle(s))
                          /\ SF_vars(Managing /\ SelectStale(s))
                          /\ SF_vars(Managing /\ SelectRows(s))
    /\ WF_vars(Managing /\ ListBoxes)
    /\ \A t \in Task : WF_vars(Managing /\ Enter(t)) /\ WF_vars(Managing /\ Proceed(t))
    /\ WF_poolVars(Displacing /\ \E c \in Caller : Serves(c))
=============================================================================
