-------------------------- MODULE MCTasksAndLimits --------------------------
(* Scheduled tasks in one process that restarts, or calls under a rate limit:  *)
(* they share nothing here, so one part runs and the other stays at its start. *)
EXTENDS ScheduledTasks, RateLimiter

VARIABLE part
tasksOrLimitsVars == <<vars, limiterVars, part>>

\* One user with two calls a period; all users together have one.
OneUserPays == [c \in LimitedCall |-> CHOOSE u \in Account : TRUE]
TwoAUserOneForAll == [b \in Bucket |-> IF b = AllUsers THEN 1 ELSE 2]

TasksOrLimitsInit ==
    /\ part \in {"tasks", "limits"} /\ Init /\ LimiterInit
    /\ part = "tasks" => limit = {}
TasksOrLimitsNext ==
    /\ UNCHANGED part
    /\ \/ part = "tasks" /\ Next /\ UNCHANGED limiterVars
       \/ part = "limits" /\ LimiterNext /\ UNCHANGED vars

\* Fairness and LimiterFairness, each of its own part.
Tasks == part = "tasks"
Limits == part = "limits"
TasksOrLimitsSpec ==
    /\ TasksOrLimitsInit /\ [][TasksOrLimitsNext]_tasksOrLimitsVars
    /\ WF_vars(Tasks /\ ExpireLock)
    /\ \A p \in Proc :
          /\ WF_vars(Tasks /\ Start(p)) /\ WF_vars(Tasks /\ LockAndSelect(p))
          /\ WF_vars(Tasks /\ Claim(p))
          /\ \A t \in Task : WF_vars(Tasks /\ Run(p, t))
    /\ \A c \in LimitedCall : WF_limiterVars(Limits /\ LimitedStep(c))
    /\ \A b \in Bucket : WF_limiterVars(Limits /\ LockLapses(b))
    /\ WF_limiterVars(Limits /\ TimePasses)
=============================================================================
