--------------------------- MODULE MCSandboxModes ---------------------------
(* SandboxLifecycle, either with "many" sandboxes and without the reconciler,  *)
(* or with "one" sandbox and more requests, without the orphan sweeper and     *)
(* without faults of Docker.  What is left out of a mode breaks the property   *)
(* that is checked in it: see the runs of MCSandboxLifecycle.                  *)
(* Or the "kernels" of the server in a sandbox, which share nothing with the   *)
(* manager: two requests, two kernels and one mishap, or three requests on one *)
(* kernel.  Or its "shells": what four requests of two readers make of one     *)
(* command, and of a second one that is among the first three requests, comes  *)
(* when the first has ended and its guard waits no more, prints nothing and is *)
(* not killed.                                                                 *)
EXTENDS SandboxLifecycle, KernelPool, ShellSessions, TLC

VARIABLE mode
modesVars == <<vars, poolVars, shellVars, mode>>

ModesSymmetry == Permutations(Box) \cup Permutations(Request)
Only == CHOOSE s \in Sandbox : TRUE

ManagerModes ==
    /\ Next /\ UNCHANGED <<poolVars, shellVars>>
    /\ mode \in {"many", "one"}
    /\ mode = "many" => /\ task'[IdleSweeper].kind # "reconcile"
                        /\ count'.requests <= 3 /\ count'.abandons + count'.faults <= 1
    /\ mode = "one" => /\ task'[OrphanSweeper].kind = "none"
                       /\ \A t \in Task : task'[t].s = Only
                       /\ count'.faults = 0
KernelMode ==
    /\ KernelPoolNext /\ UNCHANGED <<vars, shellVars>>
    /\ mode = "kernels"
    /\ mishaps'.faults + mishaps'.leaves <= 1
    /\ caller'[MaxCallers].pc # "new" =>
          /\ mishaps' = mishaps /\ mishaps.faults + mishaps.leaves = 0 /\ used' <= 1
          /\ \A c \in Caller : caller'[c].cell \notin {"prints", "loop"}

ShellMode ==
    /\ ShellSessionsNext /\ UNCHANGED <<vars, poolVars>>
    /\ mode = "shells"
    /\ \A s \in Shell \ {1} :
          /\ session'[s].status # "none" => /\ shellOps' <= 3 /\ session[1].status = "ended"
                                             /\ session[1].guard \in {"truncates", "done"}
          /\ session'[s].at = 0 /\ ~session'[s].doomed /\ session'[s].process # "child"

ModesInit == /\ mode \in {"many", "one", "kernels", "shells"}
             /\ Init /\ KernelPoolInit /\ ShellSessionsInit
ModesNext == UNCHANGED mode /\ (ManagerModes \/ KernelMode \/ ShellMode)
ModesSpec == ModesInit /\ [][ModesNext]_modesVars

\* Every variable of the manager, the kernel pool and the shells has its type.
ModesTypes == TypeOK /\ KernelPoolTypeOK /\ ShellTypeOK

\* CapacityRespected, of the rows the reconciler does not touch: it commits RUNNING
\* from the object it selected, over whatever the row has become
\* (lifecycle_service.py, _reserve_capacity_and_mark_starting).
CapacityOfMany == mode = "many" => CapacityRespected

\* StoppedKeepsBox, where no fault of Docker and no orphan sweep removes containers
\* of their own (not_remove, lifecycle_service.py _stop_runtime_for_sandbox).
OneKeepsBox == mode = "one" => StoppedKeepsBox
=============================================================================
