-------------------------- MODULE MCScheduledTasks --------------------------
(* Instances of ScheduledTasks for TLC. *)
EXTENDS ScheduledTasks, TLC

\* Processes and recipients are interchangeable.
Symmetry == Permutations(Proc) \cup Permutations(Target)
ProcSymmetry == Permutations(Proc)
=============================================================================
