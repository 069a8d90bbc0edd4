----------------------------- MODULE MCMcpPool -----------------------------
(* Instances of McpPool for TLC. *)
EXTENDS McpPool, TLC

Symmetry == Permutations(Client) \cup Permutations(Worker)
=============================================================================
