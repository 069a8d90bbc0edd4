------------------------ MODULE MCSandboxLifecycle ------------------------
(* Instances of SandboxLifecycle for TLC. *)
EXTENDS SandboxLifecycle, TLC

BoxSymmetry == Permutations(Box)
BoxAndRequestSymmetry == Permutations(Box) \cup Permutations(Request)
=============================================================================
