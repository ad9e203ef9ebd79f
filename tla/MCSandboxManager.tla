-------------------------- MODULE MCSandboxManager --------------------------
(* SandboxManager on small instances. *)
EXTENDS SandboxManagerProperties, TLC

Symmetry == Permutations(Sandboxes) \cup Permutations(Callers)
=============================================================================
