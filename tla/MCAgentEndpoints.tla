-------------------------- MODULE MCAgentEndpoints --------------------------
(* AgentEndpoints on small instances. *)
EXTENDS AgentEndpoints, TLC

MCSymmetry ==
  Permutations(Sandboxes) \cup Permutations(Addresses) \cup Permutations(Callers)
=============================================================================
