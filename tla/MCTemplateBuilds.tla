-------------------------- MODULE MCTemplateBuilds --------------------------
(* TemplateBuilds on small instances: ids of one kind are interchangeable. *)
EXTENDS TemplateBuildsProperties, TLC

CONSTANT First   \* a template id

MCSymmetry ==
  Permutations(TemplateIds) \cup Permutations(BuildIds) \cup Permutations(Callers)

(* A temporal property rules symmetry out; that the first id minted is First *)
(* loses nothing.                                                            *)
MCInit == Init /\ First \in minted

MCFairSpec == MCInit /\ [][Next]_vars /\ \A b \in BuildIds : WF_vars(Runs(b))
=============================================================================
