-------------------------- MODULE SandboxLifecycle --------------------------
(***************************************************************************)
(* What a client may rely on of a sandbox id, whatever requests, sweeps,   *)
(* failures and restarts go on behind it: an id is handed out once, its    *)
(* container comes at most once and goes at most once, the id is served    *)
(* only while there is a container, and a container goes only after the id *)
(* is no longer served.  SandboxManager is shown to implement it.          *)
(***************************************************************************)
CONSTANTS
  Sandboxes      \* the sandbox ids

VARIABLES
  phase,         \* how far the life of each sandbox is
  served,        \* the sandboxes the API answers for
  acknowledged   \* the sandboxes whose Destroy has been answered

vars == <<phase, served, acknowledged>>

Phases == {"unborn", "requested", "present", "gone"}

Init ==
  /\ phase = [s \in Sandboxes |-> "unborn"]
  /\ served = {}
  /\ acknowledged = {}

Moves(s, from, to) ==
  /\ phase[s] = from
  /\ phase' = [phase EXCEPT ![s] = to]

(* A new id is handed out. *)
Request(s) ==
  Moves(s, "unborn", "requested") /\ UNCHANGED <<served, acknowledged>>

Appear(s) ==
  Moves(s, "requested", "present") /\ UNCHANGED <<served, acknowledged>>

GiveUp(s) ==
  Moves(s, "requested", "gone") /\ UNCHANGED <<served, acknowledged>>

(* One sandbox after its boot, or all that a restarted process adopts. *)
Serve(S) ==
  /\ \A s \in S : phase[s] = "present"
  /\ served' = served \cup S
  /\ UNCHANGED <<phase, acknowledged>>

Withdraw(S) ==
  /\ served' = served \ S
  /\ UNCHANGED <<phase, acknowledged>>

Vanish(s) ==
  /\ s \notin served
  /\ Moves(s, "present", "gone")
  /\ acknowledged' \in {acknowledged, acknowledged \cup {s}}
  /\ UNCHANGED served

(* The process dies: what it was asked for is not done. *)
Die ==
  /\ phase' = [s \in Sandboxes |->
                 IF phase[s] = "requested" THEN "gone" ELSE phase[s]]
  /\ served' = {}
  /\ UNCHANGED acknowledged

Next ==
  \/ \E s \in Sandboxes : Request(s) \/ Appear(s) \/ GiveUp(s) \/ Vanish(s)
  \/ \E S \in SUBSET Sandboxes : Serve(S) \/ Withdraw(S)
  \/ Die

Spec == Init /\ [][Next]_vars
=============================================================================
