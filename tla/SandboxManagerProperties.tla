---------------------- MODULE SandboxManagerProperties ----------------------
(***************************************************************************)
(* What the sandbox manager promises.  Each property names the code it is  *)
(* about; README.md says which run checks it.                              *)
(***************************************************************************)
EXTENDS SandboxManager

(* A sandbox that is not in the registry but that a request or the reaper  *)
(* still has to boot or to remove.                                         *)
InHand(s) ==
  \/ \E c \in Callers : target[c] = s /\ pc[c] \in CreateSteps \cup {"remove"}
  \/ s \in toKill \cup toGC
  \/ stage = "fallback" /\ item = s

(* What a registry entry says of its container. *)
Agrees(s) ==
  \/ /\ s \in Frozen
     /\ container[s] = "paused" /\ agent[s]
  \/ /\ s \in Stopped
     /\ container[s] = "exited"
  \/ /\ state[s] = "running" /\ pauseMode[s] = "none"
     /\ container[s] = "running" /\ agent[s]

-----------------------------------------------------------------------------
(* Every registered sandbox has a container: Create registers only what it *)
(* has booted, and Destroy, the kill and GC lists and the pause fallback   *)
(* of EnforceTimeouts take the entry out before they remove the container, *)
(* so no interleaving lets a request find an entry with nothing behind it. *)
RegisteredHasContainer == \A s \in registry : container[s] # "absent"

(* Nothing leaks to the runtime: a container without a registry entry is   *)
(* in the hands of somebody who will register or remove it (Create's       *)
(* comment, manager.go: "force-removed so nothing leaks to the runtime").  *)
(* Only a crash between creating and starting a container leaves one that  *)
(* ListManaged filters out (list.go:20).                                   *)
NoLeak ==
  up => \A s \in Sandboxes : container[s] # "absent" =>
          \/ s \in registry \/ InHand(s)
          \/ crashes > 0 /\ container[s] = "created"

(* The same when calls fail and the process restarts: a container nobody   *)
(* answers for is one whose removal (or creation) returned an error, or    *)
(* one that Rehydrate could not adopt.                                     *)
Accounted ==
  up => \A s \in Sandboxes :
          container[s] # "absent" => s \in registry \/ InHand(s) \/ s \in strays

(* A Destroy that returned nil is final: whatever Connect, Resume, reaper  *)
(* step or restart was in flight, neither the sandbox nor its container    *)
(* comes back.                                                             *)
DestroyIsFinal ==
  \A s \in destroyed : s \notin registry /\ container[s] = "absent"

(* A sandbox nobody is working on, and that only ever had one operation at *)
(* a time and no failure, is what its entry says: running means thawed and *)
(* initialised, frozen means docker-paused, stopped means exited.  The     *)
(* reaper's steps and restarts count as operations.  Its PauseMode is the  *)
(* substate of a pause also while it is worked on (sandbox.go:69).         *)
QuiescentAgreement ==
  \A s \in registry : s \notin contended =>
    /\ ~Busy(s) => Agrees(s)
    /\ state[s] = "running" => pauseMode[s] = "none"

(* A sandbox leaves the registry only when its time has come: a client     *)
(* destroys it, it is running with its deadline passed, or it has been     *)
(* stopped for StoppedGCAfter.  So a renewal that was acknowledged keeps a *)
(* running sandbox alive, and a paused one is beyond the reach of the TTL. *)
(* Only OnTimeoutKill: with OnTimeoutPause see PauseSurvives.              *)
Due(s) ==
  \/ \E c \in Callers : pc[c] = "idle" /\ pc'[c] = "remove" /\ target'[c] = s
  \/ state[s] = "running" /\ ttl[s] = 0
  \/ s \in Lapsed(Stopped, StoppedGCAfter)

OnlyDueRemovals ==
  [][up' => \A s \in registry \ registry' : onTimeout[s] = "kill" => Due(s)]_vars

(* An OnTimeoutPause sandbox that only ever had one operation at a time and *)
(* no failure is never removed for its deadline: it stays in the registry   *)
(* until a client destroys it or its GC age is reached (OnTimeoutPause,     *)
(* sandbox.go:45; the fallback of manager.go:767 is for the others).        *)
CalmPauseSurvives ==
  [][up' => \A s \in registry \ registry' :
       onTimeout[s] = "pause" /\ s \notin contended =>
         \/ \E c \in Callers : pc[c] = "idle" /\ pc'[c] = "remove" /\ target'[c] = s
         \/ s \in Lapsed(Stopped, StoppedGCAfter)]_vars

(* Of all who want to remove an OnTimeoutKill sandbox exactly one wins, so  *)
(* a Destroy that found it does not fail because the reaper was faster.     *)
DestroySucceeds ==
  [][\A c \in Callers :
       up' /\ pc[c] = "remove" /\ pc'[c] = "idle" /\ onTimeout[target[c]] = "kill"
         => target[c] \in destroyed']_vars

-----------------------------------------------------------------------------
(***************************************************************************)
(* Who owns a sandbox: the inductive invariant behind the properties       *)
(* above.  SandboxManagerProofs.tla proves it for every instance.        *)
(***************************************************************************)

(* The reaper's lists and the entry it is in the middle of. *)
Listed == toKill \cup toPause \cup toDemote \cup toGC \cup {item}

(* Whatever is known of a sandbox, its id has been handed out: this is what *)
(* makes the id of a new Create fresh.                                      *)
OnlyMinted ==
  /\ registry \subseteq minted
  /\ destroyed \subseteq minted
  /\ Listed \subseteq minted \cup {NoSandbox}
  /\ \A c \in Callers : target[c] \in minted \cup {NoSandbox}
  /\ \A s \in Sandboxes : container[s] # "absent" => s \in minted

(* A sandbox that is being created is nobody else's business. *)
CreatorIsAlone ==
  \A c \in Callers : pc[c] \in CreateSteps =>
    /\ target[c] \notin registry \cup destroyed \cup Listed
    /\ \A d \in Callers : target[d] = target[c] => d = c

(* What is about to be removed has left the registry. *)
RemoversUnregister ==
  /\ \A c \in Callers : pc[c] = "remove" => target[c] \notin registry
  /\ registry \cap (toKill \cup toGC) = {}
  /\ stage = "fallback" => item \notin registry

(* Create registers a container that exists. *)
CreatorHasContainer ==
  \A c \in Callers : pc[c] \in {"initAgent", "waitReady", "register"}
                       => container[target[c]] # "absent"

(* A process that is down does nothing. *)
DownIsIdle ==
  ~up => /\ \A c \in Callers : pc[c] = "idle"
         /\ SweepDone
         /\ registry = {}

Ownership ==
  /\ OnlyMinted
  /\ CreatorIsAlone
  /\ RemoversUnregister
  /\ CreatorHasContainer
  /\ DownIsIdle
  /\ RegisteredHasContainer
  /\ DestroyIsFinal
  /\ Accounted

-----------------------------------------------------------------------------
(* The life of a sandbox as its clients see it. *)
Creating(s) == \E c \in Callers : pc[c] = "containerCreate" /\ target[c] = s

Phase(s) ==
  IF s \notin minted             THEN "unborn"
  ELSE IF container[s] # "absent" THEN "present"
  ELSE IF Creating(s)             THEN "requested"
  ELSE "gone"

Lifecycle == INSTANCE SandboxLifecycle WITH
  phase        <- [s \in Sandboxes |-> Phase(s)],
  served       <- registry,
  acknowledged <- destroyed

(* Manager, reaper, failures and restarts together implement the lifecycle  *)
(* of SandboxLifecycle: no interleaving of Create, Destroy, EnforceTimeouts *)
(* and Rehydrate reuses an id, serves one without a container, or takes a   *)
(* container away while its id is served (the order of delete from the map  *)
(* and rt.Destroy in manager.go:446, 730, 740 and 767).                     *)
LifecycleImplemented == Lifecycle!Spec

-----------------------------------------------------------------------------
(* A running sandbox past its deadline is removed or frozen in the end:     *)
(* ErrExpired keeps clients from renewing it (manager.go:470), and the sweep*)
(* takes it or finds that the operation of a client has.                    *)
ExpiredReaped ==
  \A s \in Sandboxes : s \in Expired ~> s \notin registry \/ state[s] = "paused"

(* A sandbox frozen for FreezeDuration gives its memory back, unless it is  *)
(* resumed or removed first.                                                *)
FrozenDemoted ==
  \A s \in Sandboxes : s \in Lapsed(Frozen, FreezeDuration) ~> s \notin Frozen

(* The sweeps bring the number of frozen sandboxes down to MaxFrozen again, *)
(* unless clients go on pausing: Pause itself does not look at the cap.     *)
CapRestored ==
  MaxFrozen > 0 =>
    (Cardinality(Frozen) > MaxFrozen ~>
       \/ Cardinality(Frozen) <= MaxFrozen
       \/ \E c \in Callers : pc[c] = "setFrozen")

(* A container ends up registered or removed. *)
Reclaimed ==
  \A s \in Sandboxes : container[s] # "absent" ~>
                         s \in registry \/ container[s] = "absent"

-----------------------------------------------------------------------------
(***************************************************************************)
(* Statements of the repository that the code does not keep.               *)
(***************************************************************************)

(* manager.go, Create: "On any mid-flight failure the container is         *)
(* force-removed so nothing leaks to the runtime."                         *)
FailedCreateCleansUp ==
  [][\A c \in Callers :
       up' /\ pc[c] \in {"forceRemove", "cleanup"} /\ pc'[c] = "idle"
         => container'[target[c]] = "absent"]_vars

(* sandbox.go: "PauseMode is the substate when State == StatePaused. Empty *)
(* otherwise."                                                             *)
PauseModeEmptyWhenRunning ==
  \A s \in registry : state[s] = "running" => pauseMode[s] = "none"

(* sandbox.go: "OnTimeoutPause freezes it via runtime.Pause and leaves it  *)
(* in the registry for a later /connect to resume."                        *)
PauseSurvives ==
  [][up' => \A s \in registry \ registry' : onTimeout[s] = "pause" =>
       \/ \E c \in Callers : pc[c] = "idle" /\ pc'[c] = "remove" /\ target'[c] = s
       \/ s \in Lapsed(Stopped, StoppedGCAfter)]_vars
=============================================================================
