--------------------------- MODULE SandboxManager ---------------------------
(***************************************************************************)
(* internal/sandbox/manager.go over a container runtime: the registry of   *)
(* sandboxes, the requests that operate on it, the reaper                  *)
(* (EnforceTimeouts) and restarts of the edvabe process (Rehydrate).       *)
(*                                                                         *)
(* Manager.mu is held only around reads and writes of the registry, never  *)
(* around a runtime or agent call, so every operation is cut into one      *)
(* action per locked section and one per call.  pc[c] is the call or       *)
(* section a request is about to perform; "idle" is no request.            *)
(*                                                                         *)
(* Time is kept relative to now: ttl[s] is ExpiresAt - now and age[s] is   *)
(* now - PausedAt, both in ticks and both saturating where the code stops  *)
(* telling values apart (ttl at 0, age at MaxAge).                         *)
(***************************************************************************)
EXTENDS Naturals, FiniteSets, ContainerRuntime

CONSTANTS
  NoSandbox,       \* "no sandbox", for a request or a reaper that has none
  Callers,         \* handler goroutines (control plane and dashboard)
  Operations,      \* the operations callers may request
  OnTimeoutModes,  \* the lifecycle.onTimeout values callers may ask for
  Timeouts,        \* the timeouts callers may ask for, in ticks
  DefaultTimeout,  \* DefaultTimeout, in ticks
  FreezeDuration,  \* Options.FreezeDuration in ticks; 0: disabled (negative)
  MaxFrozen,       \* Options.MaxFrozen; 0: disabled (negative)
  StoppedGCAfter,  \* Options.StoppedGCAfter in ticks; 0: disabled (negative)
  MaxAge,          \* bound: where age saturates
  Faults,          \* TRUE: any runtime or agent call may fail
  Disconnects,     \* TRUE: a client may hang up, which cancels its context
  MaxCrashes       \* bound: how often the edvabe process dies

ASSUME SandboxAssumption == NoSandbox \notin Sandboxes
ASSUME PolicyAssumption ==
  /\ Timeouts \subseteq Nat
  /\ DefaultTimeout \in Nat \ {0}
  /\ FreezeDuration \in Nat
  /\ MaxFrozen \in Nat
  /\ StoppedGCAfter \in Nat
  /\ MaxAge \in Nat
  /\ FreezeDuration <= MaxAge /\ StoppedGCAfter <= MaxAge
ASSUME EnvironmentAssumption ==
  /\ Faults \in BOOLEAN /\ Disconnects \in BOOLEAN
  /\ MaxCrashes \in Nat
  /\ OnTimeoutModes \subseteq {"kill", "pause"}

VARIABLES
  up,          \* the edvabe process is running and has rehydrated
  crashes,     \* how often it has died
  minted,      \* ids handed out by NewSandboxID
  registry,    \* the keys of Manager.sandboxes
  state,       \* Sandbox.State
  pauseMode,   \* Sandbox.PauseMode, "none" for the empty string
  ttl,         \* Sandbox.ExpiresAt, relative to now
  age,         \* Sandbox.PausedAt, relative to now
  onTimeout,   \* Sandbox.OnTimeout and the label that persists it
  pc,          \* per caller: the next step of its request
  target,      \* per caller: the sandbox its request is about
  live,        \* per caller: its context is not cancelled
  stage,       \* the reaper's position between two calls
  item,        \* the sandbox the reaper is in the middle of
  toKill, toPause, toDemote, toGC,  \* what is left of the reaper's lists
  sweepAge,    \* time since the sweep read the clock
  strays,      \* history: containers edvabe failed to remove or to adopt
  contended,   \* history: ids touched by two actors at once or by a failure
  destroyed    \* history: ids whose Destroy returned nil

objectVars  == <<state, pauseMode, ttl, age, onTimeout>>
processVars == <<up, crashes>>
callerVars  == <<pc, target, live>>
listVars    == <<toKill, toPause, toDemote, toGC>>
reaperVars  == <<stage, item, listVars, sweepAge>>
historyVars == <<strays, contended, destroyed>>

vars == <<runtimeVars, processVars, minted, registry, objectVars, callerVars,
          reaperVars, historyVars>>

CreateSteps == {"containerCreate", "containerStart", "forceRemove",
                "initAgent", "waitReady", "cleanup", "register"}
Steps == CreateSteps \cup
         {"idle", "remove", "unpause", "start", "reinit", "setRunning",
          "pause", "setFrozen", "stopUnpause", "stop", "setStopped"}
Stages == {"next", "setFrozen", "pauseFailed", "fallback", "setDemoted"}

TypeOK ==
  /\ RuntimeTypeOK
  /\ up \in BOOLEAN
  /\ crashes \in 0..MaxCrashes
  /\ minted \subseteq Sandboxes
  /\ registry \subseteq Sandboxes
  /\ state \in [Sandboxes -> {"running", "paused"}]
  /\ pauseMode \in [Sandboxes -> {"none", "frozen", "stopped"}]
  /\ ttl \in [Sandboxes -> Nat]
  /\ age \in [Sandboxes -> 0..MaxAge]
  /\ onTimeout \in [Sandboxes -> {"kill", "pause"}]
  /\ pc \in [Callers -> Steps]
  /\ target \in [Callers -> Sandboxes \cup {NoSandbox}]
  /\ \A c \in Callers : pc[c] = "idle" <=> target[c] = NoSandbox
  /\ live \in [Callers -> BOOLEAN]
  /\ stage \in Stages
  /\ item \in Sandboxes \cup {NoSandbox}
  /\ stage = "next" <=> item = NoSandbox
  /\ toKill \subseteq Sandboxes
  /\ toPause \subseteq Sandboxes
  /\ toDemote \subseteq Sandboxes
  /\ toGC \subseteq Sandboxes
  /\ sweepAge \in 0..MaxAge
  /\ strays \subseteq Sandboxes
  /\ contended \subseteq Sandboxes
  /\ destroyed \subseteq Sandboxes

Init ==
  /\ RuntimeInit
  /\ up = TRUE
  /\ crashes = 0
  /\ minted = {}
  /\ registry = {}
  /\ state = [s \in Sandboxes |-> "running"]
  /\ pauseMode = [s \in Sandboxes |-> "none"]
  /\ ttl = [s \in Sandboxes |-> 0]
  /\ age = [s \in Sandboxes |-> 0]
  /\ onTimeout = [s \in Sandboxes |-> "kill"]
  /\ pc = [c \in Callers |-> "idle"]
  /\ target = [c \in Callers |-> NoSandbox]
  /\ live = [c \in Callers |-> TRUE]
  /\ stage = "next"
  /\ item = NoSandbox
  /\ toKill = {} /\ toPause = {} /\ toDemote = {} /\ toGC = {}
  /\ sweepAge = 0
  /\ strays = {} /\ contended = {} /\ destroyed = {}

(* s is in the hands of a request or of the reaper. *)
Busy(s) ==
  \/ \E c \in Callers : target[c] = s
  \/ item = s
  \/ s \in toKill \cup toPause \cup toDemote \cup toGC

-----------------------------------------------------------------------------
(***************************************************************************)
(* How a request advances.                                                 *)
(***************************************************************************)

(* A request for s starts at step; a request that ends there returns. *)
Begin(c, s, step) ==
  /\ up
  /\ pc[c] = "idle"
  /\ pc' = [pc EXCEPT ![c] = step]
  /\ target' = [target EXCEPT ![c] = IF step = "idle" THEN NoSandbox ELSE s]
  /\ contended' = contended \cup {x \in {s} : Busy(x)}
  /\ UNCHANGED <<live, runtimeVars, processVars, reaperVars, strays, destroyed>>

(* The request of c goes on at step; connected: its client still listens. *)
Continue(c, step, connected) ==
  /\ pc' = [pc EXCEPT ![c] = step]
  /\ target' = [target EXCEPT ![c] = IF step = "idle" THEN NoSandbox ELSE @]
  /\ live' = [live EXCEPT ![c] = connected \/ step = "idle"]

(* A call of the daemon that does what it was asked and says so. *)
CallSucceeds(c, verb, next) ==
  /\ live[c]
  /\ Performs(verb, target[c])
  /\ Continue(c, next, TRUE)
  /\ UNCHANGED contended

(* A call that returns an error: the daemon refuses it, a cancelled context *)
(* keeps it from being sent, or it fails on the way.                        *)
CallRefused(c, verb, next) ==
  /\ \/ ~live[c]
     \/ Faults
     \/ container[target[c]] \notin Admits[verb]
  /\ Continue(c, next, live[c])
  /\ contended' = contended \cup {target[c]}
  /\ UNCHANGED runtimeVars

(* A call that takes effect and returns an error: the answer is lost, or   *)
(* the client hangs up while the daemon is at work.                        *)
CallLost(c, verb, next) ==
  /\ live[c]
  /\ Performs(verb, target[c])
  /\ \E connected \in BOOLEAN :
       /\ IF connected THEN Faults ELSE Disconnects
       /\ Continue(c, next, connected)
  /\ contended' = contended \cup {target[c]}

CallFails(c, verb, next) ==
  CallRefused(c, verb, next) \/ CallLost(c, verb, next)

(* One runtime call of the request of c, at the step named at. *)
Call(c, at, verb, ok, err) ==
  /\ pc[c] = at
  /\ CallSucceeds(c, verb, ok) \/ CallFails(c, verb, err)
  /\ UNCHANGED <<processVars, minted, registry, objectVars, reaperVars, strays,
                 destroyed>>

(* A call after whose failure nobody looks at the container again.  done is *)
(* what destroyed becomes when it succeeds.                                 *)
LastCall(c, at, verb, ok, done) ==
  /\ pc[c] = at
  /\ \/ /\ CallSucceeds(c, verb, ok)
        /\ destroyed' = done
        /\ UNCHANGED strays
     \/ /\ CallFails(c, verb, "idle")
        /\ strays' = strays \cup {s \in {target[c]} : container'[s] # "absent"}
        /\ UNCHANGED destroyed
  /\ UNCHANGED <<processVars, minted, registry, objectVars, reaperVars>>

(* Agent Ping followed by InitAgent. *)
AgentCall(c, at, ok, err) ==
  /\ pc[c] = at
  /\ \/ /\ live[c]
        /\ AgentInitialised(target[c])
        /\ Continue(c, ok, TRUE)
        /\ UNCHANGED contended
     \/ /\ ~live[c] \/ Faults \/ container[target[c]] # "running"
        /\ Continue(c, err, live[c])
        /\ contended' = contended \cup {target[c]}
        /\ UNCHANGED runtimeVars
     \/ /\ live[c]
        /\ AgentInitialised(target[c])
        /\ \E connected \in BOOLEAN :
             /\ IF connected THEN Faults ELSE Disconnects
             /\ Continue(c, err, connected)
        /\ contended' = contended \cup {target[c]}
  /\ UNCHANGED <<processVars, minted, registry, objectVars, reaperVars, strays,
                 destroyed>>

(* A locked section that ends the request of c. *)
Return(c, at) ==
  /\ pc[c] = at
  /\ Continue(c, "idle", TRUE)
  /\ UNCHANGED <<runtimeVars, processVars, reaperVars, historyVars>>

-----------------------------------------------------------------------------
(***************************************************************************)
(* Create.                                                                 *)
(***************************************************************************)

CreateBegin(c) ==
  \E s \in Sandboxes \ minted, mode \in OnTimeoutModes :
    /\ "create" \in Operations
    /\ Begin(c, s, "containerCreate")
    /\ minted' = minted \cup {s}
    /\ onTimeout' = [onTimeout EXCEPT ![s] = mode]
    /\ UNCHANGED <<registry, state, pauseMode, ttl, age>>

ContainerCreate(c) ==
  LastCall(c, "containerCreate", "create", "containerStart", destroyed)

(* ContainerStart and the ContainerInspect that resolves the bridge IP. *)
ContainerStart(c) ==
  Call(c, "containerStart", "start", "initAgent", "forceRemove")

ForceRemove(c) ==
  LastCall(c, "forceRemove", "remove", "idle", destroyed)

InitAgent(c) == AgentCall(c, "initAgent", "waitReady", "cleanup")

(* readyCmd may never exit 0 within the timeout, faults or not. *)
WaitReady(c) ==
  /\ pc[c] = "waitReady"
  /\ \/ live[c] /\ Continue(c, "register", TRUE)
     \/ Continue(c, "cleanup", live[c])
  /\ UNCHANGED <<runtimeVars, processVars, minted, registry, objectVars,
                 reaperVars, historyVars>>

(* Mutant: a failed Create returns without rt.Destroy. *)
CleanupSkipped(c) ==
  /\ Return(c, "cleanup")
  /\ UNCHANGED <<minted, registry, objectVars>>

Cleanup(c) ==
  LastCall(c, "cleanup", "remove", "idle", destroyed)

CreateTimeout(t) == IF t = 0 THEN DefaultTimeout ELSE t

Register(c) ==
  \E t \in Timeouts :
    LET s == target[c]
    IN  /\ Return(c, "register")
        /\ registry' = registry \cup {s}
        /\ state' = [state EXCEPT ![s] = "running"]
        /\ pauseMode' = [pauseMode EXCEPT ![s] = "none"]
        /\ ttl' = [ttl EXCEPT ![s] = CreateTimeout(t)]
        /\ age' = [age EXCEPT ![s] = 0]
        /\ UNCHANGED <<minted, onTimeout>>

-----------------------------------------------------------------------------
(***************************************************************************)
(* Destroy and SetTimeout.                                                 *)
(***************************************************************************)

(* Mutant: the entry stays in the map while the container is removed. *)
DestroyKeepsEntry(c) ==
  \E s \in registry :
    /\ "destroy" \in Operations
    /\ Begin(c, s, "remove")
    /\ UNCHANGED <<minted, registry, objectVars>>

DestroyBegin(c) ==
  \E s \in registry :
    /\ "destroy" \in Operations
    /\ Begin(c, s, "remove")
    /\ registry' = registry \ {s}
    /\ UNCHANGED <<minted, objectVars>>

(* Mutant: the error of rt.Destroy is swallowed. *)
DestroyIgnoresError(c) ==
  /\ pc[c] = "remove"
  /\ CallSucceeds(c, "remove", "idle") \/ CallFails(c, "remove", "idle")
  /\ destroyed' = destroyed \cup {target[c]}
  /\ UNCHANGED <<processVars, minted, registry, objectVars, reaperVars, strays>>

DestroyContainer(c) ==
  LastCall(c, "remove", "remove", "idle", destroyed \cup {target[c]})

(* Mutant: no ErrExpired. *)
NeverExpired(s) == TRUE

(* ErrExpired is for running sandboxes only. *)
NotExpired(s) == state[s] = "paused" \/ ttl[s] > 0

SetTimeout(c) ==
  \E s \in registry, t \in Timeouts :
    /\ "setTimeout" \in Operations
    /\ NotExpired(s)
    /\ Begin(c, s, "idle")
    /\ ttl' = [ttl EXCEPT ![s] = t]
    /\ UNCHANGED <<minted, registry, state, pauseMode, age, onTimeout>>

-----------------------------------------------------------------------------
(***************************************************************************)
(* Connect and Resume.                                                     *)
(***************************************************************************)

(* The branch a resume takes, on State and PauseMode as the lock saw them. *)
ResumeStep(s) ==
  CASE state[s] = "running"    -> "idle"
    [] pauseMode[s] = "stopped" -> "start"
    [] OTHER                    -> "unpause"

ConnectBegin(c) ==
  \E s \in registry, t \in Timeouts :
    /\ "connect" \in Operations
    /\ NotExpired(s)
    /\ Begin(c, s, ResumeStep(s))
    /\ ttl' = [ttl EXCEPT ![s] = t]
    /\ UNCHANGED <<minted, registry, state, pauseMode, age, onTimeout>>

ResumeBegin(c) ==
  \E s \in registry :
    /\ "resume" \in Operations
    /\ state[s] = "paused"
    /\ Begin(c, s, ResumeStep(s))
    /\ UNCHANGED <<minted, registry, objectVars>>

Unpause(c) ==
  Call(c, "unpause", "unpause", "setRunning", "idle")

(* resumeStopped: Start, then Ping and InitAgent. *)
StartAgain(c) ==
  Call(c, "start", "start", "reinit", "idle")

(* Mutant: a resumed container is pinged but not initialised again. *)
PingOnly(c) ==
  /\ pc[c] = "reinit"
  /\ Continue(c, "setRunning", live[c])
  /\ UNCHANGED <<runtimeVars, processVars, minted, registry, objectVars,
                 reaperVars, historyVars>>

Reinit(c) == AgentCall(c, "reinit", "setRunning", "idle")

(* Mutant: the entry is written back into the map. *)
SetRunningReinserts(c) ==
  LET s == target[c]
  IN  /\ Return(c, "setRunning")
      /\ registry' = registry \cup {s}
      /\ state' = [state EXCEPT ![s] = "running"]
      /\ pauseMode' = [pauseMode EXCEPT ![s] = "none"]
      /\ age' = [age EXCEPT ![s] = 0]
      /\ UNCHANGED <<minted, ttl, onTimeout>>

SetRunning(c) ==
  LET s == target[c]
  IN  /\ Return(c, "setRunning")
      /\ state' = [state EXCEPT ![s] = "running"]
      /\ pauseMode' = [pauseMode EXCEPT ![s] = "none"]
      /\ age' = [age EXCEPT ![s] = 0]
      /\ UNCHANGED <<minted, registry, ttl, onTimeout>>

-----------------------------------------------------------------------------
(***************************************************************************)
(* Pause and Stop.                                                         *)
(***************************************************************************)

PauseBegin(c) ==
  \E s \in registry :
    /\ "pause" \in Operations
    /\ state[s] # "paused"
    /\ Begin(c, s, "pause")
    /\ UNCHANGED <<minted, registry, objectVars>>

PauseContainer(c) ==
  Call(c, "pause", "pause", "setFrozen", "idle")

(* The locked section that ends a Pause or a Stop of c. *)
SetPaused(c, at, mode) ==
  LET s == target[c]
  IN  /\ Return(c, at)
      /\ state' = [state EXCEPT ![s] = "paused"]
      /\ pauseMode' = [pauseMode EXCEPT ![s] = mode]
      /\ age' = [age EXCEPT ![s] = 0]
      /\ UNCHANGED <<minted, registry, ttl, onTimeout>>

SetFrozen(c) == SetPaused(c, "setFrozen", "frozen")

StopBegin(c) ==
  \E s \in registry :
    /\ "stop" \in Operations
    /\ ~(state[s] = "paused" /\ pauseMode[s] = "stopped")
    /\ Begin(c, s, IF pauseMode[s] = "frozen" THEN "stopUnpause" ELSE "stop")
    /\ UNCHANGED <<minted, registry, objectVars>>

StopUnpause(c) ==
  Call(c, "stopUnpause", "unpause", "stop", "idle")

StopContainer(c) ==
  Call(c, "stop", "stop", "setStopped", "idle")

SetStopped(c) == SetPaused(c, "setStopped", "stopped")

-----------------------------------------------------------------------------
(***************************************************************************)
(* The reaper: one sweep of EnforceTimeouts after the other.               *)
(***************************************************************************)

(* Mutant: the TTL is applied to paused sandboxes too. *)
ExpiredPausedToo == {s \in registry : ttl[s] = 0}

Expired == {s \in registry : state[s] # "paused" /\ ttl[s] = 0}
Frozen  == {s \in registry : state[s] = "paused" /\ pauseMode[s] = "frozen"}
Stopped == {s \in registry : state[s] = "paused" /\ pauseMode[s] = "stopped"}

Lapsed(S, limit) == {s \in S : limit > 0 /\ age[s] >= limit}

(* Mutant: one sandbox too few is evicted. *)
ExcessOffByOne(excess, young) ==
  /\ excess \subseteq young
  /\ IF MaxFrozen > 0 /\ Cardinality(young) > MaxFrozen
       THEN Cardinality(excess) = Cardinality(young) - MaxFrozen - 1
       ELSE excess = {}
  /\ \A x \in excess, y \in young \ excess : age[x] >= age[y]

(* The frozen sandboxes beyond MaxFrozen, oldest PausedAt first; sort.Slice *)
(* leaves the order of equal ones open.                                     *)
IsExcess(excess, young) ==
  /\ excess \subseteq young
  /\ IF MaxFrozen > 0 /\ Cardinality(young) > MaxFrozen
       THEN Cardinality(excess) = Cardinality(young) - MaxFrozen
       ELSE excess = {}
  /\ \A x \in excess, y \in young \ excess : age[x] >= age[y]

SweepDone ==
  /\ stage = "next"
  /\ toKill = {} /\ toPause = {} /\ toDemote = {} /\ toGC = {}

(* The locked section at the head of a sweep. *)
Collect ==
  /\ up
  /\ SweepDone
  /\ LET aged == Lapsed(Frozen, FreezeDuration)
     IN  \E excess \in SUBSET (Frozen \ aged) :
           /\ IsExcess(excess, Frozen \ aged)
           /\ toDemote' = aged \cup excess
  /\ toPause' = {s \in Expired : onTimeout[s] = "pause"}
  /\ toKill' = Expired \ toPause'
  /\ toGC' = Lapsed(Stopped, StoppedGCAfter)
  /\ registry' = registry \ (toKill' \cup toGC')
  /\ sweepAge' = 0
  /\ contended' = contended \cup
       {s \in toKill' \cup toPause' \cup toDemote' \cup toGC' : Busy(s)}
  /\ UNCHANGED <<runtimeVars, processVars, minted, objectVars, callerVars,
                 stage, item, strays, destroyed>>

(* A runtime call of the reaper for s; its context is never cancelled. *)
SweepSucceeds(s, verb) == Performs(verb, s) /\ UNCHANGED contended

SweepFails(s, verb) ==
  /\ \/ Faults /\ Performs(verb, s)
     \/ /\ Faults \/ container[s] \notin Admits[verb]
        /\ UNCHANGED runtimeVars
  /\ contended' = contended \cup {s}

SweepStage(next, s) == stage' = next /\ item' = s

(* The reaper's rt.Destroy ignores errors. *)
SweepRemove(s) ==
  /\ \/ SweepSucceeds(s, "remove") /\ UNCHANGED strays
     \/ /\ SweepFails(s, "remove")
        /\ strays' = strays \cup {x \in {s} : container'[x] # "absent"}
  /\ UNCHANGED <<processVars, minted, registry, objectVars, callerVars,
                 sweepAge, destroyed>>

SweepKill ==
  \E s \in toKill :
    /\ toKill' = toKill \ {s}
    /\ SweepRemove(s)
    /\ UNCHANGED <<stage, item, toPause, toDemote, toGC>>

SweepPause ==
  \E s \in toPause :
    /\ stage = "next" /\ toKill = {}
    /\ toPause' = toPause \ {s}
    /\ \/ SweepSucceeds(s, "pause") /\ SweepStage("setFrozen", s)
       \/ SweepFails(s, "pause") /\ SweepStage("pauseFailed", s)
    /\ UNCHANGED <<processVars, minted, registry, objectVars, callerVars,
                   toKill, toDemote, toGC, sweepAge, strays, destroyed>>

(* Mutant: the frozen sandbox is dropped like one whose pause has failed. *)
SweepDropsFrozen ==
  /\ stage = "setFrozen"
  /\ registry' = registry \ {item}
  /\ SweepStage("fallback", item)
  /\ UNCHANGED <<runtimeVars, processVars, minted, objectVars, callerVars,
                 listVars, sweepAge, historyVars>>

SweepSetFrozen ==
  /\ stage = "setFrozen"
  /\ state' = [state EXCEPT ![item] = "paused"]
  /\ pauseMode' = [pauseMode EXCEPT ![item] = "frozen"]
  /\ age' = [age EXCEPT ![item] = sweepAge]
  /\ SweepStage("next", NoSandbox)
  /\ UNCHANGED <<runtimeVars, processVars, minted, registry, ttl, onTimeout,
                 callerVars, listVars, sweepAge, historyVars>>

(* Mutant: the container is destroyed under a live entry. *)
SweepKeepsEntry ==
  /\ stage = "pauseFailed"
  /\ SweepStage("fallback", item)
  /\ UNCHANGED <<runtimeVars, processVars, minted, registry, objectVars,
                 callerVars, listVars, sweepAge, historyVars>>

(* Mutant: the entry is dropped and the container forgotten. *)
SweepForgets ==
  /\ stage = "pauseFailed"
  /\ registry' = registry \ {item}
  /\ SweepStage("next", NoSandbox)
  /\ UNCHANGED <<runtimeVars, processVars, minted, objectVars, callerVars,
                 listVars, sweepAge, historyVars>>

(* Pause failed: drop the entry, then destroy the container. *)
SweepDrop ==
  /\ stage = "pauseFailed"
  /\ registry' = registry \ {item}
  /\ SweepStage("fallback", item)
  /\ UNCHANGED <<runtimeVars, processVars, minted, objectVars, callerVars,
                 listVars, sweepAge, historyVars>>

SweepFallback ==
  /\ stage = "fallback"
  /\ SweepRemove(item)
  /\ SweepStage("next", NoSandbox)
  /\ UNCHANGED listVars

SweepDemote ==
  \E s \in toDemote :
    /\ stage = "next" /\ toKill = {} /\ toPause = {}
    /\ toDemote' = toDemote \ {s}
    /\ \/ SweepSucceeds(s, "stop") /\ SweepStage("setDemoted", s)
       \/ SweepFails(s, "stop") /\ UNCHANGED <<stage, item>>
    /\ UNCHANGED <<processVars, minted, registry, objectVars, callerVars,
                   toKill, toPause, toGC, sweepAge, strays, destroyed>>

(* Mutant: a demoted sandbox stays frozen in the registry. *)
SweepKeepsMode ==
  /\ stage = "setDemoted"
  /\ SweepStage("next", NoSandbox)
  /\ UNCHANGED <<runtimeVars, processVars, minted, registry, objectVars,
                 callerVars, listVars, sweepAge, historyVars>>

SweepSetDemoted ==
  /\ stage = "setDemoted"
  /\ pauseMode' = [pauseMode EXCEPT ![item] = "stopped"]
  /\ age' = [age EXCEPT ![item] = sweepAge]
  /\ SweepStage("next", NoSandbox)
  /\ UNCHANGED <<runtimeVars, processVars, minted, registry, state, ttl,
                 onTimeout, callerVars, listVars, sweepAge, historyVars>>

(* Mutant: GC drops the entries and leaves the containers. *)
SweepGCForgets ==
  /\ toGC # {} /\ toKill = {} /\ toPause = {} /\ toDemote = {}
  /\ toGC' = {}
  /\ UNCHANGED <<runtimeVars, processVars, minted, registry, objectVars,
                 callerVars, stage, item, toKill, toPause, toDemote, sweepAge,
                 historyVars>>

SweepGC ==
  \E s \in toGC :
    /\ stage = "next" /\ toKill = {} /\ toPause = {} /\ toDemote = {}
    /\ toGC' = toGC \ {s}
    /\ SweepRemove(s)
    /\ UNCHANGED <<stage, item, toKill, toPause, toDemote>>

-----------------------------------------------------------------------------
(***************************************************************************)
(* The environment: time, clients that hang up, restarts.                  *)
(***************************************************************************)

(* PausedAt is read only while a sandbox is paused, the sweep's clock only *)
(* while there is a sweep.                                                 *)
Tick ==
  /\ ttl' = [s \in Sandboxes |-> IF ttl[s] > 0 THEN ttl[s] - 1 ELSE 0]
  /\ age' = [s \in Sandboxes |->
               IF state[s] = "paused" /\ age[s] < MaxAge THEN age[s] + 1
                                                         ELSE age[s]]
  /\ sweepAge' = IF SweepDone THEN 0
                 ELSE IF sweepAge < MaxAge THEN sweepAge + 1 ELSE sweepAge
  /\ UNCHANGED <<runtimeVars, processVars, minted, registry, state, pauseMode,
                 onTimeout, callerVars, stage, item, listVars, historyVars>>

HangUp(c) ==
  /\ Disconnects
  /\ pc[c] # "idle"
  /\ live[c]
  /\ live' = [live EXCEPT ![c] = FALSE]
  /\ UNCHANGED <<runtimeVars, processVars, minted, registry, objectVars, pc,
                 target, reaperVars, historyVars>>

(* The process dies: memory is lost, containers keep their status. *)
Crash ==
  /\ up
  /\ crashes < MaxCrashes
  /\ up' = FALSE
  /\ crashes' = crashes + 1
  /\ registry' = {}
  /\ state' = [s \in Sandboxes |-> "running"]
  /\ pauseMode' = [s \in Sandboxes |-> "none"]
  /\ ttl' = [s \in Sandboxes |-> 0]
  /\ age' = [s \in Sandboxes |-> 0]
  /\ pc' = [c \in Callers |-> "idle"]
  /\ target' = [c \in Callers |-> NoSandbox]
  /\ live' = [c \in Callers |-> TRUE]
  /\ SweepStage("next", NoSandbox)
  /\ toKill' = {} /\ toPause' = {} /\ toDemote' = {} /\ toGC' = {}
  /\ sweepAge' = 0
  /\ contended' = contended \cup {s \in Sandboxes : Busy(s)}
  /\ UNCHANGED <<runtimeVars, minted, onTimeout, strays, destroyed>>

(* What sandboxFromManaged makes of a container's status. *)
ManagedState(s) == IF container[s] = "running" THEN "running" ELSE "paused"
(* Mutants: the runtime's own word for the status; every paused sandbox is  *)
(* taken for a frozen one.                                                  *)
RawMode(s) == container[s]
AlwaysFrozen(s) == IF container[s] = "running" THEN "none" ELSE "frozen"
ManagedMode(s) ==
  CASE container[s] = "paused" -> "frozen"
    [] container[s] = "exited" -> "stopped"
    [] OTHER                   -> "none"

(* Rehydrate at start-up. An inspect that fails skips one container, a list *)
(* that fails skips them all. A paused sandbox gets ExpiresAt = CreatedAt,  *)
(* which is never after now.                                                *)
Rehydrate ==
  /\ ~up
  /\ up' = TRUE
  /\ \E found \in SUBSET Managed :
       /\ Faults \/ found = Managed
       /\ registry' = found
       /\ state' = [s \in Sandboxes |->
                      IF s \in found THEN ManagedState(s) ELSE state[s]]
       /\ pauseMode' = [s \in Sandboxes |->
                          IF s \in found THEN ManagedMode(s) ELSE pauseMode[s]]
       /\ ttl' = [s \in Sandboxes |->
                    IF s \in found /\ ManagedState(s) = "running"
                      THEN DefaultTimeout ELSE 0]
       /\ strays' = {s \in Sandboxes \ found : container[s] # "absent"}
  /\ UNCHANGED <<runtimeVars, crashes, minted, age, onTimeout, callerVars,
                 reaperVars, contended, destroyed>>

-----------------------------------------------------------------------------
(* The steps that carry a request that has begun to its end. *)
Finish(c) ==
  \/ ContainerCreate(c) \/ ContainerStart(c) \/ ForceRemove(c)
  \/ InitAgent(c) \/ WaitReady(c) \/ Cleanup(c) \/ Register(c)
  \/ DestroyContainer(c)
  \/ Unpause(c) \/ StartAgain(c) \/ Reinit(c) \/ SetRunning(c)
  \/ PauseContainer(c) \/ SetFrozen(c)
  \/ StopUnpause(c) \/ StopContainer(c) \/ SetStopped(c)

Request(c) ==
  \/ CreateBegin(c) \/ DestroyBegin(c) \/ SetTimeout(c)
  \/ ConnectBegin(c) \/ ResumeBegin(c) \/ PauseBegin(c) \/ StopBegin(c)

Sweep ==
  \/ Collect
  \/ SweepKill
  \/ SweepPause \/ SweepSetFrozen \/ SweepDrop \/ SweepFallback
  \/ SweepDemote \/ SweepSetDemoted
  \/ SweepGC

Next ==
  \/ \E c \in Callers : Request(c) \/ Finish(c) \/ HangUp(c)
  \/ Sweep
  \/ Tick
  \/ Crash
  \/ Rehydrate

Spec == Init /\ [][Next]_vars

(* The ticker keeps sweeping, calls return, requests run to their end and a *)
(* process that died is started again; nobody has to send a request.        *)
FairSpec ==
  /\ Spec
  /\ WF_vars(Sweep)
  /\ WF_vars(Tick)
  /\ WF_vars(Rehydrate)
  /\ \A c \in Callers : WF_vars(Finish(c))
=============================================================================
