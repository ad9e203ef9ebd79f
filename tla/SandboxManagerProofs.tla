------------------------ MODULE SandboxManagerProofs ------------------------
(***************************************************************************)
(* Proofs about SandboxManager for every instance: type correctness, and   *)
(* the ownership invariant with what follows from it.                      *)
(***************************************************************************)
EXTENDS SandboxManagerProperties, TLAPS

(* What a verb of the runtime does to types, to the other containers and to *)
(* the existence of its own.                                                *)
LEMMA PerformsEffect ==
  ASSUME RuntimeTypeOK, NEW s \in Sandboxes, NEW verb \in Verbs,
         Performs(verb, s)
  PROVE  /\ RuntimeTypeOK'
         /\ \A x \in Sandboxes : x # s => container'[x] = container[x]
         /\ container'[s] = "absent" <=> verb = "remove"
         /\ container[s] = "absent" <=> verb = "create"
  BY DEF RuntimeTypeOK, Verbs, Performs, Admits, Leaves, ContainerStatus

(* What Continue does to the request of c. *)
LEMMA ContinueEffect ==
  ASSUME TypeOK, NEW c \in Callers, NEW step \in Steps,
         NEW connected \in BOOLEAN, pc[c] # "idle", Continue(c, step, connected)
  PROVE  /\ pc' \in [Callers -> Steps]
         /\ target' \in [Callers -> Sandboxes \cup {NoSandbox}]
         /\ live' \in [Callers -> BOOLEAN]
         /\ \A d \in Callers : pc'[d] = "idle" <=> target'[d] = NoSandbox
         /\ target[c] \in Sandboxes
         /\ pc'[c] = step
         /\ \A d \in Callers : d # c => pc'[d] = pc[d] /\ target'[d] = target[d]
         /\ step # "idle" => target' = target
  BY SandboxAssumption DEF TypeOK, Continue

(* Writing a value of the range into a function. *)
LEMMA ExceptType ==
  ASSUME NEW S, NEW T, NEW f \in [S -> T], NEW s, NEW v \in T
  PROVE  [f EXCEPT ![s] = v] \in [S -> T]
  OBVIOUS

LEMMA ZeroAge == 0 \in 0..MaxAge
  BY PolicyAssumption

(* The tuples of variables, for steps that leave some of them alone. *)
LEMMA StutterType == TypeOK /\ UNCHANGED vars => TypeOK'
  BY DEF TypeOK, RuntimeTypeOK, vars, runtimeVars, processVars, objectVars,
         callerVars, listVars, reaperVars, historyVars

LEMMA BeginType ==
  ASSUME TypeOK, NEW c \in Callers, NEW s \in Sandboxes, NEW step \in Steps,
         Begin(c, s, step),
         minted' \subseteq Sandboxes, registry' \subseteq Sandboxes,
         ttl' \in [Sandboxes -> Nat],
         onTimeout' \in [Sandboxes -> {"kill", "pause"}],
         UNCHANGED <<state, pauseMode, age>>
  PROVE  TypeOK'
  BY SandboxAssumption
     DEF TypeOK, RuntimeTypeOK, Begin, runtimeVars, processVars, listVars,
         reaperVars

(* A step of a request that touches neither the registry nor the reaper. *)
LEMMA CallerStepType ==
  ASSUME TypeOK, NEW c \in Callers, NEW step \in Steps,
         NEW connected \in BOOLEAN, pc[c] # "idle", Continue(c, step, connected),
         RuntimeTypeOK',
         UNCHANGED <<processVars, minted, registry, objectVars, reaperVars>>,
         strays' \subseteq Sandboxes, contended' \subseteq Sandboxes,
         destroyed' \subseteq Sandboxes
  PROVE  TypeOK'
  <1>1. /\ pc' \in [Callers -> Steps]
        /\ target' \in [Callers -> Sandboxes \cup {NoSandbox}]
        /\ live' \in [Callers -> BOOLEAN]
        /\ \A d \in Callers : pc'[d] = "idle" <=> target'[d] = NoSandbox
    BY ContinueEffect
  <1>2. /\ up' = up /\ crashes' = crashes
        /\ minted' = minted /\ registry' = registry
        /\ state' = state /\ pauseMode' = pauseMode /\ ttl' = ttl /\ age' = age
        /\ onTimeout' = onTimeout
        /\ stage' = stage /\ item' = item /\ sweepAge' = sweepAge
        /\ toKill' = toKill /\ toPause' = toPause
        /\ toDemote' = toDemote /\ toGC' = toGC
    BY DEF processVars, objectVars, reaperVars, listVars
  <1> QED
    BY <1>1, <1>2 DEF TypeOK

LEMMA CallType ==
  ASSUME TypeOK, NEW c \in Callers, NEW at \in Steps \ {"idle"},
         NEW verb \in Verbs, NEW ok \in Steps, NEW err \in Steps,
         Call(c, at, verb, ok, err)
  PROVE  TypeOK'
  <1> DEFINE s == target[c]
  <1>1. s \in Sandboxes
    BY DEF TypeOK, Call
  <1>2. CASE CallSucceeds(c, verb, ok)
    BY <1>1, <1>2, PerformsEffect, ContinueEffect
       DEF TypeOK, Call, CallSucceeds, processVars, objectVars, listVars, reaperVars
  <1>3. CASE CallRefused(c, verb, err)
    BY <1>1, <1>3, ContinueEffect
       DEF TypeOK, RuntimeTypeOK, Call, CallRefused, runtimeVars, processVars,
           objectVars, listVars, reaperVars
  <1>4. CASE CallLost(c, verb, err)
    BY <1>1, <1>4, PerformsEffect, ContinueEffect
       DEF TypeOK, Call, CallLost, processVars, objectVars, listVars, reaperVars
  <1> QED
    BY <1>2, <1>3, <1>4 DEF Call, CallFails

LEMMA LastCallType ==
  ASSUME TypeOK, NEW c \in Callers, NEW at \in Steps \ {"idle"},
         NEW verb \in Verbs, NEW ok \in Steps, NEW done \in SUBSET Sandboxes,
         LastCall(c, at, verb, ok, done)
  PROVE  TypeOK'
  <1>1. target[c] \in Sandboxes
    BY DEF TypeOK, LastCall
  <1>2. /\ UNCHANGED <<processVars, minted, registry, objectVars, reaperVars>>
        /\ strays' \subseteq Sandboxes
        /\ destroyed' \subseteq Sandboxes
    BY <1>1 DEF LastCall, TypeOK
  <1>3. /\ pc[c] # "idle" /\ "idle" \in Steps
        /\ live[c] \in BOOLEAN
    BY DEF LastCall, TypeOK, Steps
  <1>4. \E step \in Steps, connected \in BOOLEAN : Continue(c, step, connected)
    BY <1>3 DEF LastCall, CallFails, CallSucceeds, CallRefused, CallLost
  <1>5. \/ Performs(verb, target[c])
        \/ UNCHANGED runtimeVars
    BY DEF LastCall, CallFails, CallSucceeds, CallRefused, CallLost
  <1>6. RuntimeTypeOK'
    BY <1>1, <1>5, PerformsEffect DEF TypeOK, RuntimeTypeOK, runtimeVars
  <1>7. contended' \subseteq Sandboxes
    <2>1. \/ contended' = contended
          \/ contended' = contended \cup {target[c]}
      BY DEF LastCall, CallFails, CallSucceeds, CallRefused, CallLost
    <2>2. contended \subseteq Sandboxes
      BY DEF TypeOK
    <2> QED
      BY <1>1, <2>1, <2>2
  <1> QED
    BY <1>2, <1>3, <1>4, <1>6, <1>7, CallerStepType

LEMMA AgentCallType ==
  ASSUME TypeOK, NEW c \in Callers, NEW at \in Steps \ {"idle"},
         NEW ok \in Steps, NEW err \in Steps,
         AgentCall(c, at, ok, err)
  PROVE  TypeOK'
  <1>1. pc[c] # "idle" /\ target[c] \in Sandboxes
    BY DEF TypeOK, AgentCall
  <1>2. RuntimeTypeOK'
    BY <1>1 DEF TypeOK, RuntimeTypeOK, AgentCall, AgentInitialised, runtimeVars
  <1>3. \E step \in Steps, connected \in BOOLEAN : Continue(c, step, connected)
    BY DEF AgentCall, TypeOK
  <1>4. contended' \subseteq Sandboxes
    <2>1. \/ contended' = contended
          \/ contended' = contended \cup {target[c]}
      BY DEF AgentCall
    <2>2. contended \subseteq Sandboxes
      BY DEF TypeOK
    <2> QED
      BY <1>1, <2>1, <2>2
  <1>5. /\ UNCHANGED <<processVars, minted, registry, objectVars, reaperVars>>
        /\ strays' \subseteq Sandboxes /\ destroyed' \subseteq Sandboxes
    BY DEF AgentCall, TypeOK
  <1> QED
    BY <1>1, <1>2, <1>3, <1>4, <1>5, CallerStepType

LEMMA ReturnType ==
  ASSUME TypeOK, NEW c \in Callers, NEW at \in Steps \ {"idle"}, Return(c, at),
         registry' \subseteq Sandboxes, UNCHANGED <<minted, onTimeout>>,
         state' \in [Sandboxes -> {"running", "paused"}],
         pauseMode' \in [Sandboxes -> {"none", "frozen", "stopped"}],
         ttl' \in [Sandboxes -> Nat],
         age' \in [Sandboxes -> 0..MaxAge]
  PROVE  TypeOK'
  <1>1. Continue(c, "idle", TRUE) /\ pc[c] # "idle"
    BY DEF Return, TypeOK
  <1> QED
    BY <1>1, ContinueEffect
       DEF TypeOK, RuntimeTypeOK, Return, runtimeVars, processVars, listVars,
           reaperVars, historyVars, Steps

LEMMA SweepCallType ==
  ASSUME TypeOK, NEW s \in Sandboxes, NEW verb \in Verbs,
         SweepSucceeds(s, verb) \/ SweepFails(s, verb)
  PROVE  RuntimeTypeOK' /\ contended' \subseteq Sandboxes
  BY PerformsEffect
     DEF TypeOK, RuntimeTypeOK, SweepSucceeds, SweepFails, runtimeVars

LEMMA SweepRemoveType ==
  ASSUME TypeOK, NEW s \in Sandboxes, SweepRemove(s)
  PROVE  /\ RuntimeTypeOK' /\ contended' \subseteq Sandboxes
         /\ strays' \subseteq Sandboxes
         /\ UNCHANGED <<processVars, minted, registry, objectVars, callerVars,
                        sweepAge, destroyed>>
  BY SweepCallType DEF SweepRemove, Verbs, Admits, TypeOK

LEMMA TypeInit == Init => TypeOK
  BY PolicyAssumption, EnvironmentAssumption, SandboxAssumption
     DEF Init, RuntimeInit, TypeOK, RuntimeTypeOK, ContainerStatus, Steps,
         CreateSteps, Stages

LEMMA TypeStep == TypeOK /\ [Next]_vars => TypeOK'
  <1> SUFFICES ASSUME TypeOK, [Next]_vars
               PROVE  TypeOK'
    OBVIOUS
  <1>1. CASE UNCHANGED vars
    BY <1>1, StutterType
  <1>2. ASSUME NEW c \in Callers, Request(c)
        PROVE  TypeOK'
    <2>1. CASE CreateBegin(c)
      <3>1. PICK s \in Sandboxes \ minted, mode \in OnTimeoutModes :
              /\ Begin(c, s, "containerCreate")
              /\ minted' = minted \cup {s}
              /\ onTimeout' = [onTimeout EXCEPT ![s] = mode]
              /\ UNCHANGED <<registry, state, pauseMode, ttl, age>>
        BY <2>1 DEF CreateBegin
      <3>2. mode \in {"kill", "pause"}
        BY EnvironmentAssumption
      <3>3. onTimeout' \in [Sandboxes -> {"kill", "pause"}]
        BY <3>1, <3>2, ExceptType DEF TypeOK
      <3>4. minted' \subseteq Sandboxes /\ registry' \subseteq Sandboxes
        BY <3>1 DEF TypeOK
      <3>5. ttl' \in [Sandboxes -> Nat] /\ UNCHANGED <<state, pauseMode, age>>
        BY <3>1 DEF TypeOK
      <3>6. s \in Sandboxes /\ "containerCreate" \in Steps
        BY DEF Steps, CreateSteps
      <3> QED
        BY <3>1, <3>3, <3>4, <3>5, <3>6, BeginType
    <2>2. CASE DestroyBegin(c)
      BY <2>2, BeginType DEF DestroyBegin, TypeOK, Steps, objectVars
    <2>3. CASE SetTimeout(c)
      BY <2>3, BeginType, PolicyAssumption DEF SetTimeout, TypeOK, Steps
    <2>4. CASE ConnectBegin(c)
      BY <2>4, BeginType, PolicyAssumption
         DEF ConnectBegin, ResumeStep, TypeOK, Steps
    <2>5. CASE ResumeBegin(c)
      BY <2>5, BeginType DEF ResumeBegin, ResumeStep, TypeOK, Steps, objectVars
    <2>6. CASE PauseBegin(c)
      BY <2>6, BeginType DEF PauseBegin, TypeOK, Steps, objectVars
    <2>7. CASE StopBegin(c)
      BY <2>7, BeginType DEF StopBegin, TypeOK, Steps, objectVars
    <2> QED
      BY <1>2, <2>1, <2>2, <2>3, <2>4, <2>5, <2>6, <2>7 DEF Request
  <1>3. ASSUME NEW c \in Callers, Finish(c)
        PROVE  TypeOK'
    <2> USE DEF Steps, CreateSteps, Verbs, Admits
    <2>1. CASE ContainerCreate(c)
      BY <2>1, LastCallType DEF ContainerCreate, TypeOK
    <2>2. CASE ContainerStart(c)
      BY <2>2, CallType DEF ContainerStart
    <2>3. CASE ForceRemove(c)
      BY <2>3, LastCallType DEF ForceRemove, TypeOK
    <2>4. CASE InitAgent(c)
      BY <2>4, AgentCallType DEF InitAgent
    <2>5. CASE WaitReady(c)
      <3>1. /\ pc[c] # "idle"
            /\ \E step \in Steps, connected \in BOOLEAN :
                 Continue(c, step, connected)
        BY <2>5 DEF WaitReady, TypeOK
      <3>2. RuntimeTypeOK'
        BY <2>5 DEF WaitReady, TypeOK, RuntimeTypeOK, runtimeVars
      <3>3. /\ UNCHANGED <<processVars, minted, registry, objectVars, reaperVars>>
            /\ strays' \subseteq Sandboxes /\ contended' \subseteq Sandboxes
            /\ destroyed' \subseteq Sandboxes
        BY <2>5 DEF WaitReady, TypeOK, historyVars
      <3> QED
        BY <3>1, <3>2, <3>3, CallerStepType
    <2>6. CASE Cleanup(c)
      BY <2>6, LastCallType DEF Cleanup, TypeOK
    <2>7. CASE Register(c)
      <3>1. PICK t \in Timeouts :
              /\ Return(c, "register")
              /\ registry' = registry \cup {target[c]}
              /\ state' = [state EXCEPT ![target[c]] = "running"]
              /\ pauseMode' = [pauseMode EXCEPT ![target[c]] = "none"]
              /\ ttl' = [ttl EXCEPT ![target[c]] = CreateTimeout(t)]
              /\ age' = [age EXCEPT ![target[c]] = 0]
              /\ UNCHANGED <<minted, onTimeout>>
        BY <2>7 DEF Register
      <3>2. registry' \subseteq Sandboxes
        BY <3>1 DEF Return, TypeOK
      <3>3. CreateTimeout(t) \in Nat
        BY PolicyAssumption DEF CreateTimeout
      <3>4. /\ state' \in [Sandboxes -> {"running", "paused"}]
            /\ pauseMode' \in [Sandboxes -> {"none", "frozen", "stopped"}]
            /\ ttl' \in [Sandboxes -> Nat]
            /\ age' \in [Sandboxes -> 0..MaxAge]
        BY <3>1, <3>3, ZeroAge, ExceptType DEF TypeOK
      <3> QED
        BY <3>1, <3>2, <3>4, ReturnType
    <2>8. CASE DestroyContainer(c)
      <3>1. target[c] \in Sandboxes
        BY <2>8 DEF DestroyContainer, LastCall, TypeOK
      <3>2. destroyed \cup {target[c]} \in SUBSET Sandboxes
        BY <3>1 DEF TypeOK
      <3> QED
        BY <2>8, <3>2, LastCallType DEF DestroyContainer
    <2>9. CASE Unpause(c)
      BY <2>9, CallType DEF Unpause
    <2>10. CASE StartAgain(c)
      BY <2>10, CallType DEF StartAgain
    <2>11. CASE Reinit(c)
      BY <2>11, AgentCallType DEF Reinit
    <2>12. CASE SetRunning(c)
      <3>1. /\ Return(c, "setRunning")
            /\ UNCHANGED <<minted, onTimeout, registry>>
        BY <2>12 DEF SetRunning
      <3>2. /\ state' \in [Sandboxes -> {"running", "paused"}]
            /\ pauseMode' \in [Sandboxes -> {"none", "frozen", "stopped"}]
            /\ ttl' \in [Sandboxes -> Nat]
            /\ age' \in [Sandboxes -> 0..MaxAge]
        BY <2>12, ZeroAge, ExceptType DEF SetRunning, TypeOK
      <3> QED
        BY <3>1, <3>2, ReturnType DEF TypeOK
    <2>13. CASE PauseContainer(c)
      BY <2>13, CallType DEF PauseContainer
    <2>14. CASE SetFrozen(c)
      <3>1. /\ Return(c, "setFrozen")
            /\ UNCHANGED <<minted, onTimeout, registry>>
        BY <2>14 DEF SetFrozen, SetPaused
      <3>2. /\ state' \in [Sandboxes -> {"running", "paused"}]
            /\ pauseMode' \in [Sandboxes -> {"none", "frozen", "stopped"}]
            /\ ttl' \in [Sandboxes -> Nat]
            /\ age' \in [Sandboxes -> 0..MaxAge]
        BY <2>14, ZeroAge, ExceptType DEF SetFrozen, SetPaused, TypeOK
      <3> QED
        BY <3>1, <3>2, ReturnType DEF TypeOK
    <2>15. CASE StopUnpause(c)
      BY <2>15, CallType DEF StopUnpause
    <2>16. CASE StopContainer(c)
      BY <2>16, CallType DEF StopContainer
    <2>17. CASE SetStopped(c)
      <3>1. /\ Return(c, "setStopped")
            /\ UNCHANGED <<minted, onTimeout, registry>>
        BY <2>17 DEF SetStopped, SetPaused
      <3>2. /\ state' \in [Sandboxes -> {"running", "paused"}]
            /\ pauseMode' \in [Sandboxes -> {"none", "frozen", "stopped"}]
            /\ ttl' \in [Sandboxes -> Nat]
            /\ age' \in [Sandboxes -> 0..MaxAge]
        BY <2>17, ZeroAge, ExceptType DEF SetStopped, SetPaused, TypeOK
      <3> QED
        BY <3>1, <3>2, ReturnType DEF TypeOK
    <2> QED
      BY <1>3, <2>1, <2>2, <2>3, <2>4, <2>5, <2>6, <2>7, <2>8, <2>9, <2>10,
         <2>11, <2>12, <2>13, <2>14, <2>15, <2>16, <2>17 DEF Finish
  <1>4. ASSUME NEW c \in Callers, HangUp(c)
        PROVE  TypeOK'
    BY <1>4 DEF HangUp, TypeOK, RuntimeTypeOK, runtimeVars, processVars,
                objectVars, listVars, reaperVars, historyVars
  <1>5. CASE Sweep
    <2>1. CASE Collect
      BY <2>1, PolicyAssumption
         DEF Collect, Expired, Frozen, Stopped, Lapsed, TypeOK, RuntimeTypeOK,
             runtimeVars, processVars, objectVars, callerVars
    <2>2. CASE SweepKill
      BY <2>2, SweepRemoveType
         DEF SweepKill, TypeOK, processVars, objectVars, callerVars
    <2>3. CASE SweepPause
      BY <2>3, SweepCallType, SandboxAssumption
         DEF SweepPause, SweepStage, TypeOK, Verbs, Admits, Stages, processVars,
             objectVars, callerVars
    <2>4. CASE SweepSetFrozen
      BY <2>4 DEF SweepSetFrozen, SweepStage, TypeOK, RuntimeTypeOK, Stages,
                  runtimeVars, processVars, callerVars, listVars, historyVars
    <2>5. CASE SweepDrop
      BY <2>5 DEF SweepDrop, SweepStage, TypeOK, RuntimeTypeOK, Stages,
                  runtimeVars, processVars, objectVars, callerVars, listVars,
                  historyVars
    <2>6. CASE SweepFallback
      BY <2>6, SweepRemoveType
         DEF SweepFallback, SweepStage, TypeOK, Stages, processVars, objectVars,
             callerVars, listVars
    <2>7. CASE SweepDemote
      BY <2>7, SweepCallType, SandboxAssumption
         DEF SweepDemote, SweepStage, TypeOK, Verbs, Admits, Stages, processVars,
             objectVars, callerVars
    <2>8. CASE SweepSetDemoted
      BY <2>8 DEF SweepSetDemoted, SweepStage, TypeOK, RuntimeTypeOK, Stages,
                  runtimeVars, processVars, callerVars, listVars, historyVars
    <2>9. CASE SweepGC
      BY <2>9, SweepRemoveType
         DEF SweepGC, TypeOK, processVars, objectVars, callerVars
    <2> QED
      BY <1>5, <2>1, <2>2, <2>3, <2>4, <2>5, <2>6, <2>7, <2>8, <2>9 DEF Sweep
  <1>6. CASE Tick
    BY <1>6, PolicyAssumption
       DEF Tick, TypeOK, RuntimeTypeOK, runtimeVars, processVars, callerVars,
           listVars, historyVars
  <1>7. CASE Crash
    <2>1. crashes' \in 0..MaxCrashes
      BY <1>7, EnvironmentAssumption DEF Crash, TypeOK
    <2>2. RuntimeTypeOK' /\ contended' \subseteq Sandboxes
      BY <1>7 DEF Crash, TypeOK, RuntimeTypeOK, runtimeVars
    <2>3. /\ registry' = {} /\ up' = FALSE
          /\ UNCHANGED <<minted, onTimeout, strays, destroyed>>
          /\ toKill' = {} /\ toPause' = {} /\ toDemote' = {} /\ toGC' = {}
          /\ stage' = "next" /\ item' = NoSandbox
      BY <1>7 DEF Crash, SweepStage
    <2>4. /\ state' \in [Sandboxes -> {"running", "paused"}]
          /\ pauseMode' \in [Sandboxes -> {"none", "frozen", "stopped"}]
          /\ ttl' \in [Sandboxes -> Nat]
          /\ age' \in [Sandboxes -> 0..MaxAge]
          /\ sweepAge' \in 0..MaxAge
      BY <1>7, PolicyAssumption DEF Crash
    <2>5. /\ pc' \in [Callers -> Steps]
          /\ target' \in [Callers -> Sandboxes \cup {NoSandbox}]
          /\ \A c \in Callers : pc'[c] = "idle" /\ target'[c] = NoSandbox
          /\ live' \in [Callers -> BOOLEAN]
      BY <1>7 DEF Crash, Steps
    <2> QED
      BY <2>1, <2>2, <2>3, <2>4, <2>5 DEF TypeOK, Stages
  <1>8. CASE Rehydrate
    BY <1>8, PolicyAssumption
       DEF Rehydrate, Managed, ManagedState, ManagedMode, TypeOK, RuntimeTypeOK,
           runtimeVars, callerVars, listVars, reaperVars
  <1> QED
    BY <1>1, <1>2, <1>3, <1>4, <1>5, <1>6, <1>7, <1>8 DEF Next

(* No step gives a variable a value its field in the code cannot hold: the  *)
(* State and PauseMode of an entry, the program counters of requests and    *)
(* reaper, the lists of a sweep.                                            *)
THEOREM TypeCorrect == Spec => []TypeOK
  BY TypeInit, TypeStep, PTL DEF Spec

-----------------------------------------------------------------------------
(***************************************************************************)
(* Ownership is an inductive invariant, and the safety properties it       *)
(* contains hold of every instance.                                        *)
(*                                                                         *)
(* The steps fall into five classes, each with a lemma that says which of  *)
(* its effects keep Ownership: a request begins (BeginOwnership), a request *)
(* advances (AdvanceOwnership), an id is handed out, a sandbox is           *)
(* registered, and the reaper takes a step (SweepOwnership).               *)
(***************************************************************************)

(* Nothing Ownership speaks of changes, apart from a container's status. *)
LEMMA QuietOwnership ==
  ASSUME TypeOK, Ownership,
         UNCHANGED <<up, minted, registry, pc, target, stage, item, listVars,
                     strays, destroyed>>,
         \A x \in Sandboxes : container'[x] = "absent" <=> container[x] = "absent"
  PROVE  Ownership'
  <1> USE DEF Ownership, TypeOK, listVars
  <1>1. OnlyMinted' /\ DownIsIdle'
    BY DEF OnlyMinted, DownIsIdle, SweepDone, Listed
  <1>2. CreatorIsAlone' /\ RemoversUnregister'
    BY DEF CreatorIsAlone, RemoversUnregister, Listed
  <1>3. CreatorHasContainer'
    BY SandboxAssumption DEF CreatorHasContainer
  <1>4. RegisteredHasContainer' /\ DestroyIsFinal'
    BY DEF RegisteredHasContainer, DestroyIsFinal
  <1>5. Accounted'
    BY DEF Accounted, InHand
  <1> QED
    BY <1>1, <1>2, <1>3, <1>4, <1>5

(* A request for a registered sandbox begins; a Destroy takes the entry. *)
LEMMA BeginOwnership ==
  ASSUME TypeOK, Ownership,
         NEW c \in Callers, NEW s \in registry, NEW step \in Steps \ CreateSteps,
         Begin(c, s, step), UNCHANGED minted,
         registry' = IF step = "remove" THEN registry \ {s} ELSE registry
  PROVE  Ownership'
  <1> USE DEF Ownership, TypeOK
  <1>1. /\ up /\ UNCHANGED <<up, container, stage, item, listVars, strays, destroyed>>
        /\ pc[c] = "idle"
        /\ pc' = [pc EXCEPT ![c] = step]
        /\ target' = [target EXCEPT ![c] = IF step = "idle" THEN NoSandbox ELSE s]
        /\ s \in Sandboxes
    BY DEF Begin, runtimeVars, processVars, reaperVars
  <1> USE <1>1 DEF listVars
  <1>2. OnlyMinted'
    BY DEF OnlyMinted, Listed
  <1>3. CreatorIsAlone'
    BY SandboxAssumption DEF CreatorIsAlone, Listed, CreateSteps
  <1>4. RemoversUnregister' /\ CreatorHasContainer' /\ DownIsIdle'
    BY DEF RemoversUnregister, CreatorHasContainer, DownIsIdle, CreateSteps
  <1>5. RegisteredHasContainer' /\ DestroyIsFinal'
    BY DEF RegisteredHasContainer, DestroyIsFinal
  <1>6. Accounted'
    BY DEF Accounted, InHand, CreateSteps
  <1> QED
    BY <1>2, <1>3, <1>4, <1>5, <1>6

(* A request that has begun goes on at step. Only its own container can     *)
(* come or go: it comes at ContainerCreate and goes in a removal.          *)
LEMMA AdvanceOwnership ==
  ASSUME TypeOK, Ownership,
         NEW c \in Callers, NEW step \in Steps \ {"remove"}, pc[c] # "idle",
         pc' = [pc EXCEPT ![c] = step],
         target' = [target EXCEPT ![c] = IF step = "idle" THEN NoSandbox ELSE @],
         UNCHANGED <<up, minted, registry, stage, item, listVars>>,
         strays \subseteq strays',
         \A x \in Sandboxes : x # target[c] => container'[x] = container[x],
         container[target[c]] = "absent" /\ container'[target[c]] # "absent"
           => pc[c] = "containerCreate",
         container[target[c]] # "absent" /\ container'[target[c]] = "absent"
           => pc[c] \in {"forceRemove", "cleanup", "remove"},
         step \in CreateSteps => pc[c] \in CreateSteps,
         step \in {"initAgent", "waitReady", "register"}
           => container'[target[c]] # "absent",
         pc[c] \in CreateSteps \cup {"remove"} /\ step \notin CreateSteps
           => container'[target[c]] = "absent" \/ target[c] \in strays',
         \/ destroyed' = destroyed
         \/ /\ destroyed' = destroyed \cup {target[c]}
            /\ pc[c] = "remove" /\ container'[target[c]] = "absent"
  PROVE  Ownership'
  <1> DEFINE t == target[c]
  <1> USE DEF Ownership, TypeOK, listVars
  <1>1. up /\ t \in Sandboxes /\ t \in minted
    BY DEF DownIsIdle, OnlyMinted
  <1>2. \A d \in Callers : d # c => pc'[d] = pc[d] /\ target'[d] = target[d]
    OBVIOUS
  <1>3. /\ pc'[c] = step
        /\ step # "idle" => target'[c] = t
        /\ step = "idle" => target'[c] = NoSandbox
    OBVIOUS
  <1>4. pc[c] \in CreateSteps => t \notin registry \cup destroyed \cup Listed
    BY DEF CreatorIsAlone
  <1>5. pc[c] = "remove" =>
          t \notin registry /\ \A d \in Callers : pc[d] \in CreateSteps => target[d] # t
    BY DEF CreatorIsAlone, RemoversUnregister, CreateSteps
  <1>6. OnlyMinted'
    BY <1>1, <1>2, <1>3 DEF OnlyMinted, Listed
  <1>7. CreatorIsAlone'
    <2> SUFFICES ASSUME NEW d \in Callers, pc'[d] \in CreateSteps
                 PROVE  /\ target'[d] \notin (registry \cup destroyed \cup Listed)'
                        /\ \A e \in Callers : target'[e] = target'[d] => e = d
      BY DEF CreatorIsAlone
    <2>1. pc[d] \in CreateSteps /\ target'[d] = target[d] /\ target[d] # NoSandbox
      BY <1>2, <1>3, SandboxAssumption DEF CreateSteps
    <2>2. /\ target[d] \notin registry \cup destroyed \cup Listed
          /\ \A e \in Callers : target[e] = target[d] => e = d
      BY <2>1 DEF CreatorIsAlone
    <2>3. destroyed' = destroyed \/ target[d] # t
      BY <2>1, <1>5
    <2> QED
      BY <2>1, <2>2, <2>3, <1>2, <1>3 DEF Listed
  <1>8. RemoversUnregister'
    BY <1>2, <1>3 DEF RemoversUnregister
  <1>9. CreatorHasContainer'
    <2> SUFFICES ASSUME NEW d \in Callers,
                        pc'[d] \in {"initAgent", "waitReady", "register"}, d # c
                 PROVE  container'[target'[d]] # "absent"
      BY <1>3 DEF CreatorHasContainer
    <2>1. /\ pc[d] = pc'[d] /\ target'[d] = target[d]
          /\ container[target[d]] # "absent" /\ target[d] \in Sandboxes
      BY <1>2 DEF CreatorHasContainer
    <2>2. target[d] # t
      BY <2>1 DEF CreatorIsAlone, CreateSteps
    <2> QED
      BY <2>1, <2>2
  <1>10. DownIsIdle'
    BY <1>1 DEF DownIsIdle
  <1>11. RegisteredHasContainer'
    BY <1>4, <1>5 DEF RegisteredHasContainer, CreateSteps
  <1>12. DestroyIsFinal'
    BY <1>4, <1>5 DEF DestroyIsFinal, CreateSteps
  <1>13. Accounted'
    <2> SUFFICES ASSUME NEW s \in Sandboxes, container'[s] # "absent",
                        s \notin registry, s \notin strays'
                 PROVE  InHand(s)'
      BY DEF Accounted
    <2>1. CASE s = t /\ pc[c] \in CreateSteps \cup {"remove"}
      BY <2>1, <1>3 DEF InHand, CreateSteps
    <2>2. CASE s # t \/ pc[c] \notin CreateSteps \cup {"remove"}
      <3>1. container[s] # "absent"
        BY <2>2 DEF CreateSteps
      <3>2. InHand(s)
        BY <3>1, <1>1 DEF Accounted
      <3> QED
        BY <3>2, <2>2, <1>2 DEF InHand
    <2> QED
      BY <2>1, <2>2
  <1> QED
    BY <1>6, <1>7, <1>8, <1>9, <1>10, <1>11, <1>12, <1>13

(* Create hands out an id and starts. *)
LEMMA FreshOwnership ==
  ASSUME TypeOK, Ownership, NEW c \in Callers, CreateBegin(c)
  PROVE  Ownership'
  <1> USE DEF Ownership, TypeOK
  <1>1. PICK s \in Sandboxes \ minted :
          /\ Begin(c, s, "containerCreate")
          /\ minted' = minted \cup {s}
          /\ registry' = registry
    BY DEF CreateBegin
  <1>2. /\ up /\ UNCHANGED <<up, container, stage, item, listVars, strays, destroyed>>
        /\ pc[c] = "idle"
        /\ pc' = [pc EXCEPT ![c] = "containerCreate"]
        /\ target' = [target EXCEPT ![c] = s]
    BY <1>1 DEF Begin, runtimeVars, processVars, reaperVars
  <1> USE <1>1, <1>2 DEF listVars
  <1>3. /\ s \notin registry \cup destroyed \cup Listed
        /\ \A d \in Callers : target[d] # s
    BY SandboxAssumption DEF OnlyMinted
  <1>4. OnlyMinted'
    BY DEF OnlyMinted, Listed
  <1>5. CreatorIsAlone'
    BY <1>3, SandboxAssumption DEF CreatorIsAlone, Listed, CreateSteps
  <1>6. RemoversUnregister' /\ CreatorHasContainer' /\ DownIsIdle'
    BY DEF RemoversUnregister, CreatorHasContainer, DownIsIdle, CreateSteps
  <1>7. RegisteredHasContainer' /\ DestroyIsFinal'
    BY DEF RegisteredHasContainer, DestroyIsFinal
  <1>8. Accounted'
    BY DEF Accounted, InHand, CreateSteps
  <1> QED
    BY <1>4, <1>5, <1>6, <1>7, <1>8

(* Create ends by registering what it has booted. *)
LEMMA RegisterOwnership ==
  ASSUME TypeOK, Ownership, NEW c \in Callers, Register(c)
  PROVE  Ownership'
  <1> USE DEF Ownership, TypeOK
  <1> DEFINE t == target[c]
  <1>1. /\ pc[c] = "register"
        /\ pc' = [pc EXCEPT ![c] = "idle"]
        /\ target' = [target EXCEPT ![c] = NoSandbox]
        /\ registry' = registry \cup {t}
        /\ UNCHANGED <<up, container, minted, stage, item, listVars, strays, destroyed>>
    BY DEF Register, Return, Continue, runtimeVars, processVars, reaperVars,
           historyVars
  <1>2. /\ t \in Sandboxes /\ t \in minted /\ up /\ container[t] # "absent"
        /\ t \notin registry \cup destroyed \cup Listed
        /\ \A d \in Callers : target[d] = t => d = c
    BY <1>1, SandboxAssumption
       DEF OnlyMinted, DownIsIdle, CreatorIsAlone, CreatorHasContainer, CreateSteps
  <1> USE <1>1, <1>2 DEF listVars
  <1>3. OnlyMinted'
    BY DEF OnlyMinted, Listed
  <1>4. CreatorIsAlone'
    BY SandboxAssumption DEF CreatorIsAlone, Listed, CreateSteps
  <1>5. RemoversUnregister' /\ CreatorHasContainer' /\ DownIsIdle'
    BY SandboxAssumption
       DEF RemoversUnregister, CreatorHasContainer, DownIsIdle, Listed
  <1>6. RegisteredHasContainer' /\ DestroyIsFinal'
    BY DEF RegisteredHasContainer, DestroyIsFinal
  <1>7. Accounted'
    BY DEF Accounted, InHand
  <1> QED
    BY <1>3, <1>4, <1>5, <1>6, <1>7

(* The reaper takes a step. What it lists was registered or listed, only   *)
(* what it has listed and nobody can find any more loses its container, and *)
(* what it lets go of stays accounted for.                                 *)
LEMMA SweepOwnership ==
  ASSUME TypeOK, Ownership, up,
         UNCHANGED <<up, minted, pc, target, destroyed>>,
         Listed' \subseteq Listed \cup registry \cup {NoSandbox},
         registry' \subseteq registry, strays \subseteq strays',
         registry' \cap (toKill' \cup toGC') = {},
         stage' = "fallback" => item' \notin registry',
         \A x \in Sandboxes :
           /\ container'[x] # "absent" => container[x] # "absent"
           /\ container[x] # "absent" /\ container'[x] = "absent"
                => x \in Listed \ registry'
           /\ /\ container'[x] # "absent"
              /\ \/ x \in registry \cup toKill \cup toGC
                 \/ stage = "fallback" /\ item = x
              => \/ x \in registry' \cup toKill' \cup toGC' \cup strays'
                 \/ stage' = "fallback" /\ item' = x
  PROVE  Ownership'
  <1> USE DEF Ownership
  <1>1. OnlyMinted'
    BY DEF OnlyMinted
  <1>2. CreatorIsAlone'
    <2> SUFFICES ASSUME NEW c \in Callers, pc[c] \in CreateSteps
                 PROVE  /\ target[c] \notin (registry \cup destroyed \cup Listed)'
                        /\ \A d \in Callers : target[d] = target[c] => d = c
      BY DEF CreatorIsAlone
    <2>1. target[c] # NoSandbox
      BY DEF TypeOK, CreateSteps
    <2> QED
      BY <2>1 DEF CreatorIsAlone
  <1>3. RemoversUnregister' /\ DownIsIdle'
    BY DEF RemoversUnregister, DownIsIdle
  <1>4. CreatorHasContainer'
    <2> SUFFICES ASSUME NEW c \in Callers, pc[c] \in {"initAgent", "waitReady", "register"}
                 PROVE  container'[target[c]] # "absent"
      BY DEF CreatorHasContainer
    <2>1. target[c] \in Sandboxes /\ target[c] \notin Listed
      BY DEF TypeOK, CreatorIsAlone, CreateSteps
    <2> QED
      BY <2>1 DEF CreatorHasContainer
  <1>5. RegisteredHasContainer'
    BY DEF RegisteredHasContainer, TypeOK
  <1>6. DestroyIsFinal'
    BY DEF DestroyIsFinal, TypeOK
  <1>7. Accounted'
    BY DEF Accounted, InHand
  <1> QED
    BY <1>1, <1>2, <1>3, <1>4, <1>5, <1>6, <1>7

-----------------------------------------------------------------------------
(* The steps a request is made of. *)
LEMMA CallOwnership ==
  ASSUME TypeOK, Ownership, NEW c \in Callers, NEW at \in Steps \ {"idle", "remove"},
         NEW verb \in Verbs \ {"create", "remove"},
         NEW ok \in Steps \ {"remove"}, NEW err \in Steps \ {"remove"},
         Call(c, at, verb, ok, err),
         at \in CreateSteps => ok \in CreateSteps /\ err \in CreateSteps,
         at \notin CreateSteps => ok \notin CreateSteps /\ err \notin CreateSteps,
         err \notin {"initAgent", "waitReady", "register"}
  PROVE  Ownership'
  <1>1. pc[c] = at /\ target[c] \in Sandboxes
    BY DEF Call, TypeOK
  <1>2. PICK step \in {ok, err}, connected \in BOOLEAN :
          /\ Continue(c, step, connected)
          /\ step = err \/ Performs(verb, target[c])
    BY DEF Call, CallSucceeds, CallFails, CallRefused, CallLost, TypeOK
  <1>3. Performs(verb, target[c]) \/ UNCHANGED container
    BY DEF Call, CallSucceeds, CallFails, CallRefused, CallLost, runtimeVars
  <1>4. /\ \A x \in Sandboxes : x # target[c] => container'[x] = container[x]
        /\ container'[target[c]] = "absent" <=> container[target[c]] = "absent"
        /\ Performs(verb, target[c]) => container'[target[c]] # "absent"
    BY <1>1, <1>3, PerformsEffect DEF TypeOK
  <1>5. /\ pc' = [pc EXCEPT ![c] = step]
        /\ target' = [target EXCEPT ![c] = IF step = "idle" THEN NoSandbox ELSE @]
        /\ UNCHANGED <<up, minted, registry, stage, item, listVars, strays, destroyed>>
    BY <1>2 DEF Continue, Call, processVars, reaperVars
  <1> QED
    BY <1>1, <1>2, <1>4, <1>5, AdvanceOwnership

LEMMA LastCallOwnership ==
  ASSUME TypeOK, Ownership, NEW c \in Callers, NEW at, NEW verb, NEW ok, NEW done,
         LastCall(c, at, verb, ok, done),
         \/ /\ at = "containerCreate" /\ verb = "create"
            /\ ok = "containerStart" /\ done = destroyed
         \/ /\ at \in {"forceRemove", "cleanup"} /\ verb = "remove"
            /\ ok = "idle" /\ done = destroyed
         \/ /\ at = "remove" /\ verb = "remove"
            /\ ok = "idle" /\ done = destroyed \cup {target[c]}
  PROVE  Ownership'
  <1>1. /\ pc[c] = at /\ target[c] \in Sandboxes
        /\ at \in CreateSteps \cup {"remove"} /\ verb \in Verbs
    BY DEF LastCall, TypeOK, CreateSteps, Verbs, Admits
  <1>2. PICK step \in {ok, "idle"}, connected \in BOOLEAN :
          /\ Continue(c, step, connected)
          /\ \/ /\ step = ok /\ Performs(verb, target[c])
                /\ destroyed' = done /\ strays' = strays
             \/ /\ step = "idle" /\ destroyed' = destroyed
                /\ strays' = strays \cup {s \in {target[c]} : container'[s] # "absent"}
    BY DEF LastCall, CallSucceeds, CallFails, CallRefused, CallLost, TypeOK
  <1>3. Performs(verb, target[c]) \/ UNCHANGED container
    BY DEF LastCall, CallSucceeds, CallFails, CallRefused, CallLost, runtimeVars
  <1>4. /\ \A x \in Sandboxes : x # target[c] => container'[x] = container[x]
        /\ \/ container'[target[c]] = container[target[c]]
           \/ verb = "remove" /\ container'[target[c]] = "absent"
           \/ verb = "create" /\ container[target[c]] = "absent"
        /\ Performs(verb, target[c])
             => (container'[target[c]] = "absent" <=> verb = "remove")
    BY <1>1, <1>3, PerformsEffect DEF TypeOK, Verbs, Admits
  <1>5. /\ pc' = [pc EXCEPT ![c] = step]
        /\ target' = [target EXCEPT ![c] = IF step = "idle" THEN NoSandbox ELSE @]
        /\ UNCHANGED <<up, minted, registry, stage, item, listVars>>
    BY <1>2 DEF Continue, LastCall, processVars, reaperVars
  <1>6. step \in {"idle", "containerStart"}
    BY <1>2
  <1> QED
    BY <1>1, <1>2, <1>4, <1>5, <1>6, AdvanceOwnership DEF Steps, CreateSteps

LEMMA AgentCallOwnership ==
  ASSUME TypeOK, Ownership, NEW c \in Callers, NEW at, NEW ok, NEW err,
         AgentCall(c, at, ok, err),
         \/ at = "initAgent" /\ ok = "waitReady" /\ err = "cleanup"
         \/ at = "reinit" /\ ok = "setRunning" /\ err = "idle"
  PROVE  Ownership'
  <1>1. /\ pc[c] = at /\ target[c] \in Sandboxes /\ at # "idle"
        /\ UNCHANGED container
    BY DEF AgentCall, AgentInitialised, TypeOK, runtimeVars
  <1>2. PICK step \in {ok, err}, connected \in BOOLEAN : Continue(c, step, connected)
    BY DEF AgentCall, TypeOK
  <1>3. /\ pc' = [pc EXCEPT ![c] = step]
        /\ target' = [target EXCEPT ![c] = IF step = "idle" THEN NoSandbox ELSE @]
        /\ UNCHANGED <<up, minted, registry, stage, item, listVars, strays, destroyed>>
    BY <1>2 DEF Continue, AgentCall, processVars, reaperVars
  <1>4. at = "initAgent" => container[target[c]] # "absent"
    BY <1>1 DEF Ownership, CreatorHasContainer
  <1> QED
    BY <1>1, <1>2, <1>3, <1>4, AdvanceOwnership DEF Steps, CreateSteps

LEMMA WaitReadyOwnership ==
  ASSUME TypeOK, Ownership, NEW c \in Callers, WaitReady(c)
  PROVE  Ownership'
  <1>1. /\ pc[c] = "waitReady" /\ target[c] \in Sandboxes
        /\ UNCHANGED container
    BY DEF WaitReady, TypeOK, runtimeVars
  <1>2. PICK step \in {"register", "cleanup"}, connected \in BOOLEAN :
          Continue(c, step, connected)
    BY DEF WaitReady, TypeOK
  <1>3. /\ pc' = [pc EXCEPT ![c] = step]
        /\ target' = [target EXCEPT ![c] = IF step = "idle" THEN NoSandbox ELSE @]
        /\ UNCHANGED <<up, minted, registry, stage, item, listVars, strays, destroyed>>
    BY <1>2 DEF Continue, WaitReady, processVars, reaperVars, historyVars
  <1>4. container[target[c]] # "absent"
    BY <1>1 DEF Ownership, CreatorHasContainer
  <1> QED
    BY <1>1, <1>2, <1>3, <1>4, AdvanceOwnership DEF Steps, CreateSteps

LEMMA ReturnOwnership ==
  ASSUME TypeOK, Ownership, NEW c \in Callers,
         NEW at \in {"setRunning", "setFrozen", "setStopped"}, Return(c, at),
         UNCHANGED <<minted, registry>>
  PROVE  Ownership'
  <1>1. /\ pc[c] = at /\ target[c] \in Sandboxes
        /\ pc' = [pc EXCEPT ![c] = "idle"]
        /\ target' = [target EXCEPT ![c] = IF "idle" = "idle" THEN NoSandbox ELSE @]
        /\ UNCHANGED <<up, container, stage, item, listVars, strays, destroyed>>
    BY DEF Return, Continue, TypeOK, runtimeVars, processVars, reaperVars,
           historyVars
  <1> QED
    BY <1>1, AdvanceOwnership DEF Steps, CreateSteps

LEMMA SweepRemoveEffect ==
  ASSUME TypeOK, NEW s \in Sandboxes, SweepRemove(s)
  PROVE  /\ \A x \in Sandboxes : x # s => container'[x] = container[x]
         /\ container'[s] # "absent" => container[s] # "absent" /\ s \in strays'
         /\ strays \subseteq strays'
         /\ UNCHANGED <<up, minted, registry, pc, target, destroyed>>
  <1>1. Performs("remove", s) \/ UNCHANGED container
    BY DEF SweepRemove, SweepSucceeds, SweepFails, runtimeVars
  <1>2. /\ \A x \in Sandboxes : x # s => container'[x] = container[x]
        /\ container'[s] # "absent" => container[s] # "absent"
    BY <1>1, PerformsEffect DEF TypeOK, Verbs, Admits
  <1>3. Performs("remove", s) => container'[s] = "absent"
    BY PerformsEffect DEF TypeOK, Verbs, Admits
  <1> QED
    BY <1>2, <1>3 DEF SweepRemove, SweepSucceeds, processVars, callerVars

-----------------------------------------------------------------------------
LEMMA OwnershipInit == Init => Ownership
  BY SandboxAssumption
     DEF Init, RuntimeInit, Ownership, OnlyMinted, CreatorIsAlone,
         RemoversUnregister, CreatorHasContainer, DownIsIdle,
         RegisteredHasContainer, DestroyIsFinal, Accounted, Listed, CreateSteps

LEMMA RequestOwnership ==
  ASSUME TypeOK, Ownership, NEW c \in Callers, Request(c)
  PROVE  Ownership'
  <1> USE DEF Steps, CreateSteps
  <1>1. CASE CreateBegin(c)
    BY <1>1, FreshOwnership
  <1>2. CASE DestroyBegin(c)
    BY <1>2, BeginOwnership DEF DestroyBegin
  <1>3. CASE SetTimeout(c)
    BY <1>3, BeginOwnership DEF SetTimeout
  <1>4. CASE ConnectBegin(c)
    BY <1>4, BeginOwnership DEF ConnectBegin, ResumeStep
  <1>5. CASE ResumeBegin(c)
    BY <1>5, BeginOwnership DEF ResumeBegin, ResumeStep
  <1>6. CASE PauseBegin(c)
    BY <1>6, BeginOwnership DEF PauseBegin
  <1>7. CASE StopBegin(c)
    BY <1>7, BeginOwnership DEF StopBegin
  <1> QED
    BY <1>1, <1>2, <1>3, <1>4, <1>5, <1>6, <1>7 DEF Request

LEMMA FinishOwnership ==
  ASSUME TypeOK, Ownership, NEW c \in Callers, Finish(c)
  PROVE  Ownership'
  <1> USE DEF Steps, CreateSteps, Verbs, Admits
  <1>1. CASE ContainerStart(c)
    BY <1>1, CallOwnership DEF ContainerStart
  <1>2. CASE Unpause(c)
    BY <1>2, CallOwnership DEF Unpause
  <1>3. CASE StartAgain(c)
    BY <1>3, CallOwnership DEF StartAgain
  <1>4. CASE PauseContainer(c)
    BY <1>4, CallOwnership DEF PauseContainer
  <1>5. CASE StopUnpause(c)
    BY <1>5, CallOwnership DEF StopUnpause
  <1>6. CASE StopContainer(c)
    BY <1>6, CallOwnership DEF StopContainer
  <1>7. CASE ContainerCreate(c)
    BY <1>7, LastCallOwnership DEF ContainerCreate
  <1>8. CASE ForceRemove(c)
    BY <1>8, LastCallOwnership DEF ForceRemove
  <1>9. CASE Cleanup(c)
    BY <1>9, LastCallOwnership DEF Cleanup
  <1>10. CASE DestroyContainer(c)
    BY <1>10, LastCallOwnership DEF DestroyContainer
  <1>11. CASE InitAgent(c)
    BY <1>11, AgentCallOwnership DEF InitAgent
  <1>12. CASE Reinit(c)
    BY <1>12, AgentCallOwnership DEF Reinit
  <1>13. CASE SetRunning(c)
    BY <1>13, ReturnOwnership DEF SetRunning
  <1>14. CASE SetFrozen(c)
    BY <1>14, ReturnOwnership DEF SetFrozen, SetPaused
  <1>15. CASE SetStopped(c)
    BY <1>15, ReturnOwnership DEF SetStopped, SetPaused
  <1> QED
    BY <1>1, <1>2, <1>3, <1>4, <1>5, <1>6, <1>7, <1>8,
       <1>9, <1>10, <1>11, <1>12, <1>13, <1>14, <1>15,
       WaitReadyOwnership, RegisterOwnership DEF Finish

LEMMA ReaperOwnership ==
  ASSUME TypeOK, Ownership, Sweep
  PROVE  Ownership'
  <1> USE DEF listVars, Listed
  <1>1. CASE Collect
    <2>1. /\ up /\ SweepDone
          /\ UNCHANGED <<up, container, minted, pc, target, stage, item, strays, destroyed>>
      BY <1>1 DEF Collect, runtimeVars, processVars, callerVars
    <2>2. /\ toKill' \cup toPause' \cup toDemote' \cup toGC' \subseteq registry
          /\ registry' = registry \ (toKill' \cup toGC')
      BY <1>1 DEF Collect, Expired, Frozen, Stopped, Lapsed
    <2> QED
      BY <2>1, <2>2, SweepOwnership DEF SweepDone
  <1>2. ASSUME ~Collect
        PROVE  up
    BY <1>2 DEF Ownership, DownIsIdle, Sweep, SweepDone, SweepKill, SweepPause,
                SweepSetFrozen, SweepDrop, SweepFallback, SweepDemote,
                SweepSetDemoted, SweepGC
  <1>3. CASE ~Collect /\ SweepKill
    <2>1. PICK s \in toKill :
            /\ toKill' = toKill \ {s} /\ SweepRemove(s)
            /\ UNCHANGED <<stage, item, toPause, toDemote, toGC>>
      BY <1>3 DEF SweepKill
    <2>2. s \in Sandboxes /\ s \notin registry
      BY DEF TypeOK, Ownership, RemoversUnregister
    <2> QED
      BY <1>2, <1>3, <2>1, <2>2, SweepRemoveEffect, SweepOwnership
         DEF Ownership, RemoversUnregister
  <1>4. CASE ~Collect /\ SweepGC
    <2>1. PICK s \in toGC :
            /\ toGC' = toGC \ {s} /\ SweepRemove(s)
            /\ UNCHANGED <<stage, item, toKill, toPause, toDemote>>
      BY <1>4 DEF SweepGC
    <2>2. s \in Sandboxes /\ s \notin registry
      BY DEF TypeOK, Ownership, RemoversUnregister
    <2> QED
      BY <1>2, <1>4, <2>1, <2>2, SweepRemoveEffect, SweepOwnership
         DEF Ownership, RemoversUnregister
  <1>5. CASE ~Collect /\ SweepFallback
    <2>1. /\ stage = "fallback" /\ SweepRemove(item)
          /\ stage' = "next" /\ item' = NoSandbox /\ UNCHANGED listVars
      BY <1>5 DEF SweepFallback, SweepStage
    <2>2. item \in Sandboxes /\ item \notin registry
      BY <2>1 DEF TypeOK, Ownership, RemoversUnregister
    <2>3. /\ \A x \in Sandboxes : x # item => container'[x] = container[x]
          /\ container'[item] # "absent" => container[item] # "absent" /\ item \in strays'
          /\ strays \subseteq strays'
          /\ UNCHANGED <<up, minted, registry, pc, target, destroyed>>
      BY <2>1, <2>2, SweepRemoveEffect
    <2>4. Listed' \subseteq Listed \cup {NoSandbox} /\ item \in Listed
      BY <2>1
    <2>5. registry' \cap (toKill' \cup toGC') = {} /\ stage' # "fallback"
      BY <2>1, <2>3 DEF Ownership, RemoversUnregister
    <2>6. \A x \in Sandboxes :
            /\ container'[x] # "absent" => container[x] # "absent"
            /\ container[x] # "absent" /\ container'[x] = "absent" => x = item
            /\ container'[x] # "absent" /\ x = item => x \in strays'
      BY <2>2, <2>3
    <2>7. toKill' = toKill /\ toGC' = toGC /\ registry' = registry
      BY <2>1, <2>3
    <2> HIDE DEF Listed, listVars
    <2> QED
      BY <1>2, <1>5, <2>2, <2>3, <2>4, <2>5, <2>6, <2>7, SweepOwnership
  <1>6. CASE ~Collect /\ SweepPause
    <2>1. PICK s \in toPause :
            /\ SweepSucceeds(s, "pause") \/ SweepFails(s, "pause")
            /\ toPause' = toPause \ {s}
            /\ stage = "next" /\ stage' # "fallback" /\ item' = s
            /\ UNCHANGED <<up, minted, registry, pc, target, toKill, toDemote, toGC,
                           strays, destroyed>>
      BY <1>6 DEF SweepPause, SweepStage, processVars, callerVars
    <2>2. \A x \in Sandboxes : container'[x] = "absent" <=> container[x] = "absent"
      BY <2>1, PerformsEffect
         DEF SweepSucceeds, SweepFails, runtimeVars, TypeOK, Verbs, Admits
    <2> QED
      BY <1>2, <1>6, <2>1, <2>2, SweepOwnership DEF Ownership, RemoversUnregister
  <1>7. CASE ~Collect /\ SweepDemote
    <2>1. PICK s \in toDemote :
            /\ SweepSucceeds(s, "stop") \/ SweepFails(s, "stop")
            /\ toDemote' = toDemote \ {s}
            /\ stage = "next" /\ stage' # "fallback" /\ item' \in {s, item}
            /\ UNCHANGED <<up, minted, registry, pc, target, toKill, toPause, toGC,
                           strays, destroyed>>
      BY <1>7 DEF SweepDemote, SweepStage, processVars, callerVars
    <2>2. \A x \in Sandboxes : container'[x] = "absent" <=> container[x] = "absent"
      BY <2>1, PerformsEffect
         DEF SweepSucceeds, SweepFails, runtimeVars, TypeOK, Verbs, Admits
    <2> QED
      BY <1>2, <1>7, <2>1, <2>2, SweepOwnership DEF Ownership, RemoversUnregister
  <1>8. CASE ~Collect /\ (SweepSetFrozen \/ SweepSetDemoted)
    <2>1. /\ stage' = "next" /\ item' = NoSandbox /\ stage # "fallback"
          /\ UNCHANGED <<up, container, minted, registry, pc, target, listVars,
                         strays, destroyed>>
      BY <1>8 DEF SweepSetFrozen, SweepSetDemoted, SweepStage, runtimeVars,
                  processVars, callerVars, historyVars
    <2> QED
      BY <1>2, <1>8, <2>1, SweepOwnership DEF Ownership, RemoversUnregister
  <1>9. CASE ~Collect /\ SweepDrop
    <2>1. /\ stage' = "fallback" /\ item' = item /\ stage = "pauseFailed"
          /\ registry' = registry \ {item}
          /\ UNCHANGED <<up, container, minted, pc, target, listVars, strays, destroyed>>
      BY <1>9 DEF SweepDrop, SweepStage, runtimeVars, processVars, callerVars,
                  historyVars
    <2> QED
      BY <1>2, <1>9, <2>1, SweepOwnership DEF Ownership, RemoversUnregister
  <1> QED
    BY <1>1, <1>3, <1>4, <1>5, <1>6, <1>7, <1>8, <1>9 DEF Sweep

LEMMA CrashOwnership ==
  ASSUME TypeOK, Ownership, Crash
  PROVE  Ownership'
  <1>1. /\ up' = FALSE /\ registry' = {} /\ UNCHANGED <<container, minted, destroyed>>
        /\ stage' = "next" /\ item' = NoSandbox
        /\ toKill' = {} /\ toPause' = {} /\ toDemote' = {} /\ toGC' = {}
        /\ \A c \in Callers : pc'[c] = "idle" /\ target'[c] = NoSandbox
    BY DEF Crash, SweepStage, runtimeVars
  <1> QED
    BY <1>1
       DEF Ownership, OnlyMinted, CreatorIsAlone, RemoversUnregister,
           CreatorHasContainer, DownIsIdle, SweepDone, RegisteredHasContainer,
           DestroyIsFinal, Accounted, Listed, CreateSteps

LEMMA RehydrateOwnership ==
  ASSUME TypeOK, Ownership, Rehydrate
  PROVE  Ownership'
  <1>1. PICK found \in SUBSET Managed :
          /\ registry' = found
          /\ strays' = {s \in Sandboxes \ found : container[s] # "absent"}
    BY DEF Rehydrate
  <1>2. /\ ~up /\ up'
        /\ UNCHANGED <<container, minted, pc, target, stage, item, listVars, destroyed>>
    BY DEF Rehydrate, runtimeVars, callerVars, reaperVars
  <1>3. \A c \in Callers : pc[c] = "idle"
    BY <1>2 DEF Ownership, DownIsIdle
  <1>4. SweepDone /\ stage = "next"
    BY <1>2 DEF Ownership, DownIsIdle, SweepDone
  <1>5. \A s \in found : s \in Sandboxes /\ container[s] # "absent"
    BY DEF Managed
  <1>6. OnlyMinted'
    BY <1>1, <1>2, <1>5 DEF Ownership, OnlyMinted, Listed, listVars
  <1>7. CreatorIsAlone' /\ CreatorHasContainer' /\ DownIsIdle'
    BY <1>2, <1>3 DEF CreatorIsAlone, CreatorHasContainer, DownIsIdle, CreateSteps
  <1>8. RemoversUnregister'
    BY <1>2, <1>3, <1>4 DEF RemoversUnregister, SweepDone, listVars
  <1>9. RegisteredHasContainer' /\ DestroyIsFinal'
    BY <1>1, <1>2, <1>5
       DEF Ownership, RegisteredHasContainer, DestroyIsFinal, TypeOK
  <1>10. Accounted'
    BY <1>1, <1>2 DEF Accounted
  <1> QED
    BY <1>6, <1>7, <1>8, <1>9, <1>10 DEF Ownership

LEMMA OwnershipStep == TypeOK /\ Ownership /\ [Next]_vars => Ownership'
  <1> SUFFICES ASSUME TypeOK, Ownership, [Next]_vars
               PROVE  Ownership'
    OBVIOUS
  <1>1. CASE UNCHANGED vars
    BY <1>1, QuietOwnership
       DEF vars, runtimeVars, processVars, callerVars, reaperVars, historyVars
  <1>2. ASSUME NEW c \in Callers, Request(c) \/ Finish(c) \/ HangUp(c)
        PROVE  Ownership'
    <2>1. CASE HangUp(c)
      BY <2>1, QuietOwnership
         DEF HangUp, runtimeVars, processVars, reaperVars, historyVars
    <2> QED
      BY <1>2, <2>1, RequestOwnership, FinishOwnership
  <1>3. CASE Tick
    BY <1>3, QuietOwnership
       DEF Tick, runtimeVars, processVars, callerVars, historyVars
  <1> QED
    BY <1>1, <1>2, <1>3, ReaperOwnership, CrashOwnership, RehydrateOwnership
       DEF Next

(* Every sandbox has exactly one owner, at every moment and in every        *)
(* instance: the registry, the request that creates or destroys it, the     *)
(* reaper, or nobody because a call failed.                                 *)
THEOREM OwnershipHolds == Spec => []Ownership
  <1>1. Init => TypeOK /\ Ownership
    BY TypeInit, OwnershipInit
  <1>2. TypeOK /\ Ownership /\ [Next]_vars => (TypeOK /\ Ownership)'
    BY TypeStep, OwnershipStep
  <1> QED
    BY <1>1, <1>2, PTL DEF Spec

(* The map of Manager never holds an id the runtime has no container for,   *)
(* except through somebody else's docker rm.                                *)
THEOREM RegistryIsBacked == Spec => []RegisteredHasContainer
  BY OwnershipHolds, PTL DEF Ownership

(* No request, sweep or restart undoes a Destroy that returned nil.         *)
THEOREM DestroyStays == Spec => []DestroyIsFinal
  BY OwnershipHolds, PTL DEF Ownership

(* A container without an owner is one whose removal, creation or adoption  *)
(* failed.                                                                  *)
THEOREM NothingForgotten == Spec => []Accounted
  BY OwnershipHolds, PTL DEF Ownership
=============================================================================
