----------------------- MODULE SandboxLifecycleProofs -----------------------
(***************************************************************************)
(* SandboxManager implements SandboxLifecycle, for every instance.         *)
(*                                                                         *)
(* The lemmas say which abstract step a kind of detailed step maps to; all *)
(* of them rest on Ownership: that the creator of a sandbox is alone, and  *)
(* that whoever removes a container has unregistered it, is what keeps the *)
(* mapped phases from going back.                                          *)
(***************************************************************************)
EXTENDS SandboxManagerProofs

LifecycleStep == [Lifecycle!Next]_(Lifecycle!vars)

MappedPhase == [s \in Sandboxes |-> Phase(s)]

(* No container comes or goes, no id is handed out, no request moves to or  *)
(* from ContainerCreate.                                                    *)
SamePhases ==
  /\ minted' = minted
  /\ \A s \in Sandboxes : container'[s] = "absent" <=> container[s] = "absent"
  /\ \A s \in Sandboxes : Creating(s)' <=> Creating(s)

LEMMA SamePhasesMapped ==
  ASSUME SamePhases PROVE MappedPhase' = MappedPhase
  BY DEF SamePhases, MappedPhase, Phase

LEMMA QuietStep ==
  ASSUME SamePhases, UNCHANGED <<registry, destroyed>>
  PROVE  LifecycleStep
  BY SamePhasesMapped DEF LifecycleStep, Lifecycle!vars, MappedPhase

LEMMA ServeStep ==
  ASSUME SamePhases, NEW S \in SUBSET Sandboxes, S \subseteq minted,
         \A s \in S : container[s] # "absent",
         registry' = registry \cup S, destroyed' = destroyed
  PROVE  LifecycleStep
  <1>1. Lifecycle!Serve(S)
    BY SamePhasesMapped DEF Lifecycle!Serve, MappedPhase, Phase
  <1> QED
    BY <1>1 DEF LifecycleStep, Lifecycle!Next

LEMMA WithdrawStep ==
  ASSUME SamePhases, NEW S \in SUBSET Sandboxes,
         registry' = registry \ S, destroyed' = destroyed
  PROVE  LifecycleStep
  <1>1. Lifecycle!Withdraw(S)
    BY SamePhasesMapped DEF Lifecycle!Withdraw, MappedPhase
  <1> QED
    BY <1>1 DEF LifecycleStep, Lifecycle!Next

(* One sandbox moves on and nothing else does. *)
LEMMA PhaseMoves ==
  ASSUME NEW s \in Sandboxes,
         \A x \in Sandboxes : x # s => Phase(x)' = Phase(x)
  PROVE  MappedPhase' = [MappedPhase EXCEPT ![s] = Phase(s)']
  BY DEF MappedPhase

LEMMA VanishStep ==
  ASSUME NEW s \in Sandboxes \ registry, s \in minted, container[s] # "absent",
         container'[s] = "absent", ~Creating(s)',
         minted' = minted, registry' = registry,
         \A x \in Sandboxes : x # s => /\ container'[x] = container[x]
                                       /\ Creating(x)' <=> Creating(x),
         destroyed' \in {destroyed, destroyed \cup {s}}
  PROVE  LifecycleStep
  <1>1. Phase(s) = "present" /\ Phase(s)' = "gone"
    BY DEF Phase
  <1>2. \A x \in Sandboxes : x # s => Phase(x)' = Phase(x)
    BY DEF Phase
  <1>3. MappedPhase' = [MappedPhase EXCEPT ![s] = "gone"]
    BY <1>1, <1>2, PhaseMoves
  <1>4. Lifecycle!Vanish(s)
    BY <1>1, <1>3 DEF Lifecycle!Vanish, Lifecycle!Moves, MappedPhase
  <1> QED
    BY <1>4 DEF LifecycleStep, Lifecycle!Next

-----------------------------------------------------------------------------
(* Which requests are at ContainerCreate changes only with the request that *)
(* moves.                                                                   *)
LEMMA CreatingElsewhere ==
  ASSUME TypeOK, NEW c \in Callers, NEW step \in Steps, NEW t,
         pc' = [pc EXCEPT ![c] = step], target' = [target EXCEPT ![c] = t],
         pc[c] # "containerCreate", step # "containerCreate"
  PROVE  \A s \in Sandboxes : Creating(s)' <=> Creating(s)
  <1>1. \A d \in Callers : d # c => pc'[d] = pc[d] /\ target'[d] = target[d]
    BY DEF TypeOK
  <1>2. pc'[c] # "containerCreate"
    BY DEF TypeOK
  <1> QED
    BY <1>1, <1>2 DEF Creating

LEMMA BeginStep ==
  ASSUME TypeOK, NEW c \in Callers, NEW s \in registry,
         NEW step \in Steps \ CreateSteps,
         Begin(c, s, step), UNCHANGED minted,
         registry' = IF step = "remove" THEN registry \ {s} ELSE registry
  PROVE  LifecycleStep
  <1>1. /\ UNCHANGED <<container, destroyed>>
        /\ pc[c] = "idle" /\ pc' = [pc EXCEPT ![c] = step]
        /\ target' = [target EXCEPT ![c] = IF step = "idle" THEN NoSandbox ELSE s]
    BY DEF Begin, runtimeVars
  <1>2. step # "containerCreate" /\ s \in Sandboxes
    BY DEF CreateSteps, TypeOK
  <1>3. SamePhases
    BY <1>1, <1>2, CreatingElsewhere DEF SamePhases
  <1>4. CASE step = "remove"
    BY <1>1, <1>2, <1>3, <1>4, WithdrawStep
  <1>5. CASE step # "remove"
    BY <1>1, <1>3, <1>5, QuietStep
  <1> QED
    BY <1>4, <1>5

LEMMA MintStep ==
  ASSUME TypeOK, Ownership, NEW c \in Callers, CreateBegin(c)
  PROVE  LifecycleStep
  <1>1. PICK s \in Sandboxes \ minted :
          Begin(c, s, "containerCreate") /\ minted' = minted \cup {s}
    BY DEF CreateBegin
  <1>2. /\ UNCHANGED <<container, registry, destroyed>>
        /\ pc[c] = "idle" /\ pc' = [pc EXCEPT ![c] = "containerCreate"]
        /\ target' = [target EXCEPT ![c] = s]
    BY <1>1 DEF CreateBegin, Begin, runtimeVars
  <1>3. container[s] = "absent"
    BY <1>1 DEF Ownership, OnlyMinted
  <1>4. /\ pc'[c] = "containerCreate" /\ target'[c] = s
        /\ \A d \in Callers : d # c => pc'[d] = pc[d] /\ target'[d] = target[d]
    BY <1>2 DEF TypeOK
  <1>5. Phase(s) = "unborn" /\ Phase(s)' = "requested"
    BY <1>1, <1>2, <1>3, <1>4 DEF Phase, Creating
  <1>6. \A x \in Sandboxes : x # s => Creating(x)' <=> Creating(x)
    BY <1>2, <1>4 DEF Creating
  <1>7. \A x \in Sandboxes : x # s => Phase(x)' = Phase(x)
    BY <1>1, <1>2, <1>6 DEF Phase
  <1>8. MappedPhase' = [MappedPhase EXCEPT ![s] = "requested"]
    BY <1>5, <1>7, PhaseMoves
  <1>9. Lifecycle!Request(s)
    BY <1>2, <1>5, <1>8 DEF Lifecycle!Request, Lifecycle!Moves, MappedPhase
  <1> QED
    BY <1>9 DEF LifecycleStep, Lifecycle!Next

LEMMA RequestStep ==
  ASSUME TypeOK, Ownership, NEW c \in Callers, Request(c)
  PROVE  LifecycleStep
  <1>1. CASE CreateBegin(c)
    BY <1>1, MintStep
  <1>2. CASE DestroyBegin(c)
    BY <1>2, BeginStep DEF DestroyBegin, Steps, CreateSteps
  <1>3. CASE SetTimeout(c)
    BY <1>3, BeginStep DEF SetTimeout, Steps, CreateSteps
  <1>4. CASE ConnectBegin(c)
    BY <1>4, BeginStep DEF ConnectBegin, ResumeStep, Steps, CreateSteps
  <1>5. CASE ResumeBegin(c)
    BY <1>5, BeginStep DEF ResumeBegin, ResumeStep, Steps, CreateSteps
  <1>6. CASE PauseBegin(c)
    BY <1>6, BeginStep DEF PauseBegin, Steps, CreateSteps
  <1>7. CASE StopBegin(c)
    BY <1>7, BeginStep DEF StopBegin, Steps, CreateSteps
  <1> QED
    BY <1>1, <1>2, <1>3, <1>4, <1>5, <1>6, <1>7 DEF Request

-----------------------------------------------------------------------------
(* A request that has begun goes on, past ContainerCreate, and no container *)
(* comes or goes.                                                           *)
LEMMA AdvanceStep ==
  ASSUME TypeOK, NEW c \in Callers, NEW step \in Steps, NEW connected \in BOOLEAN,
         Continue(c, step, connected),
         pc[c] # "containerCreate", step # "containerCreate",
         UNCHANGED <<minted, registry, destroyed>>,
         \A s \in Sandboxes : container'[s] = "absent" <=> container[s] = "absent"
  PROVE  LifecycleStep
  <1>1. \A s \in Sandboxes : Creating(s)' <=> Creating(s)
    BY CreatingElsewhere DEF Continue
  <1> QED
    BY <1>1, QuietStep DEF SamePhases

LEMMA CallStep ==
  ASSUME TypeOK, NEW c \in Callers, NEW at \in Steps \ {"idle", "containerCreate"},
         NEW verb \in Verbs \ {"create", "remove"},
         NEW ok \in Steps \ {"containerCreate"},
         NEW err \in Steps \ {"containerCreate"},
         Call(c, at, verb, ok, err)
  PROVE  LifecycleStep
  <1>1. pc[c] = at /\ target[c] \in Sandboxes
    BY DEF Call, TypeOK
  <1>2. PICK step \in {ok, err}, connected \in BOOLEAN : Continue(c, step, connected)
    BY DEF Call, CallSucceeds, CallFails, CallRefused, CallLost, TypeOK
  <1>3. Performs(verb, target[c]) \/ UNCHANGED container
    BY DEF Call, CallSucceeds, CallFails, CallRefused, CallLost, runtimeVars
  <1>4. \A x \in Sandboxes : container'[x] = "absent" <=> container[x] = "absent"
    BY <1>1, <1>3, PerformsEffect DEF TypeOK
  <1>5. UNCHANGED <<minted, registry, destroyed>>
    BY DEF Call
  <1> QED
    BY <1>1, <1>2, <1>4, <1>5, AdvanceStep

LEMMA AgentCallStep ==
  ASSUME TypeOK, NEW c \in Callers, NEW at \in Steps \ {"idle", "containerCreate"},
         NEW ok \in Steps \ {"containerCreate"},
         NEW err \in Steps \ {"containerCreate"},
         AgentCall(c, at, ok, err)
  PROVE  LifecycleStep
  <1>1. /\ pc[c] = at
        /\ UNCHANGED <<container, minted, registry, destroyed>>
    BY DEF AgentCall, AgentInitialised, runtimeVars
  <1>2. PICK step \in {ok, err}, connected \in BOOLEAN : Continue(c, step, connected)
    BY DEF AgentCall, TypeOK
  <1> QED
    BY <1>1, <1>2, AdvanceStep

LEMMA ReturnStep ==
  ASSUME TypeOK, NEW c \in Callers,
         NEW at \in {"setRunning", "setFrozen", "setStopped"}, Return(c, at),
         UNCHANGED <<minted, registry>>
  PROVE  LifecycleStep
  <1>1. /\ pc[c] # "containerCreate" /\ Continue(c, "idle", TRUE)
        /\ UNCHANGED <<container, destroyed>>
    BY DEF Return, runtimeVars, historyVars
  <1> QED
    BY <1>1, AdvanceStep DEF Steps

LEMMA RegisterStep ==
  ASSUME TypeOK, Ownership, NEW c \in Callers, Register(c)
  PROVE  LifecycleStep
  <1>1. /\ pc[c] = "register" /\ Continue(c, "idle", TRUE)
        /\ UNCHANGED <<container, minted, destroyed>>
        /\ registry' = registry \cup {target[c]}
    BY DEF Register, Return, runtimeVars, historyVars
  <1>2. /\ target[c] \in Sandboxes /\ target[c] \in minted
        /\ container[target[c]] # "absent"
    BY <1>1 DEF TypeOK, Ownership, OnlyMinted, CreatorHasContainer
  <1>3. \A s \in Sandboxes : Creating(s)' <=> Creating(s)
    BY <1>1, CreatingElsewhere DEF Continue, Steps
  <1>4. SamePhases
    BY <1>1, <1>3 DEF SamePhases
  <1>5. PICK S \in SUBSET Sandboxes : S = {target[c]}
    BY <1>2
  <1> QED
    BY <1>1, <1>2, <1>4, <1>5, ServeStep

(* ContainerCreate: the container appears, or nobody will create it again.  *)
LEMMA CreateStep ==
  ASSUME TypeOK, Ownership, NEW c \in Callers, ContainerCreate(c)
  PROVE  LifecycleStep
  <1>0. PICK s \in Sandboxes : s = target[c]
    BY DEF ContainerCreate, LastCall, TypeOK
  <1>1. /\ pc[c] = "containerCreate" /\ s \in minted
        /\ UNCHANGED <<minted, registry, destroyed>>
    BY <1>0, SandboxAssumption
       DEF ContainerCreate, LastCall, TypeOK, Ownership, OnlyMinted
  <1>2. PICK step \in {"containerStart", "idle"}, connected \in BOOLEAN :
          Continue(c, step, connected)
    BY DEF ContainerCreate, LastCall, CallSucceeds, CallFails, CallRefused,
           CallLost, TypeOK
  <1>3. Performs("create", s) \/ UNCHANGED container
    BY <1>0 DEF ContainerCreate, LastCall, CallSucceeds, CallFails, CallRefused,
           CallLost, runtimeVars
  <1>4. /\ pc'[c] # "containerCreate"
        /\ \A d \in Callers : d # c => pc'[d] = pc[d] /\ target'[d] = target[d]
    BY <1>2 DEF Continue, TypeOK
  <1>5. \A d \in Callers : d # c => target[d] # s
    BY <1>0, <1>1 DEF Ownership, CreatorIsAlone, CreateSteps
  <1>6. Creating(s) /\ ~Creating(s)'
    BY <1>0, <1>1, <1>4, <1>5 DEF Creating
  <1>7. \A x \in Sandboxes : x # s => /\ container'[x] = container[x]
                                      /\ Creating(x)' <=> Creating(x)
    <2>1. \A x \in Sandboxes : x # s => container'[x] = container[x]
      BY <1>1, <1>3, PerformsEffect DEF TypeOK, Verbs, Admits
    <2>2. \A x \in Sandboxes : x # s => (Creating(x)' <=> Creating(x))
      BY <1>0, <1>1, <1>4 DEF Creating
    <2> QED
      BY <2>1, <2>2
  <1>8. \A x \in Sandboxes : x # s => Phase(x)' = Phase(x)
    BY <1>1, <1>7 DEF Phase
  <1>9. MappedPhase' = [MappedPhase EXCEPT ![s] = Phase(s)']
    BY <1>1, <1>8, PhaseMoves
  <1>10. CASE Performs("create", s)
    <2>1. Phase(s) = "requested" /\ Phase(s)' = "present"
      BY <1>1, <1>6, <1>10, PerformsEffect DEF Phase, TypeOK, Verbs, Admits
    <2>2. Lifecycle!Appear(s)
      BY <1>1, <1>9, <2>1 DEF Lifecycle!Appear, Lifecycle!Moves, MappedPhase
    <2> QED
      BY <1>1, <2>2 DEF LifecycleStep, Lifecycle!Next
  <1>11. CASE UNCHANGED container /\ container[s] = "absent"
    <2>1. Phase(s) = "requested" /\ Phase(s)' = "gone"
      BY <1>1, <1>6, <1>11 DEF Phase
    <2>2. Lifecycle!GiveUp(s)
      BY <1>1, <1>9, <2>1 DEF Lifecycle!GiveUp, Lifecycle!Moves, MappedPhase
    <2> QED
      BY <1>1, <2>2 DEF LifecycleStep, Lifecycle!Next
  <1>12. CASE UNCHANGED container /\ container[s] # "absent"
    <2>1. Phase(s)' = Phase(s)
      BY <1>1, <1>12 DEF Phase
    <2>2. MappedPhase' = MappedPhase
      BY <1>1, <1>8, <2>1 DEF MappedPhase
    <2> QED
      BY <1>1, <2>2 DEF LifecycleStep, Lifecycle!vars, MappedPhase
  <1> QED
    BY <1>3, <1>10, <1>11, <1>12

(* The removals of Create's error paths and of Destroy. *)
LEMMA RemoveStep ==
  ASSUME TypeOK, Ownership, NEW c \in Callers,
         NEW at \in {"forceRemove", "cleanup", "remove"}, NEW done,
         LastCall(c, at, "remove", "idle", done),
         done \in {destroyed, destroyed \cup {target[c]}}
  PROVE  LifecycleStep
  <1>0. PICK s \in Sandboxes : s = target[c]
    BY DEF LastCall, TypeOK
  <1>1. /\ pc[c] = at /\ s \in minted
        /\ UNCHANGED <<minted, registry>>
    BY <1>0, SandboxAssumption DEF LastCall, TypeOK, Ownership, OnlyMinted
  <1>2. /\ s \notin registry
        /\ \A d \in Callers : pc[d] = "containerCreate" => target[d] # s
    BY <1>0, <1>1
       DEF Ownership, CreatorIsAlone, RemoversUnregister, CreateSteps
  <1>3. /\ pc' = [pc EXCEPT ![c] = "idle"]
        /\ target' = [target EXCEPT ![c] = NoSandbox]
    BY DEF LastCall, CallSucceeds, CallFails, CallRefused, CallLost, Continue
  <1>4. \A x \in Sandboxes : Creating(x)' <=> Creating(x)
    BY <1>1, <1>3, CreatingElsewhere DEF Steps
  <1>5. ~Creating(s)'
    BY <1>2, <1>4 DEF Creating
  <1>6. \/ Performs("remove", s) /\ destroyed' \in {destroyed, destroyed \cup {s}}
        \/ UNCHANGED <<container, destroyed>>
    BY <1>0 DEF LastCall, CallSucceeds, CallFails, CallRefused, CallLost,
                runtimeVars
  <1>7. CASE UNCHANGED <<container, destroyed>>
    BY <1>1, <1>4, <1>7, QuietStep DEF SamePhases
  <1>8. CASE Performs("remove", s) /\ destroyed' \in {destroyed, destroyed \cup {s}}
    <2>1. /\ container[s] # "absent" /\ container'[s] = "absent"
          /\ \A x \in Sandboxes : x # s => container'[x] = container[x]
      BY <1>8, PerformsEffect DEF TypeOK, Verbs, Admits
    <2> QED
      BY <1>1, <1>2, <1>4, <1>5, <1>8, <2>1, VanishStep
  <1> QED
    BY <1>6, <1>7, <1>8

LEMMA FinishStep ==
  ASSUME TypeOK, Ownership, NEW c \in Callers, Finish(c)
  PROVE  LifecycleStep
  <1> USE DEF Steps, CreateSteps, Verbs, Admits
  <1>1. CASE ContainerStart(c)
    BY <1>1, CallStep DEF ContainerStart
  <1>2. CASE Unpause(c)
    BY <1>2, CallStep DEF Unpause
  <1>3. CASE StartAgain(c)
    BY <1>3, CallStep DEF StartAgain
  <1>4. CASE PauseContainer(c)
    BY <1>4, CallStep DEF PauseContainer
  <1>5. CASE StopUnpause(c)
    BY <1>5, CallStep DEF StopUnpause
  <1>6. CASE StopContainer(c)
    BY <1>6, CallStep DEF StopContainer
  <1>7. CASE ForceRemove(c)
    BY <1>7, RemoveStep DEF ForceRemove
  <1>8. CASE Cleanup(c)
    BY <1>8, RemoveStep DEF Cleanup
  <1>9. CASE DestroyContainer(c)
    BY <1>9, RemoveStep DEF DestroyContainer
  <1>10. CASE InitAgent(c)
    BY <1>10, AgentCallStep DEF InitAgent
  <1>11. CASE Reinit(c)
    BY <1>11, AgentCallStep DEF Reinit
  <1>12. CASE WaitReady(c)
    <2>1. /\ pc[c] = "waitReady"
          /\ UNCHANGED <<container, minted, registry, destroyed>>
      BY <1>12 DEF WaitReady, runtimeVars, historyVars
    <2>2. PICK step \in {"register", "cleanup"}, connected \in BOOLEAN :
            Continue(c, step, connected)
      BY <1>12 DEF WaitReady, TypeOK
    <2> QED
      BY <2>1, <2>2, AdvanceStep
  <1>13. CASE SetRunning(c)
    BY <1>13, ReturnStep DEF SetRunning
  <1>14. CASE SetFrozen(c)
    BY <1>14, ReturnStep DEF SetFrozen, SetPaused
  <1>15. CASE SetStopped(c)
    BY <1>15, ReturnStep DEF SetStopped, SetPaused
  <1> QED
    BY <1>1, <1>2, <1>3, <1>4, <1>5, <1>6, <1>7, <1>8, <1>9, <1>10, <1>11, <1>12,
       <1>13, <1>14, <1>15, CreateStep, RegisterStep DEF Finish

-----------------------------------------------------------------------------
(* A step of the reaper that leaves all containers in place may only take   *)
(* entries out of the registry.                                             *)
LEMMA ReaperKeepsContainers ==
  ASSUME TypeOK, UNCHANGED <<minted, pc, target, destroyed>>,
         registry' \subseteq registry,
         \A s \in Sandboxes : container'[s] = "absent" <=> container[s] = "absent"
  PROVE  LifecycleStep
  <1>1. SamePhases
    BY DEF SamePhases, Creating
  <1>2. PICK S \in SUBSET Sandboxes : S = registry \ registry'
    BY DEF TypeOK
  <1>3. registry' = registry \ S
    BY <1>2
  <1> QED
    BY <1>1, <1>3, WithdrawStep

(* The reaper's rt.Destroy of a sandbox it has taken out of the registry.   *)
LEMMA ReaperRemoves ==
  ASSUME TypeOK, Ownership, NEW s \in Sandboxes, SweepRemove(s),
         s \in Listed, s \notin registry
  PROVE  LifecycleStep
  <1>1. UNCHANGED <<minted, registry, pc, target, destroyed>>
    BY DEF SweepRemove, processVars, callerVars
  <1>2. s \in minted
    BY SandboxAssumption DEF Ownership, OnlyMinted
  <1>3. \A x \in Sandboxes : Creating(x)' <=> Creating(x)
    BY <1>1 DEF Creating
  <1>4. ~Creating(s)'
    BY <1>3 DEF Creating, Ownership, CreatorIsAlone, CreateSteps
  <1>5. CASE UNCHANGED container
    BY <1>1, <1>3, <1>5, QuietStep DEF SamePhases
  <1>6. CASE Performs("remove", s)
    <2>1. /\ container[s] # "absent" /\ container'[s] = "absent"
          /\ \A x \in Sandboxes : x # s => container'[x] = container[x]
      BY <1>6, PerformsEffect DEF TypeOK, Verbs, Admits
    <2> QED
      BY <1>1, <1>2, <1>3, <1>4, <2>1, VanishStep
  <1> QED
    BY <1>5, <1>6 DEF SweepRemove, SweepSucceeds, SweepFails, runtimeVars

LEMMA SweepStep ==
  ASSUME TypeOK, Ownership, Sweep
  PROVE  LifecycleStep
  <1>1. CASE Collect
    BY <1>1, ReaperKeepsContainers DEF Collect, runtimeVars, callerVars
  <1>2. CASE SweepKill
    BY <1>2, ReaperRemoves
       DEF SweepKill, Listed, TypeOK, Ownership, RemoversUnregister
  <1>3. CASE SweepGC
    BY <1>3, ReaperRemoves
       DEF SweepGC, Listed, TypeOK, Ownership, RemoversUnregister
  <1>4. CASE SweepFallback
    BY <1>4, ReaperRemoves
       DEF SweepFallback, Listed, TypeOK, Ownership, RemoversUnregister
  <1>5. CASE SweepPause \/ SweepDemote
    <2>1. PICK s \in Sandboxes, verb \in {"pause", "stop"} :
            SweepSucceeds(s, verb) \/ SweepFails(s, verb)
      BY <1>5 DEF SweepPause, SweepDemote, TypeOK
    <2>2. \A x \in Sandboxes : container'[x] = "absent" <=> container[x] = "absent"
      BY <2>1, PerformsEffect
         DEF SweepSucceeds, SweepFails, runtimeVars, TypeOK, Verbs, Admits
    <2>3. UNCHANGED <<minted, registry, pc, target, destroyed>>
      BY <1>5 DEF SweepPause, SweepDemote, callerVars
    <2> QED
      BY <2>2, <2>3, ReaperKeepsContainers
  <1>6. CASE SweepSetFrozen \/ SweepSetDemoted \/ SweepDrop
    <2>1. /\ UNCHANGED <<container, minted, pc, target, destroyed>>
          /\ registry' \subseteq registry
      BY <1>6 DEF SweepSetFrozen, SweepSetDemoted, SweepDrop, runtimeVars,
                  callerVars, historyVars
    <2> QED
      BY <2>1, ReaperKeepsContainers
  <1> QED
    BY <1>1, <1>2, <1>3, <1>4, <1>5, <1>6 DEF Sweep

LEMMA CrashStep ==
  ASSUME TypeOK, Crash
  PROVE  LifecycleStep
  <1>1. /\ UNCHANGED <<container, minted, destroyed>> /\ registry' = {}
        /\ \A c \in Callers : pc'[c] = "idle"
    BY DEF Crash, runtimeVars
  <1>2. \A s \in Sandboxes :
          Phase(s)' = IF Phase(s) = "requested" THEN "gone" ELSE Phase(s)
    BY <1>1 DEF Phase, Creating
  <1>3. Lifecycle!Die
    BY <1>1, <1>2 DEF Lifecycle!Die
  <1> QED
    BY <1>3 DEF LifecycleStep, Lifecycle!Next

LEMMA RehydrateStep ==
  ASSUME TypeOK, Ownership, Rehydrate
  PROVE  LifecycleStep
  <1>1. /\ registry' \in SUBSET Managed /\ registry = {}
        /\ UNCHANGED <<container, minted, pc, target, destroyed>>
    BY DEF Rehydrate, Ownership, DownIsIdle, runtimeVars, callerVars
  <1>2. PICK S \in SUBSET Sandboxes : S = registry'
    BY <1>1 DEF Managed
  <1>3. S \subseteq minted /\ \A s \in S : container[s] # "absent"
    BY <1>1, <1>2 DEF Managed, Ownership, OnlyMinted
  <1>4. SamePhases
    BY <1>1 DEF SamePhases, Creating
  <1> QED
    BY <1>1, <1>2, <1>3, <1>4, ServeStep

LEMMA LifecycleInit == Init => Lifecycle!Init
  BY DEF Init, Lifecycle!Init, Phase

LEMMA LifecycleNext == TypeOK /\ Ownership /\ [Next]_vars => LifecycleStep
  <1> SUFFICES ASSUME TypeOK, Ownership, [Next]_vars
               PROVE  LifecycleStep
    OBVIOUS
  <1>1. ASSUME UNCHANGED <<container, minted, registry, pc, target, destroyed>>
        PROVE  LifecycleStep
    BY <1>1, QuietStep DEF SamePhases, Creating
  <1>2. CASE UNCHANGED vars
    BY <1>1, <1>2 DEF vars, runtimeVars, callerVars, historyVars
  <1>3. CASE Tick
    BY <1>1, <1>3 DEF Tick, runtimeVars, callerVars, historyVars
  <1>4. ASSUME NEW c \in Callers, HangUp(c)
        PROVE  LifecycleStep
    <2>1. UNCHANGED <<container, minted, registry, pc, target, destroyed>>
      BY <1>4 DEF HangUp, runtimeVars, historyVars
    <2> QED
      BY <1>1, <2>1
  <1> QED
    BY <1>2, <1>3, <1>4, RequestStep, FinishStep, SweepStep, CrashStep,
       RehydrateStep DEF Next

(* For every number of sandboxes, clients, failures and restarts: an id is  *)
(* used once, is served only while it has a container, and its container    *)
(* goes only after the id is withdrawn.                                     *)
THEOREM ManagerImplementsLifecycle == Spec => LifecycleImplemented
  <1>1. Spec => [](TypeOK /\ Ownership)
    BY TypeCorrect, OwnershipHolds, PTL
  <1> QED
    BY <1>1, LifecycleInit, LifecycleNext, PTL
       DEF Spec, LifecycleImplemented, Lifecycle!Spec, LifecycleStep
=============================================================================
