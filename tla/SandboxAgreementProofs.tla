----------------------- MODULE SandboxAgreementProofs -----------------------
(***************************************************************************)
(* Theorems about what the manager knows: the registry's word for a        *)
(* sandbox at rest is true, entries leave it only when their time has      *)
(* come, and while no call fails nothing leaks and every Destroy succeeds, *)
(* however often the process dies.                                         *)
(*                                                                         *)
(* CalmInv follows a sandbox that never had two actors at once through the *)
(* calls of its one actor; the parts below take the requests, the reaper   *)
(* and restarts in turn.  TypeOK and Ownership come from                   *)
(* SandboxManagerProofs.                                                   *)
(***************************************************************************)
EXTENDS SandboxManagerProofs

(* The container runs, or is frozen, with an envd that has had its /init. *)
Serves(s) == container[s] = "running" /\ agent[s]
Sleeps(s) == container[s] = "paused" /\ agent[s]

(* What the request of a sandbox's only actor finds at each of its steps. *)
RequestFinds(step, s) ==
  /\ step \in {"waitReady", "register", "setRunning", "pause"} => Serves(s)
  /\ step \in {"unpause", "setFrozen"} => Sleeps(s)
  /\ step = "setStopped" => container[s] = "exited"

(* What the reaper finds of the sandbox it is in the middle of. *)
ReaperFinds(s) ==
  /\ stage \in {"setFrozen", "setDemoted"}
  /\ stage = "setFrozen" => Sleeps(s)
  /\ stage = "setDemoted" => container[s] = "exited" /\ state[s] = "paused"

(* What is left between two operations, registered or not. *)
Rests(s) ==
  /\ s \in registry => Agrees(s)
  /\ container[s] \in {"running", "paused"} => agent[s]

(* What is left of the sweep. *)
Lists == toKill \cup toPause \cup toDemote \cup toGC

(* A sandbox that never had two actors or a failure has one actor at most,  *)
(* who finds it as it has left it.                                          *)
Calm(s) ==
  /\ \A c, d \in Callers : target[c] = s /\ target[d] = s => c = d
  /\ \A c \in Callers : target[c] = s =>
       /\ s \notin Lists /\ item # s
       /\ RequestFinds(pc[c], s)
  /\ (\A c \in Callers : target[c] # s) /\ item # s => Rests(s)
  /\ item = s => ReaperFinds(s)
  /\ s \in toDemote => state[s] = "paused"

(* One sweep has at most one thing to do about a sandbox. *)
ListsApart ==
  /\ item \notin Lists
  /\ toPause \cap toDemote = {}
  /\ (toKill \cup toGC) \cap (toPause \cup toDemote) = {}
  /\ toKill \cap toGC = {}

(* The inductive invariant behind QuiescentAgreement and CalmPauseSurvives. *)
CalmInv == ListsApart /\ \A s \in Sandboxes \ contended : Calm(s)

(* The second half of QuiescentAgreement, which holds between two calls too. *)
ModesFit ==
  \A s \in registry \ contended : state[s] = "running" => pauseMode[s] = "none"

(* The reaper pauses only what asked for OnTimeoutPause, so the fallback   *)
(* that destroys after a failed Pause never meets an OnTimeoutKill.        *)
PausesWereAsked ==
  /\ \A s \in toPause : onTimeout[s] = "pause"
  /\ stage \in {"setFrozen", "pauseFailed", "fallback"} => onTimeout[item] = "pause"

(* No call fails and no client hangs up; the process may die all the same. *)
Reliable == ~Faults /\ ~Disconnects

(* Then every call finds the container it is about: a Create has not made   *)
(* its own yet, and a Destroy of an OnTimeoutKill sandbox is the only one   *)
(* that will remove it.                                                    *)
Undisturbed ==
  \A c \in Callers :
    /\ live[c]
    /\ pc[c] = "containerCreate" => container[target[c]] = "absent"
    /\ pc[c] = "remove" /\ onTimeout[target[c]] = "kill" =>
         /\ container[target[c]] # "absent"
         /\ target[c] \notin toKill \cup toGC
         /\ \A d \in Callers : pc[d] = "remove" /\ target[d] = target[c] => d = c

(* A container whose Create was cut off by a crash before it was started,  *)
(* and which nothing in memory refers to any more.                         *)
Abandoned(s) ==
  /\ container[s] = "created"
  /\ s \in minted /\ s \notin registry \cup Listed
  /\ \A c \in Callers : target[c] # s

(* Only a crash leaves such containers. *)
StraysUnstarted ==
  /\ crashes = 0 => up /\ strays = {}
  /\ \A s \in strays : Abandoned(s)

-----------------------------------------------------------------------------
(***************************************************************************)
(* Frames: what a step has to leave alone to leave a sandbox calm.         *)
(***************************************************************************)

(* A step that is about other sandboxes. *)
LEMMA CalmElsewhere ==
  ASSUME NEW x, Calm(x),
         container'[x] = container[x], agent'[x] = agent[x],
         state'[x] = state[x], pauseMode'[x] = pauseMode[x],
         x \in registry' => x \in registry,
         x \in Lists' => x \in Lists, x \in toDemote' => x \in toDemote,
         item' = x <=> item = x, item = x => stage' = stage,
         \A d \in Callers : target'[d] = x <=> target[d] = x,
         \A d \in Callers : target[d] = x => pc'[d] = pc[d]
  PROVE  Calm(x)'
  BY DEF Calm, RequestFinds, ReaperFinds, Rests, Agrees, Serves, Sleeps,
         Frozen, Stopped

(* Apart from time, contexts and history nothing changes. *)
LEMMA CalmStutter ==
  ASSUME CalmInv,
         UNCHANGED <<container, agent, registry, state, pauseMode, pc, target,
                     stage, item, listVars>>,
         contended \subseteq contended'
  PROVE  CalmInv'
  <1>1. Lists' = Lists /\ toDemote' = toDemote /\ ListsApart'
    BY DEF CalmInv, ListsApart, Lists, listVars
  <1>2. ASSUME NEW x \in Sandboxes \ contended'
        PROVE  Calm(x)'
    BY <1>1, <1>2, CalmElsewhere DEF CalmInv
  <1> QED
    BY <1>1, <1>2 DEF CalmInv

(* A request begins on a sandbox that was left alone. *)
LEMMA BeginCalm ==
  ASSUME TypeOK, CalmInv, NEW c \in Callers, NEW s \in Sandboxes,
         NEW step \in Steps, Begin(c, s, step),
         registry' \subseteq registry,
         step = "idle" \/ (s \notin contended /\ Rests(s) => RequestFinds(step, s)),
         UNCHANGED <<state, pauseMode>>
  PROVE  CalmInv'
  <1>1. /\ UNCHANGED <<container, agent, stage, item, listVars>>
        /\ pc[c] = "idle" /\ target[c] = NoSandbox
        /\ pc' = [pc EXCEPT ![c] = step]
        /\ target' = [target EXCEPT ![c] = IF step = "idle" THEN NoSandbox ELSE s]
        /\ contended' = contended \cup {x \in {s} : Busy(x)}
    BY DEF Begin, runtimeVars, reaperVars, TypeOK
  <1>2. Lists' = Lists /\ toDemote' = toDemote /\ ListsApart'
    BY <1>1 DEF CalmInv, ListsApart, Lists, listVars
  <1>3. \A d \in Callers : /\ d # c => pc'[d] = pc[d] /\ target'[d] = target[d]
                           /\ pc'[c] = step
                           /\ target'[c] = IF step = "idle" THEN NoSandbox ELSE s
    BY <1>1 DEF TypeOK
  <1>4. ASSUME NEW x \in Sandboxes \ contended', x # s \/ step = "idle"
        PROVE  Calm(x)'
    <2>1. Calm(x) /\ x # NoSandbox
      BY <1>1, <1>4, SandboxAssumption DEF CalmInv
    <2> QED
      BY <1>1, <1>2, <1>3, <1>4, <2>1, CalmElsewhere
  <1>5. ASSUME s \notin contended', step # "idle"
        PROVE  Calm(s)'
    <2>1. /\ Calm(s) /\ ~Busy(s) /\ s \notin contended
      BY <1>1, <1>5 DEF CalmInv
    <2>2. /\ \A d \in Callers : target[d] # s
          /\ item # s /\ s \notin Lists
      BY <2>1 DEF Busy, Lists
    <2>3. RequestFinds(step, s)'
      BY <1>1, <1>5, <2>1, <2>2 DEF Calm, RequestFinds, Serves, Sleeps
    <2>4. \A d \in Callers : target'[d] = s <=> d = c
      BY <1>3, <1>5, <2>2
    <2>5. s \notin Lists' /\ item' # s /\ s \notin toDemote' /\ pc'[c] = step
      BY <1>1, <1>2, <1>3, <2>2 DEF Lists
    <2> QED
      BY <2>3, <2>4, <2>5 DEF Calm
  <1> QED
    BY <1>2, <1>4, <1>5 DEF CalmInv

(* The request of c goes on at step: what it finds there, or leaves behind  *)
(* at its end, is its own affair unless somebody has interfered.           *)
LEMMA AdvanceCalm ==
  ASSUME TypeOK, CalmInv, NEW c \in Callers, NEW step \in Steps, pc[c] # "idle",
         NEW t \in Sandboxes, t = target[c],
         pc' = [pc EXCEPT ![c] = step],
         target' = [target EXCEPT ![c] = IF step = "idle" THEN NoSandbox ELSE @],
         UNCHANGED <<stage, item, listVars>>, contended \subseteq contended',
         \A x \in Sandboxes \ {t} :
           /\ container'[x] = container[x] /\ agent'[x] = agent[x]
           /\ state'[x] = state[x] /\ pauseMode'[x] = pauseMode[x]
           /\ x \in registry' => x \in registry,
         t \notin contended' /\ RequestFinds(pc[c], t) =>
           IF step = "idle" THEN Rests(t)' ELSE RequestFinds(step, t)'
  PROVE  CalmInv'
  <1>2. Lists' = Lists /\ toDemote' = toDemote /\ ListsApart' /\ item' = item
    BY DEF CalmInv, ListsApart, Lists, listVars
  <1>3. /\ \A d \in Callers : d # c => pc'[d] = pc[d] /\ target'[d] = target[d]
        /\ pc'[c] = step
        /\ target'[c] = IF step = "idle" THEN NoSandbox ELSE t
    BY DEF TypeOK
  <1>4. ASSUME NEW x \in Sandboxes \ contended', x # t
        PROVE  Calm(x)'
    <2>1. Calm(x) /\ x # NoSandbox
      BY <1>4, SandboxAssumption DEF CalmInv
    <2> QED
      BY <1>2, <1>3, <1>4, <2>1, CalmElsewhere
  <1>5. ASSUME t \notin contended'
        PROVE  Calm(t)'
    <2>1. Calm(t)
      BY <1>5 DEF CalmInv
    <2>2. /\ t \notin Lists /\ item # t /\ RequestFinds(pc[c], t)
          /\ \A d \in Callers : target[d] = t => d = c
      BY <2>1 DEF Calm
    <2>3. t \notin Lists' /\ item' # t /\ t \notin toDemote'
      BY <1>2, <2>2 DEF Lists
    <2>4. CASE step = "idle"
      <3>1. Rests(t)'
        BY <1>5, <2>2, <2>4
      <3>2. \A d \in Callers : target'[d] # t
        BY <1>3, <2>2, <2>4, SandboxAssumption
      <3> QED
        BY <2>3, <3>1, <3>2 DEF Calm
    <2>5. CASE step # "idle"
      <3>1. RequestFinds(step, t)'
        BY <1>5, <2>2, <2>5
      <3>2. \A d \in Callers : target'[d] = t <=> d = c
        BY <1>3, <2>2, <2>5
      <3> QED
        BY <1>3, <2>3, <3>1, <3>2 DEF Calm
    <2> QED
      BY <2>4, <2>5
  <1> QED
    BY <1>2, <1>4, <1>5 DEF CalmInv

-----------------------------------------------------------------------------
(***************************************************************************)
(* The steps of a request.                                                 *)
(***************************************************************************)
LEMMA PerformsEverywhere ==
  ASSUME TypeOK, NEW s \in Sandboxes, NEW verb \in Verbs, Performs(verb, s)
  PROVE  /\ \A x \in Sandboxes \ {s} :
              container'[x] = container[x] /\ agent'[x] = agent[x]
         /\ container'[s] = Leaves[verb]
         /\ agent[s] /\ verb \notin {"stop", "remove"} => agent'[s]
  BY DEF TypeOK, RuntimeTypeOK, Performs, Verbs

LEMMA CallCalm ==
  ASSUME TypeOK, CalmInv, NEW c \in Callers, NEW at \in Steps \ {"idle"},
         NEW verb \in Verbs, NEW ok \in Steps \ {"idle"}, NEW err \in Steps,
         Call(c, at, verb, ok, err), NEW t \in Sandboxes, t = target[c],
         RequestFinds(at, t) /\ Performs(verb, t) => RequestFinds(ok, t)'
  PROVE  CalmInv'
  <1>1. /\ pc[c] = at
        /\ UNCHANGED <<registry, state, pauseMode, stage, item, listVars>>
    BY DEF Call, objectVars, reaperVars
  <1>2. CASE CallSucceeds(c, verb, ok)
    <2>1. /\ Performs(verb, t) /\ contended' = contended
          /\ pc' = [pc EXCEPT ![c] = ok]
          /\ target' = [target EXCEPT ![c] = IF ok = "idle" THEN NoSandbox ELSE @]
      BY <1>2 DEF CallSucceeds, Continue
    <2> QED
      BY <1>1, <2>1, PerformsEverywhere, AdvanceCalm
  <1>3. CASE CallFails(c, verb, err)
    <2>1. /\ Performs(verb, t) \/ UNCHANGED <<container, agent>>
          /\ contended' = contended \cup {t}
          /\ pc' = [pc EXCEPT ![c] = err]
          /\ target' = [target EXCEPT ![c] = IF err = "idle" THEN NoSandbox ELSE @]
      BY <1>3 DEF CallFails, CallRefused, CallLost, Continue, runtimeVars
    <2> QED
      BY <1>1, <2>1, PerformsEverywhere, AdvanceCalm
  <1> QED
    BY <1>2, <1>3 DEF Call

(* A removed container is at rest because its entry is gone. *)
LEMMA LastCallCalm ==
  ASSUME TypeOK, Ownership, CalmInv, NEW c \in Callers, NEW at, NEW verb, NEW ok,
         NEW done, LastCall(c, at, verb, ok, done),
         \/ at = "containerCreate" /\ verb = "create" /\ ok = "containerStart"
         \/ at \in {"forceRemove", "cleanup", "remove"} /\ verb = "remove" /\ ok = "idle"
  PROVE  CalmInv'
  <1>1. /\ pc[c] = at /\ pc[c] # "idle"
        /\ UNCHANGED <<registry, state, pauseMode, stage, item, listVars>>
    BY DEF LastCall, objectVars, reaperVars
  <1>2. PICK t \in Sandboxes : t = target[c]
    BY <1>1 DEF TypeOK
  <1>3. t \notin registry
    BY <1>1, <1>2 DEF Ownership, CreatorIsAlone, RemoversUnregister, CreateSteps
  <1>4. verb \in Verbs /\ ok \in Steps /\ "idle" \in Steps
    BY DEF Verbs, Admits, Steps, CreateSteps
  <1>5. CASE CallSucceeds(c, verb, ok)
    <2>1. /\ Performs(verb, t) /\ contended' = contended
          /\ pc' = [pc EXCEPT ![c] = ok]
          /\ target' = [target EXCEPT ![c] = IF ok = "idle" THEN NoSandbox ELSE @]
      BY <1>2, <1>5 DEF CallSucceeds, Continue
    <2>2. \A x \in Sandboxes \ {t} :
            container'[x] = container[x] /\ agent'[x] = agent[x]
      BY <1>4, <2>1, PerformsEverywhere
    <2>3. ok = "idle" => Rests(t)'
      <3>1. ok = "idle" => container'[t] = "absent"
        BY <1>4, <2>1, PerformsEverywhere DEF Leaves
      <3> QED
        BY <1>1, <1>3, <3>1 DEF Rests
    <2>4. ok # "idle" => RequestFinds(ok, t)'
      BY DEF RequestFinds
    <2> QED
      BY <1>1, <1>2, <1>4, <2>1, <2>2, <2>3, <2>4, AdvanceCalm
  <1>6. CASE CallFails(c, verb, "idle")
    <2>1. /\ Performs(verb, t) \/ UNCHANGED <<container, agent>>
          /\ contended' = contended \cup {t}
          /\ pc' = [pc EXCEPT ![c] = "idle"]
          /\ target' = [target EXCEPT ![c] = IF "idle" = "idle" THEN NoSandbox ELSE @]
      BY <1>2, <1>6 DEF CallFails, CallRefused, CallLost, Continue, runtimeVars
    <2>2. \A x \in Sandboxes \ {t} :
            container'[x] = container[x] /\ agent'[x] = agent[x]
      BY <1>4, <2>1, PerformsEverywhere
    <2> QED
      BY <1>1, <1>2, <1>4, <2>1, <2>2, AdvanceCalm
  <1> QED
    BY <1>5, <1>6 DEF LastCall

LEMMA AgentCallCalm ==
  ASSUME TypeOK, CalmInv, NEW c \in Callers, NEW at \in Steps \ {"idle"},
         NEW ok \in {"waitReady", "setRunning"}, NEW err \in Steps,
         AgentCall(c, at, ok, err)
  PROVE  CalmInv'
  <1>1. /\ pc[c] = at
        /\ UNCHANGED <<container, registry, state, pauseMode, stage, item, listVars>>
    BY DEF AgentCall, AgentInitialised, objectVars, reaperVars, runtimeVars
  <1>2. PICK t \in Sandboxes : t = target[c]
    BY <1>1 DEF TypeOK
  <1>3. ok \in Steps /\ ok # "idle"
    BY DEF Steps, CreateSteps
  <1>4. AgentInitialised(t) => /\ \A x \in Sandboxes \ {t} : agent'[x] = agent[x]
                               /\ Serves(t)'
    BY DEF AgentInitialised, Serves, TypeOK, RuntimeTypeOK
  <1>5. CASE AgentInitialised(t) /\ Continue(c, ok, TRUE) /\ contended' = contended
    <2>1. RequestFinds(ok, t)'
      BY <1>4, <1>5 DEF RequestFinds
    <2> QED
      BY <1>1, <1>2, <1>3, <1>4, <1>5, <2>1, AdvanceCalm DEF Continue
  <1>6. CASE /\ AgentInitialised(t) \/ UNCHANGED agent
             /\ \E connected \in BOOLEAN : Continue(c, err, connected)
             /\ contended' = contended \cup {t}
    BY <1>1, <1>2, <1>4, <1>6, AdvanceCalm DEF Continue
  <1> QED
    BY <1>2, <1>5, <1>6 DEF AgentCall, TypeOK, runtimeVars

LEMMA WaitReadyCalm ==
  ASSUME TypeOK, CalmInv, NEW c \in Callers, WaitReady(c)
  PROVE  CalmInv'
  <1>1. /\ pc[c] = "waitReady"
        /\ UNCHANGED <<container, agent, registry, state, pauseMode, stage, item,
                       listVars, contended>>
    BY DEF WaitReady, objectVars, reaperVars, runtimeVars, historyVars
  <1>2. PICK t \in Sandboxes : t = target[c]
    BY <1>1 DEF TypeOK
  <1>3. PICK step \in {"register", "cleanup"}, connected \in BOOLEAN :
          Continue(c, step, connected)
    BY DEF WaitReady, TypeOK
  <1>4. RequestFinds("waitReady", t) => RequestFinds(step, t)'
    BY <1>1 DEF RequestFinds, Serves
  <1> QED
    BY <1>1, <1>2, <1>3, <1>4, AdvanceCalm DEF Continue, Steps, CreateSteps

(* What a commit says is what its request has made of the container. *)
LEMMA ReturnCalm ==
  ASSUME TypeOK, CalmInv, NEW c \in Callers,
         NEW at \in {"register", "setRunning", "setFrozen", "setStopped"},
         NEW t \in Sandboxes, t = target[c], Return(c, at),
         registry' \subseteq registry \cup {t},
         state' = [state EXCEPT ![t] =
                     IF at \in {"register", "setRunning"} THEN "running" ELSE "paused"],
         pauseMode' = [pauseMode EXCEPT ![t] =
                         CASE at = "setFrozen" -> "frozen"
                           [] at = "setStopped" -> "stopped"
                           [] OTHER -> "none"]
  PROVE  CalmInv'
  <1>1. /\ pc[c] = at /\ pc[c] # "idle" /\ "idle" \in Steps
        /\ pc' = [pc EXCEPT ![c] = "idle"]
        /\ target' = [target EXCEPT ![c] = IF "idle" = "idle" THEN NoSandbox ELSE @]
        /\ UNCHANGED <<container, agent, stage, item, listVars, contended>>
    BY DEF Return, Continue, Steps, runtimeVars, reaperVars, historyVars
  <1>2. /\ state'[t] = IF at \in {"register", "setRunning"} THEN "running" ELSE "paused"
        /\ pauseMode'[t] = CASE at = "setFrozen" -> "frozen"
                             [] at = "setStopped" -> "stopped"
                             [] OTHER -> "none"
        /\ \A x \in Sandboxes \ {t} :
             state'[x] = state[x] /\ pauseMode'[x] = pauseMode[x]
    BY DEF TypeOK
  <1>3. RequestFinds(at, t) => Rests(t)'
    BY <1>1, <1>2 DEF RequestFinds, Serves, Sleeps, Rests, Agrees, Frozen, Stopped
  <1> QED
    BY <1>1, <1>2, <1>3, AdvanceCalm

LEMMA RequestCalm ==
  ASSUME TypeOK, CalmInv, NEW c \in Callers, Request(c)
  PROVE  CalmInv'
  <1> USE DEF Steps, CreateSteps
  <1>1. CASE CreateBegin(c)
    <2>1. PICK s \in Sandboxes : Begin(c, s, "containerCreate")
      BY <1>1 DEF CreateBegin
    <2>2. UNCHANGED <<registry, state, pauseMode>>
      BY <1>1 DEF CreateBegin
    <2> QED
      BY <2>1, <2>2, BeginCalm DEF RequestFinds
  <1>2. CASE DestroyBegin(c)
    <2>1. PICK s \in registry : /\ Begin(c, s, "remove")
                                /\ registry' = registry \ {s}
      BY <1>2 DEF DestroyBegin
    <2>2. s \in Sandboxes /\ UNCHANGED <<state, pauseMode>>
      BY <1>2 DEF DestroyBegin, objectVars, TypeOK
    <2> QED
      BY <2>1, <2>2, BeginCalm DEF RequestFinds
  <1>3. CASE SetTimeout(c)
    <2>1. PICK s \in registry : Begin(c, s, "idle")
      BY <1>3 DEF SetTimeout
    <2>2. s \in Sandboxes /\ UNCHANGED <<registry, state, pauseMode>>
      BY <1>3 DEF SetTimeout, TypeOK
    <2> QED
      BY <2>1, <2>2, BeginCalm
  <1>4. ASSUME NEW s \in registry, Begin(c, s, ResumeStep(s)),
               UNCHANGED <<registry, state, pauseMode>>
        PROVE  CalmInv'
    <2>1. s \in Sandboxes /\ ResumeStep(s) \in {"idle", "start", "unpause"}
      BY <1>4 DEF ResumeStep, TypeOK
    <2>2. Rests(s) => RequestFinds(ResumeStep(s), s)
      BY <1>4 DEF Rests, Agrees, Frozen, Stopped, ResumeStep, RequestFinds, Sleeps
    <2> QED
      BY <1>4, <2>1, <2>2, BeginCalm
  <1>5. CASE ConnectBegin(c)
    BY <1>4, <1>5 DEF ConnectBegin
  <1>6. CASE ResumeBegin(c)
    BY <1>4, <1>6 DEF ResumeBegin, objectVars
  <1>7. CASE PauseBegin(c)
    <2>1. PICK s \in registry : state[s] # "paused" /\ Begin(c, s, "pause")
      BY <1>7 DEF PauseBegin
    <2>2. s \in Sandboxes /\ UNCHANGED <<registry, state, pauseMode>>
      BY <1>7 DEF PauseBegin, objectVars, TypeOK
    <2>3. Rests(s) => RequestFinds("pause", s)
      BY <2>1 DEF Rests, Agrees, Frozen, Stopped, RequestFinds, Serves
    <2> QED
      BY <2>1, <2>2, <2>3, BeginCalm
  <1>8. CASE StopBegin(c)
    <2>1. PICK s \in registry, step \in {"stopUnpause", "stop"} : Begin(c, s, step)
      BY <1>8 DEF StopBegin
    <2>2. s \in Sandboxes /\ UNCHANGED <<registry, state, pauseMode>>
      BY <1>8 DEF StopBegin, objectVars, TypeOK
    <2> QED
      BY <2>1, <2>2, BeginCalm DEF RequestFinds
  <1> QED
    BY <1>1, <1>2, <1>3, <1>5, <1>6, <1>7, <1>8 DEF Request

LEMMA FinishCalm ==
  ASSUME TypeOK, Ownership, CalmInv, NEW c \in Callers, Finish(c)
  PROVE  CalmInv'
  <1> USE DEF Steps, CreateSteps, Verbs, Admits
  (* Calls that find nothing and leave nothing to rely on but their effect. *)
  <1>1. ASSUME NEW at \in Steps \ {"idle"}, NEW verb \in Verbs,
               NEW ok \in Steps \ {"idle"}, NEW err \in Steps,
               Call(c, at, verb, ok, err),
               \/ ok \in {"initAgent", "reinit", "stop"}
               \/ at = "unpause" /\ verb = "unpause" /\ ok = "setRunning"
               \/ at = "pause" /\ verb = "pause" /\ ok = "setFrozen"
               \/ verb = "stop" /\ ok = "setStopped"
        PROVE  CalmInv'
    <2>1. PICK t \in Sandboxes : t = target[c]
      BY <1>1 DEF Call, TypeOK
    <2>2. ASSUME RequestFinds(at, t), Performs(verb, t)
          PROVE  RequestFinds(ok, t)'
      <3>1. /\ container'[t] = Leaves[verb]
            /\ agent[t] /\ verb \notin {"stop", "remove"} => agent'[t]
        BY <2>2, PerformsEverywhere
      <3> QED
        BY <1>1, <2>2, <3>1 DEF RequestFinds, Serves, Sleeps, Leaves
    <2> QED
      BY <1>1, <2>1, <2>2, CallCalm
  <1>2. CASE ContainerCreate(c)
    BY <1>2, LastCallCalm DEF ContainerCreate
  <1>3. CASE ContainerStart(c)
    BY <1>1, <1>3 DEF ContainerStart
  <1>4. CASE ForceRemove(c)
    BY <1>4, LastCallCalm DEF ForceRemove
  <1>5. CASE InitAgent(c)
    BY <1>5, AgentCallCalm DEF InitAgent
  <1>6. CASE WaitReady(c)
    BY <1>6, WaitReadyCalm
  <1>7. CASE Cleanup(c)
    BY <1>7, LastCallCalm DEF Cleanup
  <1>8. CASE Register(c)
    <2>1. PICK t \in Sandboxes : t = target[c]
      BY <1>8 DEF Register, Return, TypeOK
    <2> QED
      BY <1>8, <2>1, ReturnCalm DEF Register
  <1>9. CASE DestroyContainer(c)
    BY <1>9, LastCallCalm DEF DestroyContainer
  <1>10. CASE Unpause(c)
    BY <1>1, <1>10 DEF Unpause
  <1>11. CASE StartAgain(c)
    BY <1>1, <1>11 DEF StartAgain
  <1>12. CASE Reinit(c)
    BY <1>12, AgentCallCalm DEF Reinit
  <1>13. CASE SetRunning(c)
    <2>1. PICK t \in Sandboxes : t = target[c]
      BY <1>13 DEF SetRunning, Return, TypeOK
    <2> QED
      BY <1>13, <2>1, ReturnCalm DEF SetRunning
  <1>14. CASE PauseContainer(c)
    BY <1>1, <1>14 DEF PauseContainer
  <1>15. CASE SetFrozen(c)
    <2>1. PICK t \in Sandboxes : t = target[c]
      BY <1>15 DEF SetFrozen, SetPaused, Return, TypeOK
    <2> QED
      BY <1>15, <2>1, ReturnCalm DEF SetFrozen, SetPaused
  <1>16. CASE StopUnpause(c)
    BY <1>1, <1>16 DEF StopUnpause
  <1>17. CASE StopContainer(c)
    BY <1>1, <1>17 DEF StopContainer
  <1>18. CASE SetStopped(c)
    <2>1. PICK t \in Sandboxes : t = target[c]
      BY <1>18 DEF SetStopped, SetPaused, Return, TypeOK
    <2> QED
      BY <1>18, <2>1, ReturnCalm DEF SetStopped, SetPaused
  <1> QED
    BY <1>2, <1>3, <1>4, <1>5, <1>6, <1>7, <1>8, <1>9, <1>10, <1>11, <1>12,
       <1>13, <1>14, <1>15, <1>16, <1>17, <1>18 DEF Finish

-----------------------------------------------------------------------------
(***************************************************************************)
(* The reaper.                                                             *)
(***************************************************************************)

(* The sweep does something about s and nothing about the others. *)
LEMMA SweepCalm ==
  ASSUME TypeOK, CalmInv, NEW s \in Sandboxes, UNCHANGED <<pc, target>>, ListsApart',
         contended \subseteq contended', registry' \subseteq registry,
         \A x \in Sandboxes \ {s} :
           /\ container'[x] = container[x] /\ agent'[x] = agent[x]
           /\ state'[x] = state[x] /\ pauseMode'[x] = pauseMode[x]
           /\ x \in Lists' => x \in Lists
           /\ x \in toDemote' => x \in toDemote
           /\ item' = x <=> item = x
           /\ item = x => stage' = stage,
         s \notin contended' => Calm(s)'
  PROVE  CalmInv'
  <1>1. ASSUME NEW x \in Sandboxes \ contended', x # s
        PROVE  Calm(x)'
    <2>1. Calm(x)
      BY <1>1 DEF CalmInv
    <2> QED
      BY <1>1, <2>1, CalmElsewhere
  <1> QED
    BY <1>1 DEF CalmInv

(* One more container of the kill or the GC list is gone. *)
LEMMA RemovalCalm ==
  ASSUME TypeOK, Ownership, CalmInv, NEW s \in toKill \cup toGC, SweepRemove(s),
         UNCHANGED <<stage, item, toPause, toDemote>>,
         toKill' = toKill \ {s}, toGC' = toGC \ {s}
  PROVE  CalmInv'
  <1>1. /\ s \in Sandboxes /\ s \notin registry /\ s # item
        /\ s \notin toPause \cup toDemote
    BY DEF Ownership, RemoversUnregister, CalmInv, ListsApart, Lists, TypeOK
  <1>2. UNCHANGED <<registry, state, pauseMode, pc, target>>
    BY DEF SweepRemove, objectVars, callerVars
  <1>3. /\ contended \subseteq contended'
        /\ \A x \in Sandboxes \ {s} :
             container'[x] = container[x] /\ agent'[x] = agent[x]
        /\ s \notin contended' => container'[s] = "absent"
    <2>1. CASE SweepSucceeds(s, "remove")
      BY <1>1, <2>1, PerformsEverywhere DEF SweepSucceeds, Verbs, Admits, Leaves
    <2>2. CASE SweepFails(s, "remove")
      BY <1>1, <2>2, PerformsEverywhere DEF SweepFails, Verbs, Admits, runtimeVars
    <2> QED
      BY <2>1, <2>2 DEF SweepRemove
  <1>4. ListsApart' /\ Lists' = Lists \ {s}
    BY <1>1 DEF CalmInv, ListsApart, Lists
  <1>5. s \notin contended' => Calm(s)'
    <2>1. s \notin contended => \A c \in Callers : target[c] # s
      BY <1>1 DEF CalmInv, Calm, Lists
    <2> QED
      BY <1>1, <1>2, <1>3, <1>4, <2>1 DEF Calm, Rests
  <1> QED
    BY <1>1, <1>2, <1>3, <1>4, <1>5, SweepCalm

(* What the sweep takes up is at rest: whatever else has it is contended.  *)
LEMMA CollectCalm ==
  ASSUME TypeOK, CalmInv, Collect
  PROVE  CalmInv'
  <1>1. /\ item = NoSandbox /\ item' = item /\ stage' = stage
        /\ UNCHANGED <<container, agent, state, pauseMode, pc, target>>
        /\ registry' \subseteq registry
        /\ contended' = contended \cup {s \in Lists' : Busy(s)}
    BY DEF Collect, SweepDone, runtimeVars, objectVars, callerVars, TypeOK, Lists
  <1>2. /\ toPause' \subseteq Expired /\ toKill' = Expired \ toPause'
        /\ toDemote' \subseteq Frozen /\ toGC' \subseteq Stopped
    BY DEF Collect, Lapsed
  <1>3. ListsApart' /\ Lists' \subseteq Sandboxes
    BY <1>1, <1>2, SandboxAssumption
       DEF ListsApart, Lists, Expired, Frozen, Stopped, TypeOK
  <1>4. ASSUME NEW x \in Sandboxes \ contended'
        PROVE  Calm(x)'
    <2>1. Calm(x) /\ x # item
      BY <1>1, <1>4, SandboxAssumption DEF CalmInv
    <2>2. CASE x \notin Lists'
      <3>1. x \notin toDemote'
        BY <2>2 DEF Lists
      <3> QED
        BY <1>1, <2>1, <2>2, <3>1, CalmElsewhere
    <2>3. CASE x \in Lists'
      <3>1. \A c \in Callers : target[c] # x
        BY <1>1, <1>4, <2>3 DEF Busy
      <3>2. Rests(x)'
        BY <1>1, <2>1, <3>1 DEF Calm, Rests, Agrees, Frozen, Stopped
      <3>3. x \in toDemote' => state'[x] = "paused"
        BY <1>1, <1>2 DEF Frozen
      <3> QED
        BY <1>1, <2>1, <3>1, <3>2, <3>3 DEF Calm
    <2> QED
      BY <2>2, <2>3
  <1> QED
    BY <1>3, <1>4 DEF CalmInv

LEMMA SweepPauseCalm ==
  ASSUME TypeOK, CalmInv, SweepPause
  PROVE  CalmInv'
  <1>1. PICK s \in toPause :
          /\ stage = "next" /\ toPause' = toPause \ {s}
          /\ \/ SweepSucceeds(s, "pause") /\ SweepStage("setFrozen", s)
             \/ SweepFails(s, "pause") /\ SweepStage("pauseFailed", s)
    BY DEF SweepPause
  <1>2. /\ UNCHANGED <<registry, state, pauseMode, pc, target, toKill, toDemote, toGC>>
        /\ s \in Sandboxes /\ item = NoSandbox /\ item' = s
        /\ s \notin toKill \cup toDemote \cup toGC
    BY <1>1 DEF SweepPause, SweepStage, objectVars, callerVars, TypeOK, CalmInv,
                ListsApart
  <1>3. ListsApart' /\ Lists' \subseteq Lists
    BY <1>1, <1>2 DEF CalmInv, ListsApart, Lists
  <1>4. /\ contended \subseteq contended'
        /\ \A x \in Sandboxes \ {s} :
             container'[x] = container[x] /\ agent'[x] = agent[x]
        /\ s \notin contended' =>
             /\ stage' = "setFrozen" /\ container[s] = "running"
             /\ container'[s] = "paused" /\ (agent[s] => agent'[s])
    <2>1. CASE SweepSucceeds(s, "pause") /\ SweepStage("setFrozen", s)
      <3>1. Performs("pause", s) /\ "pause" \in Verbs
        BY <2>1 DEF SweepSucceeds, Verbs, Admits
      <3>2. container[s] = "running" /\ Leaves["pause"] = "paused"
        BY <3>1 DEF Performs, Admits, Leaves
      <3> QED
        BY <1>2, <2>1, <3>1, <3>2, PerformsEverywhere DEF SweepSucceeds, SweepStage
    <2>2. CASE SweepFails(s, "pause")
      BY <1>2, <2>2, PerformsEverywhere DEF SweepFails, Verbs, Admits, runtimeVars
    <2> QED
      BY <1>1, <2>1, <2>2
  <1>5. s \notin contended' => Calm(s)'
    <2> SUFFICES ASSUME s \notin contended'
                 PROVE  Calm(s)'
      OBVIOUS
    <2>1. Calm(s) /\ s \in Lists
      BY <1>1, <1>2, <1>4 DEF CalmInv, Lists
    <2>2. (\A c \in Callers : target[c] # s) /\ agent[s]
      BY <1>2, <1>4, <2>1, SandboxAssumption DEF Calm, Rests
    <2>3. ReaperFinds(s)'
      BY <1>4, <2>2 DEF ReaperFinds, Sleeps
    <2> QED
      BY <1>2, <2>2, <2>3 DEF Calm
  <1> QED
    BY <1>2, <1>3, <1>4, <1>5, SandboxAssumption, SweepCalm

LEMMA SweepDemoteCalm ==
  ASSUME TypeOK, CalmInv, SweepDemote
  PROVE  CalmInv'
  <1>1. PICK s \in toDemote :
          /\ stage = "next" /\ toDemote' = toDemote \ {s}
          /\ \/ SweepSucceeds(s, "stop") /\ SweepStage("setDemoted", s)
             \/ SweepFails(s, "stop") /\ UNCHANGED <<stage, item>>
    BY DEF SweepDemote
  <1>2. /\ UNCHANGED <<registry, state, pauseMode, pc, target, toKill, toPause, toGC>>
        /\ s \in Sandboxes /\ item = NoSandbox /\ item' \in {s, NoSandbox}
        /\ s \notin toKill \cup toPause \cup toGC
    BY <1>1 DEF SweepDemote, SweepStage, objectVars, callerVars, TypeOK, CalmInv,
                ListsApart
  <1>3. ListsApart' /\ Lists' \subseteq Lists
    BY <1>1, <1>2 DEF CalmInv, ListsApart, Lists
  <1>4. /\ contended \subseteq contended'
        /\ \A x \in Sandboxes \ {s} :
             container'[x] = container[x] /\ agent'[x] = agent[x]
        /\ s \notin contended' =>
             stage' = "setDemoted" /\ item' = s /\ container'[s] = "exited"
    <2>1. CASE SweepSucceeds(s, "stop") /\ SweepStage("setDemoted", s)
      BY <1>2, <2>1, PerformsEverywhere
         DEF SweepSucceeds, SweepStage, Verbs, Admits, Leaves
    <2>2. CASE SweepFails(s, "stop")
      BY <1>2, <2>2, PerformsEverywhere DEF SweepFails, Verbs, Admits, runtimeVars
    <2> QED
      BY <1>1, <2>1, <2>2
  <1>5. s \notin contended' => Calm(s)'
    <2> SUFFICES ASSUME s \notin contended'
                 PROVE  Calm(s)'
      OBVIOUS
    <2>1. Calm(s) /\ s \in Lists
      BY <1>1, <1>2, <1>4 DEF CalmInv, Lists
    <2>2. (\A c \in Callers : target[c] # s) /\ state[s] = "paused"
      BY <1>1, <2>1 DEF Calm
    <2>3. ReaperFinds(s)'
      BY <1>2, <1>4, <2>2 DEF ReaperFinds
    <2> QED
      BY <1>1, <1>2, <1>4, <2>2, <2>3 DEF Calm
  <1> QED
    BY <1>1, <1>2, <1>3, <1>4, <1>5, SandboxAssumption, SweepCalm

(* The locked section after a Pause or a demotion of the reaper. *)
LEMMA SweepCommitCalm ==
  ASSUME TypeOK, CalmInv, SweepSetFrozen \/ SweepSetDemoted
  PROVE  CalmInv'
  <1>1. /\ UNCHANGED <<container, agent, registry, pc, target, listVars, contended>>
        /\ item \in Sandboxes /\ item' = NoSandbox /\ stage' = "next"
        /\ stage \in {"setFrozen", "setDemoted"}
    BY DEF SweepSetFrozen, SweepSetDemoted, SweepStage, TypeOK, runtimeVars,
           callerVars, historyVars
  <1>2. PICK s \in Sandboxes : s = item
    BY <1>1
  <1>3. /\ \A x \in Sandboxes \ {s} :
             state'[x] = state[x] /\ pauseMode'[x] = pauseMode[x]
        /\ stage = "setFrozen" => state'[s] = "paused" /\ pauseMode'[s] = "frozen"
        /\ stage = "setDemoted" => state'[s] = state[s] /\ pauseMode'[s] = "stopped"
    BY <1>1, <1>2 DEF SweepSetFrozen, SweepSetDemoted, TypeOK
  <1>4. ListsApart' /\ Lists' = Lists /\ toDemote' = toDemote /\ s \notin Lists
    BY <1>1, <1>2, SandboxAssumption DEF CalmInv, ListsApart, Lists, listVars, TypeOK
  <1>5. s \notin contended' => Calm(s)'
    <2> SUFFICES ASSUME s \notin contended'
                 PROVE  Calm(s)'
      OBVIOUS
    <2>1. Calm(s)
      BY <1>1 DEF CalmInv
    <2>2. (\A c \in Callers : target[c] # s) /\ ReaperFinds(s)
      BY <1>2, <2>1 DEF Calm
    <2>3. Rests(s)'
      BY <1>1, <1>3, <2>2
         DEF ReaperFinds, Sleeps, Rests, Agrees, Frozen, Stopped
    <2>4. s \notin toDemote
      BY <1>4 DEF Lists
    <2> QED
      BY <1>1, <1>4, <2>2, <2>3, <2>4, SandboxAssumption DEF Calm
  <1> QED
    BY <1>1, <1>2, <1>3, <1>4, <1>5, SandboxAssumption, SweepCalm

(* The fallback is about a sandbox whose Pause has failed. *)
LEMMA SweepFallbackCalm ==
  ASSUME TypeOK, CalmInv, SweepDrop \/ SweepFallback
  PROVE  CalmInv'
  <1>1. /\ stage \in {"pauseFailed", "fallback"} /\ item \in Sandboxes
        /\ UNCHANGED <<state, pauseMode, pc, target, listVars>>
        /\ registry' \subseteq registry /\ item' \in {item, NoSandbox}
    BY DEF SweepDrop, SweepFallback, SweepRemove, SweepStage, objectVars,
           callerVars, TypeOK
  <1>2. PICK s \in Sandboxes : s = item
    BY <1>1
  <1>3. s \in contended
    BY <1>1, <1>2 DEF CalmInv, Calm, ReaperFinds
  <1>4. /\ contended \subseteq contended'
        /\ \A x \in Sandboxes \ {s} :
             container'[x] = container[x] /\ agent'[x] = agent[x]
    <2>1. CASE SweepDrop
      BY <2>1 DEF SweepDrop, runtimeVars, historyVars
    <2>2. CASE SweepSucceeds(s, "remove")
      BY <1>2, <2>2, PerformsEverywhere DEF SweepSucceeds, Verbs, Admits
    <2>3. CASE SweepFails(s, "remove")
      BY <1>2, <2>3, PerformsEverywhere DEF SweepFails, Verbs, Admits, runtimeVars
    <2> QED
      BY <1>2, <2>1, <2>2, <2>3 DEF SweepFallback, SweepRemove
  <1>5. ListsApart' /\ Lists' = Lists /\ toDemote' = toDemote
    BY <1>1, SandboxAssumption DEF CalmInv, ListsApart, Lists, listVars, TypeOK
  <1> QED
    BY <1>1, <1>2, <1>3, <1>4, <1>5, SandboxAssumption, SweepCalm

-----------------------------------------------------------------------------
(***************************************************************************)
(* Restarts, and all steps together.                                       *)
(***************************************************************************)

(* Whoever was at work on a sandbox when the process died is gone, and the  *)
(* sandbox counts as contended.                                            *)
LEMMA CrashCalm ==
  ASSUME TypeOK, CalmInv, Crash
  PROVE  CalmInv'
  <1>1. /\ \A c \in Callers : target'[c] = NoSandbox
        /\ item' = NoSandbox /\ Lists' = {} /\ toDemote' = {} /\ ListsApart'
        /\ registry' = {} /\ UNCHANGED <<container, agent>>
    BY SandboxAssumption DEF Crash, SweepStage, ListsApart, Lists, runtimeVars
  <1>2. ASSUME NEW x \in Sandboxes \ contended'
        PROVE  Calm(x)'
    <2>1. Calm(x) /\ ~Busy(x) /\ x # NoSandbox
      BY <1>2, SandboxAssumption DEF Crash, CalmInv
    <2>2. Rests(x)
      BY <2>1 DEF Calm, Busy
    <2>3. Rests(x)'
      BY <1>1, <2>2 DEF Rests
    <2> QED
      BY <1>1, <2>1, <2>3 DEF Calm
  <1> QED
    BY <1>1, <1>2 DEF CalmInv

(* What Rehydrate reads off a container is what the container is. *)
LEMMA RehydrateCalm ==
  ASSUME TypeOK, Ownership, CalmInv, Rehydrate
  PROVE  CalmInv'
  <1>1. /\ \A c \in Callers : target[c] = NoSandbox /\ target'[c] = NoSandbox
        /\ item = NoSandbox /\ item' = NoSandbox
        /\ Lists' = {} /\ toDemote' = {} /\ ListsApart'
        /\ UNCHANGED <<container, agent, contended>>
    BY SandboxAssumption
       DEF Rehydrate, Ownership, DownIsIdle, SweepDone, TypeOK, ListsApart, Lists,
           callerVars, listVars, reaperVars, runtimeVars
  <1>2. ASSUME NEW x \in Sandboxes \ contended'
        PROVE  Calm(x)'
    <2>1. Calm(x) /\ x # NoSandbox
      BY <1>1, <1>2, SandboxAssumption DEF CalmInv
    <2>2. Rests(x)
      BY <1>1, <2>1 DEF Calm
    <2>3. x \in registry' =>
            /\ x \in Managed
            /\ state'[x] = ManagedState(x) /\ pauseMode'[x] = ManagedMode(x)
      BY DEF Rehydrate
    <2>4. Rests(x)'
      BY <1>1, <2>2, <2>3
         DEF Rests, Agrees, Frozen, Stopped, Managed, ManagedState, ManagedMode
    <2> QED
      BY <1>1, <2>1, <2>4 DEF Calm
  <1> QED
    BY <1>1, <1>2 DEF CalmInv

LEMMA CalmInit ==
  ASSUME Init
  PROVE  CalmInv
  <1>1. /\ \A c \in Callers : target[c] = NoSandbox
        /\ item = NoSandbox /\ Lists = {} /\ toDemote = {} /\ ListsApart
        /\ registry = {} /\ \A x \in Sandboxes : container[x] = "absent"
    BY SandboxAssumption DEF Init, RuntimeInit, ListsApart, Lists
  <1> QED
    BY <1>1, SandboxAssumption DEF CalmInv, Calm, Rests

LEMMA CalmStep ==
  ASSUME TypeOK, Ownership, CalmInv, [Next]_vars
  PROVE  CalmInv'
  <1>1. CASE UNCHANGED vars
    BY <1>1, CalmStutter
       DEF vars, runtimeVars, objectVars, callerVars, reaperVars, historyVars
  <1>2. ASSUME NEW c \in Callers, Request(c) \/ Finish(c) \/ HangUp(c)
        PROVE  CalmInv'
    <2>1. CASE Request(c)
      BY <2>1, RequestCalm
    <2>2. CASE Finish(c)
      BY <2>2, FinishCalm
    <2>3. CASE HangUp(c)
      BY <2>3, CalmStutter
         DEF HangUp, runtimeVars, objectVars, reaperVars, historyVars
    <2> QED
      BY <1>2, <2>1, <2>2, <2>3
  <1>3. CASE Sweep
    <2>1. CASE SweepKill
      <3>1. PICK s \in toKill : toKill' = toKill \ {s} /\ SweepRemove(s)
        BY <2>1 DEF SweepKill
      <3>2. s \notin toGC
        BY DEF CalmInv, ListsApart
      <3> QED
        BY <2>1, <3>1, <3>2, RemovalCalm DEF SweepKill
    <2>2. CASE SweepGC
      <3>1. PICK s \in toGC : toGC' = toGC \ {s} /\ SweepRemove(s)
        BY <2>2 DEF SweepGC
      <3>2. s \notin toKill
        BY DEF CalmInv, ListsApart
      <3> QED
        BY <2>2, <3>1, <3>2, RemovalCalm DEF SweepGC
    <2> QED
      BY <1>3, <2>1, <2>2, CollectCalm, SweepPauseCalm, SweepDemoteCalm,
         SweepCommitCalm, SweepFallbackCalm DEF Sweep
  <1>4. CASE Tick
    BY <1>4, CalmStutter DEF Tick, runtimeVars, callerVars, historyVars
  <1> QED
    BY <1>1, <1>2, <1>3, <1>4, CrashCalm, RehydrateCalm DEF Next

(* Once contended, always contended. *)
LEMMA ContendedGrows ==
  ASSUME [Next]_vars
  PROVE  contended \subseteq contended'
  <1>1. ASSUME NEW c \in Callers, Request(c)
        PROVE  contended \subseteq contended'
    BY <1>1 DEF Request, CreateBegin, DestroyBegin, SetTimeout, ConnectBegin,
                ResumeBegin, PauseBegin, StopBegin, Begin
  <1>2. ASSUME NEW c \in Callers, Finish(c)
        PROVE  contended \subseteq contended'
    BY <1>2 DEF Finish, ContainerCreate, ContainerStart, ForceRemove, InitAgent,
                WaitReady, Cleanup, Register, DestroyContainer, Unpause, StartAgain,
                Reinit, SetRunning, PauseContainer, SetFrozen, StopUnpause,
                StopContainer, SetStopped, SetPaused, Call, CallSucceeds, CallFails,
                CallRefused, CallLost, LastCall, AgentCall, Return, historyVars
  <1>3. CASE Sweep
    BY <1>3 DEF Sweep, Collect, SweepKill, SweepPause, SweepSetFrozen, SweepDrop,
                SweepFallback, SweepDemote, SweepSetDemoted, SweepGC, SweepRemove,
                SweepSucceeds, SweepFails, historyVars
  <1> QED
    BY <1>1, <1>2, <1>3
       DEF Next, HangUp, Tick, Crash, Rehydrate, vars, historyVars

LEMMA ModesInit == Init => ModesFit
  BY DEF Init, ModesFit

(* A locked section that says "running" empties PauseMode, and the one that *)
(* says "stopped" without looking at State finds it paused.                *)
LEMMA ModesStep ==
  ASSUME TypeOK, Ownership, CalmInv, ModesFit, [Next]_vars
  PROVE  ModesFit'
  <1>1. contended \subseteq contended'
    BY ContendedGrows
  <1>2. CASE registry' \subseteq registry /\ UNCHANGED <<state, pauseMode>>
    BY <1>1, <1>2 DEF ModesFit
  <1>3. ASSUME NEW c \in Callers, Request(c) \/ Finish(c) \/ HangUp(c)
        PROVE  ModesFit'
    <2>1. CASE Request(c)
      BY <1>2, <2>1 DEF Request, CreateBegin, DestroyBegin, SetTimeout,
                        ConnectBegin, ResumeBegin, PauseBegin, StopBegin, objectVars
    <2>2. ASSUME NEW at, pc[c] = at, at # "idle", NEW run, NEW mode,
                 run = "running" => mode = "none",
                 state' = [state EXCEPT ![target[c]] = run],
                 pauseMode' = [pauseMode EXCEPT ![target[c]] = mode],
                 registry' \subseteq registry \cup {target[c]}
          PROVE  ModesFit'
      <3>1. PICK t \in Sandboxes : t = target[c]
        BY <2>2 DEF TypeOK
      <3>2. /\ state'[t] = run /\ pauseMode'[t] = mode
            /\ \A x \in Sandboxes \ {t} :
                 state'[x] = state[x] /\ pauseMode'[x] = pauseMode[x]
        BY <2>2, <3>1 DEF TypeOK
      <3> QED
        BY <1>1, <2>2, <3>1, <3>2 DEF ModesFit, TypeOK
    <2>3. CASE Register(c)
      BY <2>2, <2>3 DEF Register, Return
    <2>4. CASE SetRunning(c)
      BY <2>2, <2>4 DEF SetRunning, Return
    <2>5. CASE SetFrozen(c) \/ SetStopped(c)
      BY <2>2, <2>5 DEF SetFrozen, SetStopped, SetPaused, Return
    <2>6. CASE Finish(c)
      BY <1>2, <2>3, <2>4, <2>5, <2>6
         DEF Finish, ContainerCreate, ContainerStart, ForceRemove, InitAgent,
             WaitReady, Cleanup, DestroyContainer, Unpause, StartAgain, Reinit,
             PauseContainer, StopUnpause, StopContainer, Call, LastCall, AgentCall,
             objectVars
    <2>7. CASE HangUp(c)
      BY <1>2, <2>7 DEF HangUp, objectVars
    <2> QED
      BY <1>3, <2>1, <2>6, <2>7
  <1>4. CASE SweepSetFrozen
    BY <1>1, <1>4 DEF SweepSetFrozen, ModesFit, TypeOK
  <1>5. CASE SweepSetDemoted
    <2>1. item \in Sandboxes /\ stage = "setDemoted"
      BY <1>5 DEF SweepSetDemoted, TypeOK
    <2>2. item \notin contended => state[item] = "paused"
      BY <2>1 DEF CalmInv, Calm, ReaperFinds
    <2> QED
      BY <1>1, <1>5, <2>1, <2>2 DEF SweepSetDemoted, ModesFit, TypeOK
  <1>6. CASE Sweep
    BY <1>2, <1>4, <1>5, <1>6
       DEF Sweep, Collect, SweepKill, SweepGC, SweepFallback, SweepRemove,
           SweepPause, SweepDrop, SweepDemote, objectVars
  <1>7. CASE Crash
    BY <1>7 DEF Crash, ModesFit
  <1>8. CASE Rehydrate
    <2>1. \A s \in registry' : /\ s \in Sandboxes
                               /\ state'[s] = ManagedState(s)
                               /\ pauseMode'[s] = ManagedMode(s)
      BY <1>8 DEF Rehydrate, Managed
    <2> QED
      BY <2>1 DEF ModesFit, ManagedState, ManagedMode
  <1> QED
    BY <1>2, <1>3, <1>6, <1>7, <1>8 DEF Next, Tick, vars, objectVars

(* CalmInv holds in every reachable state. *)
LEMMA CalmAlways == Spec => []CalmInv
  BY CalmInit, CalmStep, TypeCorrect, OwnershipHolds, PTL DEF Spec

(* A sandbox that was in one pair of hands at a time, and whose calls all   *)
(* succeeded, is what its entry says, whatever happens to the others and   *)
(* however often the process restarts: every operation of manager.go ends  *)
(* with a locked section that writes what its calls have made of the       *)
(* container, and sandboxFromManaged reads the same off it.  Its PauseMode  *)
(* is empty whenever it is running, also while it is worked on.            *)
THEOREM RegistryAgrees == Spec => []QuiescentAgreement
  <1>1. TypeOK /\ CalmInv /\ ModesFit => QuiescentAgreement
    <2> SUFFICES ASSUME TypeOK, CalmInv, ModesFit, NEW s \in registry,
                        s \notin contended
                 PROVE  /\ ~Busy(s) => Agrees(s)
                        /\ state[s] = "running" => pauseMode[s] = "none"
      BY DEF QuiescentAgreement
    <2>1. Calm(s)
      BY DEF CalmInv, TypeOK
    <2>2. ~Busy(s) => Agrees(s)
      BY <2>1 DEF Calm, Busy, Rests
    <2> QED
      BY <2>2 DEF ModesFit
  <1>2. Spec => []ModesFit
    BY ModesInit, ModesStep, CalmAlways, TypeCorrect, OwnershipHolds, PTL DEF Spec
  <1> QED
    BY <1>1, <1>2, CalmAlways, TypeCorrect, PTL

-----------------------------------------------------------------------------
(***************************************************************************)
(* Who leaves the registry, and why.                                       *)
(***************************************************************************)

(* Which steps touch the reaper's pauses, the lifecycle or the registry.   *)
LEMMA AskedFrame ==
  ASSUME TypeOK, NEW c \in Callers, Request(c) \/ Finish(c) \/ HangUp(c)
  PROVE  /\ UNCHANGED <<toPause, stage, item>>
         /\ onTimeout' = onTimeout \/ CreateBegin(c)
         /\ registry \subseteq registry' \/ DestroyBegin(c)
  <1>1. CASE Request(c)
    <2>1. UNCHANGED <<toPause, stage, item>>
      BY <1>1 DEF Request, CreateBegin, DestroyBegin, SetTimeout, ConnectBegin,
                  ResumeBegin, PauseBegin, StopBegin, Begin, reaperVars, listVars
    <2>2. onTimeout' = onTimeout \/ CreateBegin(c)
      BY <1>1 DEF Request, DestroyBegin, SetTimeout, ConnectBegin, ResumeBegin,
                  PauseBegin, StopBegin, objectVars
    <2>3. registry' = registry \/ DestroyBegin(c)
      BY <1>1 DEF Request, CreateBegin, SetTimeout, ConnectBegin, ResumeBegin,
                  PauseBegin, StopBegin
    <2> QED
      BY <2>1, <2>2, <2>3
  <1>2. CASE Finish(c)
    BY <1>2 DEF Finish, ContainerCreate, ContainerStart, ForceRemove, InitAgent,
                WaitReady, Cleanup, Register, DestroyContainer, Unpause, StartAgain,
                Reinit, SetRunning, PauseContainer, SetFrozen, StopUnpause,
                StopContainer, SetStopped, SetPaused, Call, LastCall, AgentCall,
                Return, objectVars, reaperVars, listVars
  <1>3. CASE HangUp(c)
    BY <1>3 DEF HangUp, objectVars, reaperVars, listVars
  <1> QED
    BY <1>1, <1>2, <1>3

LEMMA AskedInit == Init => PausesWereAsked
  BY DEF Init, PausesWereAsked

LEMMA AskedStep ==
  ASSUME TypeOK, Ownership, PausesWereAsked, [Next]_vars
  PROVE  PausesWereAsked'
  <1>1. CASE UNCHANGED vars
    BY <1>1 DEF PausesWereAsked, vars, objectVars, reaperVars, listVars
  <1>2. ASSUME NEW c \in Callers, Request(c) \/ Finish(c) \/ HangUp(c)
        PROVE  PausesWereAsked'
    <2>1. UNCHANGED <<toPause, stage, item>>
      BY <1>2, AskedFrame
    <2>2. CASE onTimeout' = onTimeout
      BY <2>1, <2>2 DEF PausesWereAsked
    <2>3. CASE CreateBegin(c)
      <3>1. PICK s \in Sandboxes \ minted, mode \in OnTimeoutModes :
              onTimeout' = [onTimeout EXCEPT ![s] = mode]
        BY <2>3 DEF CreateBegin
      <3>2. s \notin toPause /\ s # item
        BY <3>1, SandboxAssumption DEF Ownership, OnlyMinted, Listed
      <3> QED
        BY <2>1, <3>1, <3>2 DEF PausesWereAsked, TypeOK
    <2> QED
      BY <1>2, <2>2, <2>3, AskedFrame
  <1>3. CASE Sweep
    <2>1. CASE Collect
      <3>1. /\ UNCHANGED <<onTimeout, stage, item>>
            /\ \A s \in toPause' : onTimeout[s] = "pause"
        BY <2>1 DEF Collect, objectVars
      <3> QED
        BY <3>1 DEF PausesWereAsked
    <2>2. CASE SweepPause
      BY <2>2 DEF SweepPause, SweepStage, PausesWereAsked, objectVars
    <2>3. CASE SweepDrop \/ SweepSetFrozen \/ SweepSetDemoted \/ SweepFallback
      BY <2>3 DEF SweepDrop, SweepSetFrozen, SweepSetDemoted, SweepFallback,
                  SweepRemove, SweepStage, PausesWereAsked, objectVars, listVars
    <2>4. CASE SweepKill \/ SweepGC
      BY <2>4 DEF SweepKill, SweepGC, SweepRemove, PausesWereAsked, objectVars
    <2>5. CASE SweepDemote
      BY <2>5 DEF SweepDemote, SweepStage, PausesWereAsked, objectVars
    <2> QED
      BY <1>3, <2>1, <2>2, <2>3, <2>4, <2>5 DEF Sweep
  <1>4. CASE Tick \/ Crash \/ Rehydrate
    BY <1>4 DEF Tick, Crash, Rehydrate, SweepStage, PausesWereAsked, listVars,
                reaperVars
  <1> QED
    BY <1>1, <1>2, <1>3, <1>4 DEF Next

LEMMA RemovalIsDue ==
  ASSUME TypeOK, TypeOK', Ownership, PausesWereAsked, [Next]_vars, up',
         NEW s \in registry \ registry', onTimeout[s] = "kill"
  PROVE  Due(s)
  <1>1. ASSUME NEW c \in Callers, Request(c) \/ Finish(c) \/ HangUp(c)
        PROVE  Due(s)
    <2>1. PICK x \in registry : Begin(c, x, "remove") /\ registry' = registry \ {x}
      BY <1>1, AskedFrame DEF DestroyBegin
    <2>2. pc[c] = "idle" /\ pc'[c] = "remove" /\ target'[c] = s
      BY <2>1 DEF Begin, TypeOK
    <2> QED
      BY <2>2 DEF Due
  <1>2. CASE Collect
    <2>1. PICK x \in toKill' \cup toGC' : x = s
      BY <1>2 DEF Collect
    <2>2. CASE s \in toKill'
      BY <1>2, <2>2 DEF Collect, Expired, Due, TypeOK
    <2>3. CASE s \in toGC'
      BY <1>2, <2>3 DEF Collect, Due
    <2> QED
      BY <2>1, <2>2, <2>3
  <1>3. CASE SweepDrop
    BY <1>3 DEF SweepDrop, PausesWereAsked
  <1>4. CASE Sweep
    BY <1>2, <1>3, <1>4
       DEF Sweep, SweepKill, SweepGC, SweepFallback, SweepRemove, SweepPause,
           SweepSetFrozen, SweepDemote, SweepSetDemoted
  <1>5. CASE Rehydrate
    BY <1>5 DEF Rehydrate, Ownership, DownIsIdle
  <1> QED
    BY <1>1, <1>4, <1>5 DEF Next, Tick, Crash, vars

(* Failures and restarts included, an OnTimeoutKill sandbox leaves the     *)
(* registry (delete in Destroy and in EnforceTimeouts) only when a client  *)
(* destroys it, when it runs past its deadline or when it has been stopped *)
(* for StoppedGCAfter; the pause fallback never takes it.                  *)
THEOREM OnlyDueAreRemoved == Spec => OnlyDueRemovals
  <1>1. TypeOK /\ TypeOK' /\ Ownership /\ PausesWereAsked /\ [Next]_vars
          => [up' => \A s \in registry \ registry' :
                       onTimeout[s] = "kill" => Due(s)]_vars
    BY RemovalIsDue
  <1>2. Spec => []PausesWereAsked
    BY AskedInit, AskedStep, TypeCorrect, OwnershipHolds, PTL DEF Spec
  <1> QED
    BY <1>1, <1>2, TypeCorrect, OwnershipHolds, PTL DEF Spec, OnlyDueRemovals

LEMMA CalmRemovalIsAsked ==
  ASSUME TypeOK, TypeOK', Ownership, CalmInv, [Next]_vars, up',
         NEW s \in registry \ registry', onTimeout[s] = "pause", s \notin contended
  PROVE  \/ \E c \in Callers : pc[c] = "idle" /\ pc'[c] = "remove" /\ target'[c] = s
         \/ s \in Lapsed(Stopped, StoppedGCAfter)
  <1>1. ASSUME NEW c \in Callers, Request(c) \/ Finish(c) \/ HangUp(c)
        PROVE  pc[c] = "idle" /\ pc'[c] = "remove" /\ target'[c] = s
    <2>1. PICK x \in registry : Begin(c, x, "remove") /\ registry' = registry \ {x}
      BY <1>1, AskedFrame DEF DestroyBegin
    <2> QED
      BY <2>1 DEF Begin, TypeOK
  <1>2. CASE Collect
    BY <1>2 DEF Collect
  <1>3. ~SweepDrop
    <2>1. ASSUME SweepDrop
          PROVE  s = item /\ stage = "pauseFailed" /\ s \in Sandboxes
      BY <2>1 DEF SweepDrop, TypeOK
    <2>2. s \in Sandboxes => Calm(s)
      BY DEF CalmInv
    <2> QED
      BY <2>1, <2>2 DEF Calm, ReaperFinds
  <1>4. CASE Sweep
    BY <1>2, <1>3, <1>4
       DEF Sweep, SweepKill, SweepGC, SweepFallback, SweepRemove, SweepPause,
           SweepSetFrozen, SweepDemote, SweepSetDemoted
  <1>5. CASE Rehydrate
    BY <1>5 DEF Rehydrate, Ownership, DownIsIdle
  <1> QED
    BY <1>1, <1>4, <1>5 DEF Next, Tick, Crash, vars

(* The promise of OnTimeoutPause (sandbox.go:45) holds for every sandbox    *)
(* that had one operation at a time and no failed call: the reaper freezes *)
(* it, and only a client or the GC takes it out of the registry.  The loss *)
(* of such a sandbox (manager.go:767) needs a second actor or a failure.   *)
THEOREM CalmPausesSurvive == Spec => CalmPauseSurvives
  <1>1. TypeOK /\ TypeOK' /\ Ownership /\ CalmInv /\ [Next]_vars
          => [up' => \A s \in registry \ registry' :
                onTimeout[s] = "pause" /\ s \notin contended =>
                  \/ \E c \in Callers : pc[c] = "idle" /\ pc'[c] = "remove" /\ target'[c] = s
                  \/ s \in Lapsed(Stopped, StoppedGCAfter)]_vars
    BY CalmRemovalIsAsked
  <1> QED
    BY <1>1, CalmAlways, TypeCorrect, OwnershipHolds, PTL DEF Spec, CalmPauseSurvives

-----------------------------------------------------------------------------
(***************************************************************************)
(* While no call fails.                                                    *)
(***************************************************************************)

(* The daemon then refuses a call only because of the container's status.  *)
LEMMA OnlyRefused ==
  ASSUME Reliable, Undisturbed, NEW c \in Callers, NEW verb, NEW next,
         CallFails(c, verb, next)
  PROVE  /\ container[target[c]] \notin Admits[verb]
         /\ Continue(c, next, TRUE)
         /\ UNCHANGED runtimeVars
  BY DEF Reliable, Undisturbed, CallFails, CallRefused, CallLost

(* A request goes on: it is alone with a container it creates or removes.  *)
LEMMA AdvanceUndisturbed ==
  ASSUME TypeOK, Ownership, Undisturbed, NEW c \in Callers, pc[c] # "idle",
         NEW step \in Steps \ {"containerCreate", "remove"},
         Continue(c, step, TRUE), UNCHANGED <<onTimeout, toKill, toGC>>,
         NEW t \in Sandboxes, t = target[c],
         \A x \in Sandboxes \ {t} : container'[x] = container[x],
         pc[c] \in CreateSteps \cup {"remove"}
           \/ (container'[t] = "absent" => container[t] = "absent")
  PROVE  Undisturbed'
  <1>1. /\ \A d \in Callers : d # c =>
             pc'[d] = pc[d] /\ target'[d] = target[d] /\ live'[d] = live[d]
        /\ pc'[c] = step /\ live'[c]
    BY DEF Continue, TypeOK
  <1>2. ASSUME NEW d \in Callers, pc'[d] = "containerCreate"
        PROVE  container'[target'[d]] = "absent"
    <2>1. d # c /\ pc[d] = "containerCreate"
      BY <1>1, <1>2
    <2>2. target[d] # t /\ target[d] \in Sandboxes
      BY <2>1 DEF Ownership, CreatorIsAlone, CreateSteps, TypeOK
    <2> QED
      BY <1>1, <2>1, <2>2 DEF Undisturbed
  <1>3. ASSUME NEW d \in Callers, pc'[d] = "remove", onTimeout'[target'[d]] = "kill"
        PROVE  /\ container'[target'[d]] # "absent"
               /\ target'[d] \notin toKill' \cup toGC'
               /\ \A e \in Callers : pc'[e] = "remove" /\ target'[e] = target'[d] => e = d
    <2>1. d # c /\ pc[d] = "remove" /\ target'[d] = target[d]
          /\ target[d] \in Sandboxes
      BY <1>1, <1>3 DEF TypeOK
    <2>2. /\ container[target[d]] # "absent"
          /\ target[d] \notin toKill \cup toGC
          /\ \A e \in Callers : pc[e] = "remove" /\ target[e] = target[d] => e = d
      BY <1>3, <2>1 DEF Undisturbed
    <2>3. pc[c] \in CreateSteps \cup {"remove"} => target[d] # t
      BY <2>1, <2>2 DEF Ownership, CreatorIsAlone
    <2>4. container'[target[d]] # "absent"
      BY <2>1, <2>2, <2>3
    <2>5. \A e \in Callers : pc'[e] = "remove" => pc[e] = "remove" /\ target'[e] = target[e]
      BY <1>1
    <2> QED
      BY <2>1, <2>2, <2>4, <2>5
  <1>4. \A d \in Callers : live'[d]
    BY <1>1 DEF Undisturbed
  <1> QED
    BY <1>2, <1>3, <1>4 DEF Undisturbed

(* The reaper removes nothing a Destroy is about to remove, and leaves the *)
(* containers of a Create alone.                                           *)
LEMMA SweepUndisturbed ==
  ASSUME TypeOK, Ownership, Undisturbed, PausesWereAsked,
         UNCHANGED <<pc, target, live, onTimeout>>,
         NEW s \in Listed, s \in Sandboxes,
         toKill' \subseteq toKill, toGC' \subseteq toGC,
         \A x \in Sandboxes \ {s} : container'[x] = container[x],
         container'[s] = "absent" /\ container[s] # "absent" =>
           s \in toKill \cup toGC \/ onTimeout[s] = "pause"
  PROVE  Undisturbed'
  <1>1. ASSUME NEW d \in Callers, pc'[d] = "containerCreate"
        PROVE  container'[target'[d]] = "absent"
    <2>1. target[d] # s /\ target[d] \in Sandboxes
      BY <1>1 DEF Ownership, CreatorIsAlone, CreateSteps, TypeOK
    <2> QED
      BY <1>1, <2>1 DEF Undisturbed
  <1>2. ASSUME NEW d \in Callers, pc'[d] = "remove", onTimeout'[target'[d]] = "kill"
        PROVE  /\ container'[target'[d]] # "absent"
               /\ target'[d] \notin toKill' \cup toGC'
               /\ \A e \in Callers : pc'[e] = "remove" /\ target'[e] = target'[d] => e = d
    <2>1. target[d] \in Sandboxes
      BY <1>2 DEF TypeOK
    <2> QED
      BY <1>2, <2>1 DEF Undisturbed
  <1>3. \A d \in Callers : live'[d]
    BY DEF Undisturbed
  <1> QED
    BY <1>1, <1>2, <1>3 DEF Undisturbed

LEMMA RequestUndisturbed ==
  ASSUME TypeOK, Ownership, Undisturbed, NEW c \in Callers, Request(c)
  PROVE  Undisturbed'
  <1>1. PICK s \in Sandboxes, step \in Steps :
          /\ Begin(c, s, step)
          /\ step = "containerCreate" => s \notin minted
          /\ step # "containerCreate" => onTimeout' = onTimeout
          /\ \A x \in Sandboxes \ {s} : onTimeout'[x] = onTimeout[x]
          /\ step = "remove" => s \in registry
    <2> USE DEF Steps, CreateSteps, TypeOK
    <2>1. CASE CreateBegin(c)
      <3>1. PICK s \in Sandboxes \ minted, mode \in OnTimeoutModes :
              /\ Begin(c, s, "containerCreate")
              /\ onTimeout' = [onTimeout EXCEPT ![s] = mode]
        BY <2>1 DEF CreateBegin
      <3> QED
        BY <3>1
    <2>2. CASE DestroyBegin(c)
      BY <2>2 DEF DestroyBegin, objectVars
    <2>3. CASE SetTimeout(c)
      BY <2>3 DEF SetTimeout
    <2>4. CASE ConnectBegin(c)
      BY <2>4 DEF ConnectBegin, ResumeStep
    <2>5. CASE ResumeBegin(c)
      BY <2>5 DEF ResumeBegin, ResumeStep, objectVars
    <2>6. CASE PauseBegin(c)
      BY <2>6 DEF PauseBegin, objectVars
    <2>7. CASE StopBegin(c)
      BY <2>7 DEF StopBegin, objectVars
    <2> QED
      BY <2>1, <2>2, <2>3, <2>4, <2>5, <2>6, <2>7 DEF Request
  <1>2. /\ \A d \in Callers : d # c => pc'[d] = pc[d] /\ target'[d] = target[d]
        /\ pc'[c] = step /\ (step # "idle" => target'[c] = s)
        /\ UNCHANGED <<live, container, toKill, toGC>>
    BY <1>1 DEF Begin, TypeOK, runtimeVars, reaperVars, listVars
  <1>3. ASSUME NEW d \in Callers, pc'[d] = "containerCreate"
        PROVE  container'[target'[d]] = "absent"
    <2>1. CASE d = c
      BY <1>1, <1>2, <1>3, <2>1 DEF Ownership, OnlyMinted
    <2>2. CASE d # c
      BY <1>2, <1>3, <2>2 DEF Undisturbed
    <2> QED
      BY <2>1, <2>2
  <1>4. ASSUME NEW d \in Callers, pc'[d] = "remove", onTimeout'[target'[d]] = "kill"
        PROVE  /\ container'[target'[d]] # "absent"
               /\ target'[d] \notin toKill' \cup toGC'
               /\ \A e \in Callers : pc'[e] = "remove" /\ target'[e] = target'[d] => e = d
    <2>1. CASE d = c
      <3>1. s \in registry /\ target'[d] = s
        BY <1>1, <1>2, <1>4, <2>1
      <3>2. container[s] # "absent" /\ s \notin toKill \cup toGC
        BY <3>1 DEF Ownership, RegisteredHasContainer, RemoversUnregister
      <3>3. \A e \in Callers : pc[e] = "remove" => target[e] # s
        BY <3>1 DEF Ownership, RemoversUnregister
      <3> QED
        BY <1>2, <2>1, <3>1, <3>2, <3>3
    <2>2. CASE d # c
      <3>1. pc[d] = "remove" /\ target'[d] = target[d] /\ target[d] \in Sandboxes
        BY <1>2, <1>4, <2>2 DEF TypeOK
      <3>2. target[d] \in minted /\ target[d] \notin registry
        BY <3>1, SandboxAssumption DEF Ownership, OnlyMinted, RemoversUnregister
      <3>3. onTimeout[target[d]] = "kill"
        BY <1>1, <1>4, <3>1, <3>2
      <3>4. /\ container[target[d]] # "absent"
            /\ target[d] \notin toKill \cup toGC
            /\ \A e \in Callers : pc[e] = "remove" /\ target[e] = target[d] => e = d
        BY <3>1, <3>3 DEF Undisturbed
      <3>5. ASSUME NEW e \in Callers, pc'[e] = "remove", target'[e] = target'[d]
            PROVE  e # c
        BY <1>1, <1>2, <3>1, <3>2, <3>5
      <3> QED
        BY <1>2, <3>1, <3>4, <3>5
    <2> QED
      BY <2>1, <2>2
  <1>5. \A d \in Callers : live'[d]
    BY <1>2 DEF Undisturbed
  <1> QED
    BY <1>3, <1>4, <1>5 DEF Undisturbed

LEMMA CallUndisturbed ==
  ASSUME Reliable, TypeOK, Ownership, Undisturbed, NEW c \in Callers,
         NEW at \in Steps \ {"idle"}, NEW verb \in Verbs,
         NEW ok \in Steps \ {"containerCreate", "remove"},
         NEW err \in Steps \ {"containerCreate", "remove"},
         Call(c, at, verb, ok, err), verb # "remove"
  PROVE  Undisturbed'
  <1>1. /\ pc[c] # "idle" /\ UNCHANGED <<onTimeout, toKill, toGC>>
    BY DEF Call, objectVars, reaperVars, listVars
  <1>2. PICK t \in Sandboxes : t = target[c]
    BY <1>1 DEF TypeOK
  <1>3. CASE CallSucceeds(c, verb, ok)
    <2>1. Continue(c, ok, TRUE) /\ Performs(verb, t)
      BY <1>2, <1>3 DEF CallSucceeds
    <2>2. /\ \A x \in Sandboxes \ {t} : container'[x] = container[x]
          /\ container'[t] # "absent"
      BY <2>1, PerformsEverywhere DEF Verbs, Admits, Leaves
    <2> QED
      BY <1>1, <1>2, <2>1, <2>2, AdvanceUndisturbed
  <1>4. CASE CallFails(c, verb, err)
    BY <1>1, <1>2, <1>4, OnlyRefused, AdvanceUndisturbed DEF runtimeVars
  <1> QED
    BY <1>3, <1>4 DEF Call

LEMMA LastCallUndisturbed ==
  ASSUME Reliable, TypeOK, Ownership, Undisturbed, NEW c \in Callers,
         NEW at, NEW verb, NEW ok, NEW done, LastCall(c, at, verb, ok, done),
         \/ at = "containerCreate" /\ verb = "create" /\ ok = "containerStart"
         \/ at \in {"forceRemove", "cleanup", "remove"} /\ verb = "remove" /\ ok = "idle"
  PROVE  Undisturbed'
  <1>1. /\ pc[c] = at /\ at \in CreateSteps \cup {"remove"} /\ at # "idle"
        /\ UNCHANGED <<onTimeout, toKill, toGC>>
        /\ verb \in Verbs /\ ok \in Steps \ {"containerCreate", "remove"}
        /\ "idle" \in Steps \ {"containerCreate", "remove"}
    BY DEF LastCall, objectVars, reaperVars, listVars, Verbs, Admits, Steps, CreateSteps
  <1>2. PICK t \in Sandboxes : t = target[c]
    BY <1>1 DEF TypeOK
  <1>3. CASE CallSucceeds(c, verb, ok)
    <2>1. Continue(c, ok, TRUE) /\ Performs(verb, t)
      BY <1>2, <1>3 DEF CallSucceeds
    <2>2. \A x \in Sandboxes \ {t} : container'[x] = container[x]
      BY <1>1, <2>1, PerformsEverywhere
    <2> QED
      BY <1>1, <1>2, <2>1, <2>2, AdvanceUndisturbed
  <1>4. CASE CallFails(c, verb, "idle")
    <2>1. Continue(c, "idle", TRUE) /\ container' = container
      BY <1>4, OnlyRefused DEF runtimeVars
    <2> QED
      BY <1>1, <1>2, <2>1, AdvanceUndisturbed
  <1> QED
    BY <1>3, <1>4 DEF LastCall

(* A step that leaves containers alone: agent calls, waits and commits.    *)
LEMMA QuietUndisturbed ==
  ASSUME TypeOK, Ownership, Undisturbed, NEW c \in Callers, pc[c] # "idle",
         NEW step \in Steps \ {"containerCreate", "remove"},
         Continue(c, step, TRUE),
         UNCHANGED <<container, onTimeout, toKill, toGC>>
  PROVE  Undisturbed'
  <1>1. PICK t \in Sandboxes : t = target[c]
    BY DEF TypeOK
  <1> QED
    BY <1>1, AdvanceUndisturbed

LEMMA AgentCallUndisturbed ==
  ASSUME Reliable, TypeOK, Ownership, Undisturbed, NEW c \in Callers,
         NEW at \in Steps \ {"idle"},
         NEW ok \in Steps \ {"containerCreate", "remove"},
         NEW err \in Steps \ {"containerCreate", "remove"}, AgentCall(c, at, ok, err)
  PROVE  Undisturbed'
  <1>1. /\ pc[c] # "idle"
        /\ UNCHANGED <<container, onTimeout, toKill, toGC>>
    BY DEF AgentCall, AgentInitialised, processVars, objectVars, reaperVars,
           listVars, runtimeVars
  <1>2. Continue(c, ok, TRUE) \/ Continue(c, err, TRUE)
    BY DEF AgentCall, Reliable, Undisturbed
  <1> QED
    BY <1>1, <1>2, QuietUndisturbed

LEMMA FinishUndisturbed ==
  ASSUME Reliable, TypeOK, Ownership, Undisturbed, NEW c \in Callers, Finish(c)
  PROVE  Undisturbed'
  <1> USE DEF Steps, CreateSteps, Verbs, Admits
  <1>1. CASE ContainerCreate(c) \/ ForceRemove(c) \/ Cleanup(c) \/ DestroyContainer(c)
    BY <1>1, LastCallUndisturbed
       DEF ContainerCreate, ForceRemove, Cleanup, DestroyContainer
  <1>2. CASE ContainerStart(c)
    BY <1>2, CallUndisturbed DEF ContainerStart
  <1>3. CASE Unpause(c) \/ StartAgain(c)
    BY <1>3, CallUndisturbed DEF Unpause, StartAgain
  <1>4. CASE PauseContainer(c) \/ StopUnpause(c) \/ StopContainer(c)
    BY <1>4, CallUndisturbed DEF PauseContainer, StopUnpause, StopContainer
  <1>5. CASE InitAgent(c) \/ Reinit(c)
    BY <1>5, AgentCallUndisturbed DEF InitAgent, Reinit
  <1>6. CASE WaitReady(c)
    <2>1. /\ pc[c] # "idle"
          /\ UNCHANGED <<container, onTimeout, toKill, toGC>>
      BY <1>6 DEF WaitReady, runtimeVars, processVars, objectVars, reaperVars,
                  listVars, historyVars
    <2>2. Continue(c, "register", TRUE) \/ Continue(c, "cleanup", TRUE)
      BY <1>6 DEF WaitReady, Undisturbed
    <2> QED
      BY <2>1, <2>2, QuietUndisturbed
  <1>7. ASSUME NEW at \in Steps \ {"idle"}, Return(c, at), UNCHANGED onTimeout
        PROVE  Undisturbed'
    <2>1. /\ pc[c] # "idle" /\ Continue(c, "idle", TRUE)
          /\ UNCHANGED <<container, onTimeout, toKill, toGC>>
      BY <1>7 DEF Return, runtimeVars, processVars, reaperVars, listVars, historyVars
    <2> QED
      BY <2>1, QuietUndisturbed
  <1>8. CASE Register(c) \/ SetRunning(c) \/ SetFrozen(c) \/ SetStopped(c)
    BY <1>7, <1>8 DEF Register, SetRunning, SetFrozen, SetStopped, SetPaused
  <1> QED
    BY <1>1, <1>2, <1>3, <1>4, <1>5, <1>6, <1>8 DEF Finish

(* The reaper's removals are nobody else's.                                *)
LEMMA ReaperUndisturbed ==
  ASSUME Reliable, TypeOK, Ownership, Undisturbed, PausesWereAsked, Sweep
  PROVE  Undisturbed'
  <1>1. CASE Collect
    <2>1. /\ UNCHANGED <<pc, target, live, onTimeout, container>>
          /\ toKill' \cup toGC' \subseteq registry
      BY <1>1 DEF Collect, Expired, Stopped, Lapsed, callerVars, objectVars,
                  processVars, runtimeVars
    <2>2. \A d \in Callers : pc[d] = "remove" => target[d] \notin toKill' \cup toGC'
      BY <2>1 DEF Ownership, RemoversUnregister
    <2> QED
      BY <2>1, <2>2 DEF Undisturbed
  <1>2. ASSUME NEW s \in Sandboxes, NEW verb \in Verbs,
               SweepSucceeds(s, verb) \/ SweepFails(s, verb)
        PROVE  /\ \A x \in Sandboxes \ {s} : container'[x] = container[x]
               /\ verb # "remove" /\ container'[s] = "absent" => container[s] = "absent"
               /\ ~SweepSucceeds(s, verb) =>
                    container' = container /\ container[s] \notin Admits[verb]
    <2>1. SweepFails(s, verb) =>
            container' = container /\ container[s] \notin Admits[verb]
      BY DEF Reliable, SweepFails, runtimeVars
    <2>2. SweepSucceeds(s, verb) =>
            /\ \A x \in Sandboxes \ {s} : container'[x] = container[x]
            /\ container'[s] = Leaves[verb]
      BY PerformsEverywhere DEF SweepSucceeds
    <2>3. verb # "remove" => Leaves[verb] # "absent"
      BY DEF Leaves, Verbs, Admits
    <2> QED
      BY <1>2, <2>1, <2>2, <2>3
  <1>3. ASSUME NEW s \in Sandboxes, SweepRemove(s)
        PROVE  /\ UNCHANGED <<pc, target, live, onTimeout>>
               /\ \A x \in Sandboxes \ {s} : container'[x] = container[x]
    <2>1. SweepSucceeds(s, "remove") \/ SweepFails(s, "remove")
      BY <1>3 DEF SweepRemove
    <2> QED
      BY <1>2, <1>3, <2>1 DEF SweepRemove, objectVars, callerVars, Verbs, Admits
  <1>4. CASE SweepKill \/ SweepGC
    <2>1. PICK s \in toKill \cup toGC :
            /\ SweepRemove(s) /\ toKill' \subseteq toKill /\ toGC' \subseteq toGC
      BY <1>4 DEF SweepKill, SweepGC
    <2>2. s \in Sandboxes /\ s \in Listed
      BY DEF TypeOK, Listed
    <2> QED
      BY <1>3, <2>1, <2>2, SweepUndisturbed
  <1>5. CASE SweepFallback
    <2>1. /\ SweepRemove(item) /\ UNCHANGED <<toKill, toGC>>
          /\ item \in Sandboxes /\ item \in Listed /\ onTimeout[item] = "pause"
      BY <1>5 DEF SweepFallback, listVars, TypeOK, Listed, PausesWereAsked
    <2> QED
      BY <1>3, <2>1, SweepUndisturbed
  <1>6. CASE SweepPause \/ SweepDemote
    <2>1. PICK s \in toPause \cup toDemote, verb \in {"pause", "stop"} :
            SweepSucceeds(s, verb) \/ SweepFails(s, verb)
      BY <1>6 DEF SweepPause, SweepDemote
    <2>2. UNCHANGED <<pc, target, live, onTimeout, toKill, toGC>>
      BY <1>6 DEF SweepPause, SweepDemote, processVars, objectVars, callerVars
    <2>3. s \in Sandboxes /\ s \in Listed /\ verb \in Verbs /\ verb # "remove"
      BY DEF TypeOK, Listed, Verbs, Admits
    <2> QED
      BY <1>2, <2>1, <2>2, <2>3, SweepUndisturbed
  <1>7. CASE SweepSetFrozen \/ SweepDrop \/ SweepSetDemoted
    <2>1. UNCHANGED <<pc, target, live, onTimeout, container, toKill, toGC>>
      BY <1>7 DEF SweepSetFrozen, SweepDrop, SweepSetDemoted, runtimeVars,
                  processVars, objectVars, callerVars, listVars, historyVars
    <2> QED
      BY <2>1 DEF Undisturbed
  <1> QED
    BY <1>1, <1>4, <1>5, <1>6, <1>7 DEF Sweep

LEMMA UndisturbedInit == Init => Undisturbed
  BY DEF Init, Undisturbed

LEMMA UndisturbedStep ==
  ASSUME Reliable, TypeOK, Ownership, Undisturbed, PausesWereAsked, [Next]_vars
  PROVE  Undisturbed'
  <1>1. CASE UNCHANGED vars \/ Tick
    BY <1>1 DEF Tick, Undisturbed, vars, runtimeVars, processVars, objectVars,
                callerVars, reaperVars, listVars, historyVars
  <1>2. ASSUME NEW c \in Callers, HangUp(c)
        PROVE  FALSE
    BY <1>2 DEF HangUp, Reliable
  <1>3. CASE Crash
    BY <1>3 DEF Crash, Undisturbed
  <1>4. CASE Rehydrate
    BY <1>4 DEF Rehydrate, Undisturbed, callerVars, runtimeVars, reaperVars, listVars
  <1> QED
    BY <1>1, <1>2, <1>3, <1>4, RequestUndisturbed, FinishUndisturbed,
       ReaperUndisturbed DEF Next

(* Undisturbed is an invariant while no call fails. *)
LEMMA StaysUndisturbed == ASSUME Reliable PROVE Spec => []Undisturbed
  <1>1. Init => Undisturbed
    BY UndisturbedInit
  <1>2. TypeOK /\ Ownership /\ PausesWereAsked /\ Undisturbed /\ [Next]_vars
          => Undisturbed'
    BY UndisturbedStep
  <1>3. Spec => []PausesWereAsked
    BY AskedInit, AskedStep, TypeCorrect, OwnershipHolds, PTL DEF Spec
  <1> QED
    BY <1>1, <1>2, <1>3, TypeCorrect, OwnershipHolds, PTL DEF Spec

-----------------------------------------------------------------------------
(***************************************************************************)
(* What a crash leaves behind.                                             *)
(***************************************************************************)

(* A container is there for whoever removes it, or its removal is no loss. *)
LEMMA LastCallStrays ==
  ASSUME Reliable, TypeOK, Undisturbed, NEW c \in Callers,
         NEW at, NEW verb, NEW ok, NEW done, LastCall(c, at, verb, ok, done),
         \/ at = "containerCreate" /\ verb = "create"
         \/ at \in {"forceRemove", "cleanup", "remove"} /\ verb = "remove"
  PROVE  strays' = strays
  <1>1. target[c] \in Sandboxes /\ pc[c] = at
    BY DEF LastCall, TypeOK
  <1>2. ASSUME CallFails(c, verb, "idle")
        PROVE  container'[target[c]] = "absent"
    <2>1. container[target[c]] \notin Admits[verb] /\ container' = container
      BY <1>2, OnlyRefused DEF runtimeVars
    <2>2. verb = "create" => container[target[c]] = "absent"
      BY <1>1 DEF Undisturbed
    <2> QED
      BY <1>1, <2>1, <2>2 DEF Admits, TypeOK, RuntimeTypeOK, ContainerStatus
  <1> QED
    BY <1>2 DEF LastCall

LEMMA RemovalStrays ==
  ASSUME Reliable, TypeOK, NEW s \in Sandboxes, SweepRemove(s)
  PROVE  strays' = strays
  <1>1. ASSUME SweepFails(s, "remove")
        PROVE  container'[s] = "absent"
    BY <1>1 DEF Reliable, SweepFails, runtimeVars, Admits, TypeOK, RuntimeTypeOK,
                ContainerStatus
  <1> QED
    BY <1>1 DEF SweepRemove

(* While no call fails nothing is left behind but by a crash. *)
LEMMA StraysKept ==
  ASSUME Reliable, TypeOK, Undisturbed, [Next]_vars, ~Rehydrate
  PROVE  strays' = strays
  <1>1. ASSUME NEW c \in Callers, Request(c)
        PROVE  strays' = strays
    BY <1>1 DEF Request, CreateBegin, DestroyBegin, SetTimeout, ConnectBegin,
                ResumeBegin, PauseBegin, StopBegin, Begin
  <1>2. ASSUME NEW c \in Callers, Finish(c)
        PROVE  strays' = strays
    <2>1. CASE ContainerCreate(c) \/ ForceRemove(c) \/ Cleanup(c) \/ DestroyContainer(c)
      BY <2>1, LastCallStrays
         DEF ContainerCreate, ForceRemove, Cleanup, DestroyContainer
    <2> QED
      BY <1>2, <2>1
         DEF Finish, ContainerStart, InitAgent, WaitReady, Register, Unpause,
             StartAgain, Reinit, SetRunning, PauseContainer, SetFrozen, StopUnpause,
             StopContainer, SetStopped, SetPaused, Call, AgentCall, Return, historyVars
  <1>3. CASE Sweep
    <2>1. ASSUME NEW s \in toKill \cup toGC \cup {item}, SweepRemove(s), s # NoSandbox
          PROVE  strays' = strays
      BY <2>1, RemovalStrays DEF TypeOK
    <2>2. CASE SweepKill \/ SweepGC
      BY <2>1, <2>2, SandboxAssumption DEF SweepKill, SweepGC, TypeOK
    <2>3. CASE SweepFallback
      BY <2>1, <2>3 DEF SweepFallback, TypeOK
    <2> QED
      BY <1>3, <2>2, <2>3
         DEF Sweep, Collect, SweepPause, SweepSetFrozen, SweepDrop, SweepDemote,
             SweepSetDemoted, historyVars
  <1> QED
    BY <1>1, <1>2, <1>3 DEF Next, HangUp, Tick, Crash, vars, historyVars

(* What a request may touch: its target. *)
LEMMA FinishFrame ==
  ASSUME TypeOK, NEW c \in Callers, Finish(c)
  PROVE  /\ target[c] \in Sandboxes
         /\ \A x \in Sandboxes \ {target[c]} : container'[x] = container[x]
         /\ registry' \subseteq registry \cup {target[c]}
         /\ UNCHANGED <<minted, item, toKill, toPause, toDemote, toGC>>
         /\ \A d \in Callers : target'[d] \in {target[d], NoSandbox}
  <1> USE DEF Verbs, Admits
  <1>1. pc[c] # "idle"
    BY DEF Finish, ContainerCreate, ContainerStart, ForceRemove, InitAgent,
           WaitReady, Cleanup, Register, DestroyContainer, Unpause, StartAgain,
           Reinit, SetRunning, PauseContainer, SetFrozen, StopUnpause,
           StopContainer, SetStopped, SetPaused, Call, LastCall, AgentCall, Return
  <1>2. target[c] \in Sandboxes
    BY <1>1 DEF TypeOK
  <1>3. ASSUME NEW step, NEW connected, Continue(c, step, connected)
        PROVE  \A d \in Callers : target'[d] \in {target[d], NoSandbox}
    BY <1>3 DEF Continue, TypeOK
  <1>4. ASSUME NEW verb \in Verbs, NEW next,
               CallSucceeds(c, verb, next) \/ CallFails(c, verb, next)
        PROVE  /\ \A x \in Sandboxes \ {target[c]} : container'[x] = container[x]
               /\ \A d \in Callers : target'[d] \in {target[d], NoSandbox}
    <2>1. Performs(verb, target[c]) \/ container' = container
      BY <1>4 DEF CallSucceeds, CallFails, CallRefused, CallLost, runtimeVars
    <2>2. \A d \in Callers : target'[d] \in {target[d], NoSandbox}
      BY <1>3, <1>4 DEF CallSucceeds, CallFails, CallRefused, CallLost
    <2> QED
      BY <1>2, <2>1, <2>2, PerformsEverywhere
  <1>5. ASSUME NEW at, NEW verb \in Verbs, NEW ok, NEW err, Call(c, at, verb, ok, err)
        PROVE  /\ \A x \in Sandboxes \ {target[c]} : container'[x] = container[x]
               /\ \A d \in Callers : target'[d] \in {target[d], NoSandbox}
               /\ registry' = registry
               /\ UNCHANGED <<minted, item, toKill, toPause, toDemote, toGC>>
    BY <1>4, <1>5 DEF Call, reaperVars, listVars
  <1>6. ASSUME NEW at, NEW verb \in Verbs, NEW ok, NEW done,
               LastCall(c, at, verb, ok, done)
        PROVE  /\ \A x \in Sandboxes \ {target[c]} : container'[x] = container[x]
               /\ \A d \in Callers : target'[d] \in {target[d], NoSandbox}
               /\ registry' = registry
               /\ UNCHANGED <<minted, item, toKill, toPause, toDemote, toGC>>
    BY <1>4, <1>6 DEF LastCall, reaperVars, listVars
  <1>7. ASSUME NEW at, NEW ok, NEW err, AgentCall(c, at, ok, err)
        PROVE  /\ container' = container /\ registry' = registry
               /\ \A d \in Callers : target'[d] \in {target[d], NoSandbox}
               /\ UNCHANGED <<minted, item, toKill, toPause, toDemote, toGC>>
    BY <1>3, <1>7 DEF AgentCall, AgentInitialised, reaperVars, listVars, runtimeVars
  <1>8. CASE WaitReady(c)
    BY <1>2, <1>3, <1>8 DEF WaitReady, reaperVars, listVars, runtimeVars
  <1>9. ASSUME NEW at, Return(c, at)
        PROVE  /\ container' = container
               /\ \A d \in Callers : target'[d] \in {target[d], NoSandbox}
               /\ UNCHANGED <<item, toKill, toPause, toDemote, toGC>>
    BY <1>3, <1>9 DEF Return, reaperVars, listVars, runtimeVars
  <1>10. CASE Register(c) \/ SetRunning(c) \/ SetFrozen(c) \/ SetStopped(c)
    BY <1>2, <1>9, <1>10 DEF Register, SetRunning, SetFrozen, SetStopped, SetPaused
  <1>11. CASE ContainerCreate(c) \/ ForceRemove(c) \/ Cleanup(c) \/ DestroyContainer(c)
    BY <1>2, <1>6, <1>11 DEF ContainerCreate, ForceRemove, Cleanup, DestroyContainer
  <1>12. CASE ContainerStart(c) \/ Unpause(c) \/ StartAgain(c)
    BY <1>2, <1>5, <1>12 DEF ContainerStart, Unpause, StartAgain
  <1>13. CASE PauseContainer(c) \/ StopUnpause(c) \/ StopContainer(c)
    BY <1>2, <1>5, <1>13 DEF PauseContainer, StopUnpause, StopContainer
  <1>14. CASE InitAgent(c) \/ Reinit(c)
    BY <1>2, <1>7, <1>14 DEF InitAgent, Reinit
  <1> QED
    BY <1>8, <1>10, <1>11, <1>12, <1>13, <1>14 DEF Finish

(* Nobody takes up what nobody knows of. *)
LEMMA AbandonedKept ==
  ASSUME TypeOK, Ownership, [Next]_vars, ~Rehydrate,
         NEW s \in Sandboxes, Abandoned(s)
  PROVE  Abandoned(s)'
  <1>1. /\ container[s] = "created" /\ s \in minted /\ s \notin registry
        /\ s \notin toKill \cup toPause \cup toDemote \cup toGC /\ s # item
        /\ \A c \in Callers : target[c] # s
        /\ s # NoSandbox
    BY SandboxAssumption DEF Abandoned, Listed
  <1>2. CASE /\ container'[s] = container[s] /\ minted \subseteq minted'
             /\ registry' \subseteq registry \cup (Sandboxes \ {s})
             /\ item' # s /\ s \notin toKill' \cup toPause' \cup toDemote' \cup toGC'
             /\ \A c \in Callers : target'[c] # s
    BY <1>1, <1>2 DEF Abandoned, Listed
  <1>3. ASSUME NEW c \in Callers, Request(c)
        PROVE  Abandoned(s)'
    <2>1. PICK x \in Sandboxes \ {s} : \E step \in Steps : Begin(c, x, step)
      BY <1>1, <1>3 DEF Request, CreateBegin, DestroyBegin, SetTimeout, ConnectBegin,
                  ResumeBegin, ResumeStep, PauseBegin, StopBegin, TypeOK, Steps,
                  CreateSteps
    <2>2. minted \subseteq minted' /\ registry' \subseteq registry
      BY <1>3 DEF Request, CreateBegin, DestroyBegin, SetTimeout, ConnectBegin,
                  ResumeBegin, PauseBegin, StopBegin
    <2>3. /\ UNCHANGED <<container, item, toKill, toPause, toDemote, toGC>>
          /\ \A d \in Callers : target'[d] # s
      BY <1>1, <2>1 DEF Begin, TypeOK, runtimeVars, reaperVars, listVars
    <2> QED
      BY <1>1, <1>2, <2>2, <2>3
  <1>4. ASSUME NEW c \in Callers, Finish(c)
        PROVE  Abandoned(s)'
    <2>1. target[c] # s
      BY <1>1
    <2> QED
      BY <1>1, <1>2, <1>4, <2>1, FinishFrame
  <1>5. CASE Sweep
    <2>1. minted' = minted /\ registry' \subseteq registry /\ target' = target
      BY <1>5 DEF Sweep, Collect, SweepKill, SweepPause, SweepSetFrozen, SweepDrop,
                  SweepFallback, SweepDemote, SweepSetDemoted, SweepGC, SweepRemove,
                  callerVars
    <2>2. /\ item' \in Listed \cup {NoSandbox}
          /\ toKill' \cup toPause' \cup toDemote' \cup toGC'
               \subseteq Listed \cup registry
      BY <1>5 DEF Sweep, Collect, SweepKill, SweepPause, SweepSetFrozen, SweepDrop,
                  SweepFallback, SweepDemote, SweepSetDemoted, SweepGC, SweepStage,
                  Listed, listVars, Expired, Frozen, Stopped, Lapsed
    <2>3. ASSUME NEW x \in Sandboxes \ {s}, NEW verb \in Verbs,
                 SweepSucceeds(x, verb) \/ SweepFails(x, verb)
          PROVE  container'[s] = container[s]
      <3>1. Performs(verb, x) \/ container' = container
        BY <2>3 DEF SweepSucceeds, SweepFails, runtimeVars
      <3> QED
        BY <2>3, <3>1, PerformsEverywhere
    <2>4. ASSUME SweepKill \/ SweepGC \/ SweepFallback
          PROVE  container'[s] = container[s]
      <3>1. PICK x \in Sandboxes \ {s} : SweepRemove(x)
        BY <1>1, <2>4 DEF SweepKill, SweepGC, SweepFallback, TypeOK
      <3>2. SweepSucceeds(x, "remove") \/ SweepFails(x, "remove")
        BY <3>1 DEF SweepRemove
      <3>3. "remove" \in Verbs
        BY DEF Verbs, Admits
      <3> QED
        BY <2>3, <3>2, <3>3
    <2>5. ASSUME SweepPause
          PROVE  container'[s] = container[s]
      <3>1. PICK x \in Sandboxes \ {s} :
              SweepSucceeds(x, "pause") \/ SweepFails(x, "pause")
        BY <1>1, <2>5 DEF SweepPause, TypeOK
      <3>2. "pause" \in Verbs
        BY DEF Verbs, Admits
      <3> QED
        BY <2>3, <3>1, <3>2
    <2>6. ASSUME SweepDemote
          PROVE  container'[s] = container[s]
      <3>1. PICK x \in Sandboxes \ {s} :
              SweepSucceeds(x, "stop") \/ SweepFails(x, "stop")
        BY <1>1, <2>6 DEF SweepDemote, TypeOK
      <3>2. "stop" \in Verbs
        BY DEF Verbs, Admits
      <3> QED
        BY <2>3, <3>1, <3>2
    <2>7. ASSUME Collect \/ SweepSetFrozen \/ SweepDrop \/ SweepSetDemoted
          PROVE  container'[s] = container[s]
      BY <2>7 DEF Collect, SweepSetFrozen, SweepDrop, SweepSetDemoted, runtimeVars
    <2>8. container'[s] = container[s]
      BY <1>5, <2>4, <2>5, <2>6, <2>7 DEF Sweep
    <2> QED
      BY <1>1, <1>2, <2>1, <2>2, <2>8 DEF Listed
  <1>6. CASE Crash
    BY <1>1, <1>2, <1>6 DEF Crash, SweepStage, runtimeVars
  <1>7. ASSUME NEW c \in Callers, HangUp(c)
        PROVE  Abandoned(s)'
    BY <1>1, <1>2, <1>7 DEF HangUp, runtimeVars, reaperVars, listVars
  <1>8. CASE Tick \/ UNCHANGED vars
    BY <1>1, <1>2, <1>8 DEF Tick, vars, runtimeVars, callerVars, reaperVars, listVars
  <1> QED
    BY <1>3, <1>4, <1>5, <1>6, <1>7, <1>8 DEF Next

(* What Rehydrate does not adopt has been created and never started. *)
LEMMA RehydrateStrays ==
  ASSUME Reliable, TypeOK, Ownership, StraysUnstarted, Rehydrate
  PROVE  StraysUnstarted'
  <1>1. /\ \A c \in Callers : target'[c] = NoSandbox
        /\ item' = NoSandbox /\ Listed' = {NoSandbox}
        /\ UNCHANGED <<container, minted, crashes>>
    BY SandboxAssumption
       DEF Rehydrate, Ownership, DownIsIdle, SweepDone, TypeOK, Listed,
           callerVars, listVars, reaperVars, runtimeVars
  <1>2. /\ registry' = Managed
        /\ strays' = {s \in Sandboxes \ Managed : container[s] # "absent"}
    BY DEF Rehydrate, Reliable
  <1>3. ASSUME NEW s \in strays'
        PROVE  Abandoned(s)'
    <2>1. /\ s \in Sandboxes /\ s # NoSandbox /\ s \notin registry'
          /\ container[s] = "created"
      BY <1>2, <1>3, SandboxAssumption
         DEF Managed, TypeOK, RuntimeTypeOK, ContainerStatus
    <2>2. s \in minted
      BY <2>1 DEF Ownership, OnlyMinted
    <2> QED
      BY <1>1, <2>1, <2>2 DEF Abandoned
  <1>4. crashes # 0
    BY DEF StraysUnstarted, Rehydrate
  <1> QED
    BY <1>1, <1>3, <1>4 DEF StraysUnstarted

LEMMA StraysInit == Init => StraysUnstarted
  BY DEF Init, StraysUnstarted

LEMMA StraysStep ==
  ASSUME Reliable, TypeOK, Ownership, Undisturbed, StraysUnstarted, [Next]_vars
  PROVE  StraysUnstarted'
  <1>1. CASE Rehydrate
    BY <1>1, RehydrateStrays
  <1>2. CASE ~Rehydrate
    <2>1. strays' = strays /\ strays \subseteq Sandboxes
      BY <1>2, StraysKept DEF TypeOK
    <2>2. \A s \in strays' : Abandoned(s)'
      BY <1>2, <2>1, AbandonedKept DEF StraysUnstarted
    <2>3. Crash => crashes' # 0
      BY DEF Crash, TypeOK
    <2>4. ~Crash => UNCHANGED <<up, crashes>>
      <3>1. ASSUME NEW c \in Callers, Request(c) \/ Finish(c) \/ HangUp(c)
            PROVE  UNCHANGED <<up, crashes>>
        BY <3>1 DEF Request, CreateBegin, DestroyBegin, SetTimeout, ConnectBegin,
                    ResumeBegin, PauseBegin, StopBegin, Begin, Finish,
                    ContainerCreate, ContainerStart, ForceRemove, InitAgent,
                    WaitReady, Cleanup, Register, DestroyContainer, Unpause,
                    StartAgain, Reinit, SetRunning, PauseContainer, SetFrozen,
                    StopUnpause, StopContainer, SetStopped, SetPaused, Call,
                    LastCall, AgentCall, Return, HangUp, processVars
      <3>2. CASE Sweep
        BY <3>2 DEF Sweep, Collect, SweepKill, SweepPause, SweepSetFrozen, SweepDrop,
                    SweepFallback, SweepDemote, SweepSetDemoted, SweepGC, SweepRemove,
                    processVars
      <3> QED
        BY <1>2, <3>1, <3>2 DEF Next, Tick, vars, processVars
    <2> QED
      BY <2>1, <2>2, <2>3, <2>4 DEF StraysUnstarted
  <1> QED
    BY <1>1, <1>2

(* While no call fails, every container is in the registry or in the hands *)
(* of a Create, a Destroy or the reaper, for any number of callers and any *)
(* interleaving: the last removal of a container is never refused.  The    *)
(* process may die at any time: Rehydrate adopts all but the containers    *)
(* whose Create it cut off before ContainerStart.                          *)
THEOREM NothingLeaks == ASSUME Reliable PROVE Spec => []NoLeak
  <1>1. TypeOK /\ StraysUnstarted /\ Accounted => NoLeak
    BY DEF StraysUnstarted, Abandoned, Accounted, NoLeak, TypeOK
  <1>2. Spec => []StraysUnstarted
    <2>1. TypeOK /\ Ownership /\ Undisturbed /\ StraysUnstarted /\ [Next]_vars
            => StraysUnstarted'
      BY StraysStep
    <2> QED
      BY <2>1, StraysInit, StaysUndisturbed, TypeCorrect, OwnershipHolds, PTL DEF Spec
  <1> QED
    BY <1>1, <1>2, TypeCorrect, NothingForgotten, PTL

-----------------------------------------------------------------------------
(***************************************************************************)
(* A Destroy succeeds.                                                     *)
(***************************************************************************)

(* The removal of a Destroy cannot be refused: its container is there.      *)
LEMMA RemovalSucceeds ==
  ASSUME Reliable, TypeOK, Ownership, Undisturbed, [Next]_vars, NEW c \in Callers,
         up', pc[c] = "remove", pc'[c] = "idle", onTimeout[target[c]] = "kill"
  PROVE  target[c] \in destroyed'
  <1>1. ASSUME NEW d \in Callers, Request(d) \/ Finish(d)
        PROVE  target[c] \in destroyed'
    <2>1. d = c
      <3>1. CASE Request(d)
        BY <3>1 DEF Request, CreateBegin, DestroyBegin, SetTimeout, ConnectBegin,
                    ResumeBegin, PauseBegin, StopBegin, Begin, TypeOK
      <3>2. CASE Finish(d)
        BY <3>2 DEF Finish, ContainerCreate, ContainerStart, ForceRemove, InitAgent,
                    WaitReady, Cleanup, Register, DestroyContainer, Unpause,
                    StartAgain, Reinit, SetRunning, PauseContainer, SetFrozen,
                    StopUnpause, StopContainer, SetStopped, SetPaused, Call,
                    CallSucceeds, CallFails, CallRefused, CallLost, LastCall,
                    AgentCall, Return, Continue, TypeOK
      <3> QED
        BY <1>1, <3>1, <3>2
    <2>2. ~Request(c)
      BY DEF Request, CreateBegin, DestroyBegin, SetTimeout, ConnectBegin,
             ResumeBegin, PauseBegin, StopBegin, Begin
    <2>3. Finish(c)
      BY <1>1, <2>1, <2>2
    <2>4. DestroyContainer(c)
      BY <2>3 DEF Finish, ContainerCreate, ContainerStart, ForceRemove, InitAgent,
                  WaitReady, Cleanup, Register, Unpause, StartAgain, Reinit,
                  SetRunning, PauseContainer, SetFrozen, StopUnpause, StopContainer,
                  SetStopped, SetPaused, Call, LastCall, AgentCall, Return
    <2>5. ~CallFails(c, "remove", "idle")
      <3>1. container[target[c]] # "absent" /\ target[c] \in Sandboxes
        BY DEF Undisturbed, TypeOK
      <3>2. container[target[c]] \in Admits["remove"]
        BY <3>1 DEF Admits, TypeOK, RuntimeTypeOK, ContainerStatus
      <3> QED
        BY <3>2, OnlyRefused
    <2> QED
      BY <2>4, <2>5 DEF DestroyContainer, LastCall
  <1>2. CASE \/ Sweep \/ Tick \/ Rehydrate \/ UNCHANGED vars
             \/ \E d \in Callers : HangUp(d)
    <2>1. pc' = pc
      BY <1>2 DEF Sweep, Collect, SweepKill, SweepPause, SweepSetFrozen, SweepDrop,
                  SweepFallback, SweepDemote, SweepSetDemoted, SweepGC, SweepRemove,
                  Tick, Rehydrate, HangUp, vars, callerVars
    <2> QED
      BY <2>1
  <1> QED
    BY <1>1, <1>2 DEF Next, Crash

(* While no call fails, a Destroy that found its OnTimeoutKill sandbox in   *)
(* the registry returns nil: delete and the collection of the kill and GC  *)
(* lists happen under one lock, so exactly one of them removes it.         *)
THEOREM DestroysSucceed == ASSUME Reliable PROVE Spec => DestroySucceeds
  <1>1. TypeOK /\ Ownership /\ Undisturbed /\ [Next]_vars
          => [\A c \in Callers :
                up' /\ pc[c] = "remove" /\ pc'[c] = "idle" /\ onTimeout[target[c]] = "kill"
                  => target[c] \in destroyed']_vars
    BY RemovalSucceeds
  <1> QED
    BY <1>1, StaysUndisturbed, TypeCorrect, OwnershipHolds, PTL
       DEF Spec, DestroySucceeds
=============================================================================
