--------------------------- MODULE TemplateBuilds ---------------------------
(***************************************************************************)
(* The template and build handlers (internal/api/control/templates.go and  *)
(* builds.go) over the store and the build manager, as serve wires them in *)
(* cmd/edvabe/main.go: the build manager reports the end of a build to the *)
(* store while it holds its own lock.                                      *)
(*                                                                         *)
(* A handler is cut where it leaves a lock.  Sections that only read, and  *)
(* whose answer a later section of the same request checks again, are part *)
(* of that later step.                                                     *)
(***************************************************************************)
EXTENDS TemplateStore, BuildManager

CONSTANTS
  Callers,      \* goroutines of requests that change state
  Readers,      \* clients that follow the log of a build
  Limits,       \* the limits readers ask for; 0: none
  AnyBuild,     \* bound: whether a start may name a build id that is not the
                \* template's, because it is another's or was made up
  MaxCrashes    \* bound: how often the edvabe process dies

ASSUME CrashesAssumption == MaxCrashes \in Nat

ASSUME LimitsAssumption == Limits \subseteq Nat

ASSUME StartsAssumption == AnyBuild \in BOOLEAN

VARIABLES
  up,        \* the process is running and has loaded and seeded the store
  crashes,   \* how often it has died
  request,   \* per caller: what its request goes on with
  reader,    \* per reader: its poll and what it has received
  issued,    \* history: <<template, build>> answered by POST /v3/templates
  brought,   \* history: per template and command, the start that brought it
  deleted    \* history: templates whose DELETE was answered 204

processVars == <<up, crashes>>
historyVars == <<issued, deleted, brought>>
vars == <<storeVars, buildVars, processVars, request, reader, historyVars>>

NoRequest == [at |-> "idle"]

Requests ==
  {NoRequest}
  \cup [at : {"resolve"}, name : Names]
  \cup [at : {"append"}, template : TemplateIds]
  \cup [at : {"updateMeta", "enqueue"}, template : TemplateIds,
        build : BuildIds, parent : TemplateIds \cup {NoTemplate}]

(* over: the status was terminal and, in an answer, the log had no limit.   *)
Polls ==
  [build   : BuildIds \cup {NoBuild},
   at      : {"idle", "logs"},
   over    : BOOLEAN,
   cursor  : Nat,
   got     : Seq(Nat),
   skipped : SUBSET Nat]

NewReader == [build |-> NoBuild, at |-> "idle", over |-> FALSE,
              cursor |-> 0, got |-> << >>, skipped |-> {}]

TypeOK ==
  /\ StoreTypeOK
  /\ BuildTypeOK
  /\ up \in BOOLEAN
  /\ crashes \in 0..MaxCrashes
  /\ request \in [Callers -> Requests]
  /\ reader \in [Readers -> Polls]
  /\ issued \subseteq TemplateIds \X BuildIds
  /\ deleted \subseteq TemplateIds
  /\ brought \in [TemplateIds -> [Commands -> BuildIds \cup {NoBuild}]]

Init ==
  /\ StoreInit
  /\ BuildInit
  /\ up = TRUE
  /\ crashes = 0
  /\ request = [c \in Callers |-> NoRequest]
  /\ reader = [r \in Readers |-> NewReader]
  /\ issued = {} /\ deleted = {}
  /\ brought = [t \in TemplateIds |-> Of(NoBuild)]

Goes(c, next) == request' = [request EXCEPT ![c] = next]

-----------------------------------------------------------------------------
(***************************************************************************)
(* POST /v3/templates.                                                     *)
(***************************************************************************)

(* Create, and ErrAliasTaken.  A client may know the id of another template *)
(* and take it for a name, but no id that has not been handed out.          *)
CreateTemplate(c) ==
  /\ up
  /\ request[c] = NoRequest
  /\ \E n \in Names \ (TemplateIds \ minted) :
       \/ /\ n \in DOMAIN aliases
          /\ Goes(c, [at |-> "resolve", name |-> n])
          /\ UNCHANGED storeVars
       \/ \E t \in TemplateIds \ minted, ok \in BOOLEAN :
            /\ Create(t, n, ok)
            /\ Goes(c, IF ok THEN [at |-> "append", template |-> t]
                             ELSE NoRequest)
  /\ UNCHANGED <<buildVars, processVars, reader, historyVars>>

(* Mutant: ErrNotFound of ResolveAlias is not looked at. *)
ResolveUnchecked(c) ==
  /\ request[c].at = "resolve"
  /\ LET n == request[c].name
     IN  Goes(c, [at |-> "append",
                  template |-> IF n \in DOMAIN aliases THEN aliases[n]
                                                       ELSE NoTemplate])
  /\ UNCHANGED <<storeVars, buildVars, processVars, reader, historyVars>>

(* The template that has the name; it may have been deleted since. *)
ResolveExisting(c) ==
  /\ request[c].at = "resolve"
  /\ LET n == request[c].name
     IN  Goes(c, IF n \in DOMAIN aliases
                   THEN [at |-> "append", template |-> aliases[n]]
                   ELSE NoRequest)
  /\ UNCHANGED <<storeVars, buildVars, processVars, reader, historyVars>>

RecordBuild(c) ==
  /\ request[c].at = "append"
  /\ LET t == request[c].template
     IN  IF t \in DOMAIN memory
           THEN \E b \in BuildIds \ minted, ok \in BOOLEAN :
                  /\ AppendBuild(t, b, ok)
                  /\ issued' = IF ok THEN issued \cup {<<t, b>>} ELSE issued
           ELSE UNCHANGED <<storeVars, issued>>
  /\ Goes(c, NoRequest)
  /\ UNCHANGED <<buildVars, processVars, reader, deleted, brought>>

-----------------------------------------------------------------------------
(***************************************************************************)
(* DELETE /templates/{id} and PATCH /v2/templates/{id}.                    *)
(***************************************************************************)

DeleteTemplate ==
  /\ up
  /\ \E t \in DOMAIN memory, ok \in BOOLEAN :
       /\ Delete(t, ok)
       /\ deleted' = IF ok THEN deleted \cup {t} ELSE deleted
  /\ UNCHANGED <<buildVars, processVars, request, reader, issued, brought>>

(* public and tags are left out: what remains is the flush. *)
PatchTemplate ==
  /\ up
  /\ \E t \in DOMAIN memory, ok \in BOOLEAN : 
       UpdateMeta(t, memory[t].image, memory[t].commands, ok)
  /\ UNCHANGED <<buildVars, processVars, request, reader, historyVars>>

-----------------------------------------------------------------------------
(***************************************************************************)
(* POST /v2/templates/{id}/builds/{bid}.                                   *)
(***************************************************************************)

(* fromTemplate resolves and has a ready build. *)
MayBeParent(t) == t \in DOMAIN memory /\ HasReady(memory[t])

(* Get and the resolution of fromTemplate; NoTemplate is a fromImage.  No   *)
(* build id is refused, though it is another template's or the client made  *)
(* it up: an id that NewBuildID then does not mint.                         *)
StartBuild(c) ==
  /\ up
  /\ request[c] = NoRequest
  /\ \E t \in DOMAIN memory, b \in BuildIds,
        parent \in DOMAIN memory \cup {NoTemplate} :
       /\ AnyBuild \/ <<t, b>> \in issued
       /\ parent = NoTemplate \/ MayBeParent(parent)
       /\ minted' = minted \cup {b}
       /\ Goes(c, [at |-> "updateMeta", template |-> t, build |-> b,
                   parent |-> parent])
  /\ UNCHANGED <<memory, aliases, disk, dirty>>
  /\ UNCHANGED <<buildVars, processVars, reader, historyVars>>

(* Another build of t is about to be enqueued or has not ended. *)
Overlapped(t) ==
  \/ \E c \in Callers : request[c].at = "enqueue" /\ request[c].template = t
  \/ \E b \in DOMAIN builds : builds[b].template = t /\ builds[b].step # "done"

(* The build was started before. *)
StartedBefore(t, b) ==
  \/ b \in DOMAIN builds
  \/ memory[t].builds[b] \in BuildStatus \ {"waiting"}

(* Nothing else that is under way, or was, has a part in the start of b. *)
Alone(t, b) == ~Overlapped(t) /\ ~StartedBefore(t, b)

(* Mutant: the commands of an earlier build are kept. *)
CommandsKept(t, b, brings) ==
  [k \in Commands |-> IF k \in brings /\ memory[t].commands[k] = NoBuild
                        THEN b ELSE memory[t].commands[k]]

(* A request that does not bring a command leaves the old one. *)
CommandsAfter(t, b, brings) ==
  [k \in Commands |-> IF k \in brings THEN b ELSE memory[t].commands[k]]

(* Image tag and commands are persisted before there is an image.  The      *)
(* history keeps what the latest start of t brought, when it was alone.     *)
SetImageTag(c) ==
  /\ request[c].at = "updateMeta"
  /\ LET t == request[c].template
         b == request[c].build
     IN  IF t \in DOMAIN memory
           THEN \E ok \in BOOLEAN, brings \in SUBSET Commands :
                  /\ UpdateMeta(t, "user", CommandsAfter(t, b, brings), ok)
                  /\ Goes(c, IF ok THEN [request[c] EXCEPT !.at = "enqueue"]
                                   ELSE NoRequest)
                  /\ brought' = [brought EXCEPT ![t] =
                       [k \in Commands |->
                          IF ok /\ k \in brings /\ Alone(t, b) THEN b ELSE NoBuild]]
           ELSE Goes(c, NoRequest) /\ UNCHANGED <<storeVars, brought>>
  /\ UNCHANGED <<buildVars, processVars, reader, issued, deleted>>

Enqueue(c) ==
  /\ request[c].at = "enqueue"
  /\ \/ Enqueued(request[c].build, request[c].template, request[c].parent)
     \/ request[c].build \in DOMAIN builds /\ UNCHANGED buildVars
  /\ Goes(c, NoRequest)
  /\ UNCHANGED <<storeVars, processVars, reader, historyVars>>

-----------------------------------------------------------------------------
(***************************************************************************)
(* The end of a build: run's last locked section calls onComplete inside.  *)
(***************************************************************************)

(* Mutant: a failed build is not reported to the store. *)
FinishReportsSuccess(b) ==
  /\ \E end \in {<<"succeeded", "ready">>, <<"failed", "error">>}, ok \in BOOLEAN :
       /\ Completed(b, end[1], end[2])
       /\ IF end[2] = "ready"
            THEN UpdateBuild(builds[b].template, b, end[2], ok)
            ELSE UNCHANGED storeVars
  /\ UNCHANGED <<processVars, request, reader, historyVars>>

Finish(b) ==
  /\ \E end \in {<<"succeeded", "ready">>, <<"failed", "error">>}, ok \in BOOLEAN :
       /\ Completed(b, end[1], end[2])
       /\ UpdateBuild(builds[b].template, b, end[2], ok)
  /\ UNCHANGED <<processVars, request, reader, historyVars>>

Runs(b) ==
  \/ RunStep(b) /\ UNCHANGED <<storeVars, processVars, request, reader, historyVars>>
  \/ Finish(b)

-----------------------------------------------------------------------------
(***************************************************************************)
(* GET .../status and GET .../logs: Status under the manager's lock, then  *)
(* Logs under the log's own.  The reader passes the cursor of one answer   *)
(* to the next request.                                                    *)
(***************************************************************************)

PollStatus(r) ==
  /\ up
  /\ reader[r].at = "idle"
  /\ \E b \in DOMAIN builds :
       /\ reader[r].build \in {NoBuild, b}
       /\ reader' = [reader EXCEPT ![r].at = "logs", ![r].build = b,
                                   ![r].over = IsTerminal(builds[b].status)]
  /\ UNCHANGED <<storeVars, buildVars, processVars, request, historyVars>>

(* What the reader has skipped is what the log had dropped by then. *)
PollLogs(r) ==
  /\ reader[r].at = "logs"
  /\ \E limit \in Limits :
       LET log  == builds[reader[r].build].log
           from == reader[r].cursor
       IN  reader' = [reader EXCEPT
             ![r].at = "idle",
             ![r].cursor = ReadNext(log, from, limit),
             ![r].over = @ /\ limit = 0,
             ![r].got = @ \o ReadEntries(log, from, limit),
             ![r].skipped = @ \cup {i \in from..log.written : i < Earliest(log)}]
  /\ UNCHANGED <<storeVars, buildVars, processVars, request, historyVars>>

-----------------------------------------------------------------------------
(* Memory is lost; the file and the images stay. *)
Crash ==
  /\ up
  /\ crashes < MaxCrashes
  /\ up' = FALSE
  /\ crashes' = crashes + 1
  /\ memory' = Empty
  /\ aliases' = Empty
  /\ dirty' = FALSE
  /\ builds' = Empty
  /\ request' = [c \in Callers |-> NoRequest]
  /\ reader' = [r \in Readers |-> NewReader]
  /\ UNCHANGED <<disk, minted, images, historyVars>>

Restart ==
  /\ ~up
  /\ up' = TRUE
  /\ \E t \in TemplateIds :
       /\ t \in minted => BuiltinName \in {disk[x].alias : x \in DOMAIN disk}
       /\ LoadAndSeed(t)
  /\ UNCHANGED <<buildVars, crashes, request, reader, historyVars>>

-----------------------------------------------------------------------------
Next ==
  \/ \E c \in Callers :
       \/ CreateTemplate(c) \/ ResolveExisting(c) \/ RecordBuild(c)
       \/ StartBuild(c) \/ SetImageTag(c) \/ Enqueue(c)
  \/ DeleteTemplate
  \/ PatchTemplate
  \/ \E b \in BuildIds : Runs(b)
  \/ \E r \in Readers : PollStatus(r) \/ PollLogs(r)
  \/ Crash
  \/ Restart

Spec == Init /\ [][Next]_vars

(* The goroutine of a build is scheduled, docker build and flushes return. *)
FairSpec == Spec /\ \A b \in BuildIds : WF_vars(Runs(b))
=============================================================================
