---------------------- MODULE TemplateBuildsProperties ----------------------
(***************************************************************************)
(* What the template store, the build manager and the handlers over them   *)
(* promise together.                                                       *)
(***************************************************************************)
EXTENDS TemplateBuilds

(* Aliases and templates name each other: a lookup by name always finds the *)
(* one template of that name, through concurrent creates of one name,       *)
(* deletes, failed flushes and restarts (Store.aliases, store.go:47).       *)
AliasesAgree ==
  up => /\ \A n \in DOMAIN aliases :
             aliases[n] \in DOMAIN memory /\ memory[aliases[n]].alias = n
        /\ \A t \in DOMAIN memory :
             memory[t].alias \in DOMAIN aliases /\ aliases[memory[t].alias] = t

(* What POST /v3/templates has answered survives a crash: the template and  *)
(* the build are in the file until the template is deleted (store.go:36).   *)
AcknowledgedIsDurable ==
  \A pair \in issued \ (deleted \X BuildIds) :
    pair[1] \in DOMAIN disk /\ Recorded(disk[pair[1]], pair[2])

(* A Create, AppendBuild or Delete whose flush failed leaves no trace:      *)
(* memory differs from the file only by what UpdateMeta and UpdateBuild     *)
(* keep (the rollbacks in store.go:232, 319 and 373).                       *)
FailedWritesLeaveNoTrace == up /\ ~dirty => memory = disk

(* Whoever sees a build finished finds the same outcome in the store: the   *)
(* report to the store is made under the lock that publishes the status     *)
(* (builder/manager.go:187, main.go:203).                                   *)
TerminalIsPersisted ==
  \A b \in DOMAIN builds :
    IsTerminal(builds[b].status) /\ builds[b].template \in DOMAIN memory =>
      memory[builds[b].template].builds[b] \in {"unrecorded", builds[b].status}

(* A build that the store, in memory or in the file, calls ready has left   *)
(* an image behind its template's tag, whatever crashed since.              *)
ReadyHasImage ==
  \A templates \in {memory, disk} : \A t \in DOMAIN templates :
    \A b \in BuildIds : IsReady(templates[t], b) => images[t] # NoBuild

(* A template with a ready build of its own opens as what was built: never  *)
(* as the base image, never as a tag that is missing.  Its id finds it, and *)
(* its name does unless another template has that name for its id, which    *)
(* comes first; and the builtin template is the builtin image again once    *)
(* the process has been restarted (resolver.go:31, ResolveNameOrID,         *)
(* resolveTemplate, SeedBuiltIn).                                           *)
ReadyResolves ==
  up => \A t \in DOMAIN memory : \A b \in BuildIds : IsReady(memory[t], b) =>
      /\ \A key \in {t} \cup ({memory[t].alias} \ (DOMAIN memory \ {t})) :
           Lookup(key) = {t}
      /\ \/ ResolvedImage(memory[t]) = "user" /\ images[t] # NoBuild
         \/ /\ ResolvedImage(memory[t]) = "builtin"
            /\ memory[t].alias = BuiltinName /\ crashes > 0

(* When the latest start of a build of a template was alone - no other      *)
(* build of it under way, that one not started before, its record written - *)
(* and the build became ready, then the commands it brought are the         *)
(* template's and the image is that build's, whatever builds, failed, mixed *)
(* or were cut by a crash before.  It says nothing of the commands that     *)
(* start did not bring, which stay as they were, nor of a build that fails, *)
(* which leaves its commands over the older image (builds.go:127).          *)
CommandsFitImage ==
  up => \A t \in DOMAIN memory : \A k \in Commands :
    LET b == brought[t][k]
    IN  b # NoBuild /\ IsReady(memory[t], b) /\ ResolvedImage(memory[t]) = "user" =>
          memory[t].commands[k] = b /\ images[t] = b

(* A finished build stays as it is: starting it again, from the same or     *)
(* another request, neither runs it twice nor touches its status and log    *)
(* (Enqueue's check of the map, builder/manager.go:139).                    *)
FinishedStays ==
  [][\A b \in DOMAIN builds \cap DOMAIN builds' :
       IsTerminal(builds[b].status) => builds'[b] = builds[b]]_vars

(* Every build that was started ends, unless the process does: no failing   *)
(* step leaves it building (builder/manager.go:161).                        *)
BuildsFinish ==
  \A b \in BuildIds :
    b \in DOMAIN builds ~>
      b \notin DOMAIN builds \/ IsTerminal(builds[b].status)

(* A reader that follows the cursor gets every entry once, in order, except *)
(* those the ring had dropped before it asked (ringbuf.go:65).              *)
LogDelivered ==
  \A r \in Readers :
    LET got == reader[r].got
    IN  /\ \A i, j \in DOMAIN got : i < j => got[i] < got[j]
        /\ Range(got) \cap reader[r].skipped = {}
        /\ Range(got) \cup reader[r].skipped = 0..(reader[r].cursor - 1)

(* An answer without a limit that says the build is over carries the log to *)
(* its last line: a client may stop polling (Status before Logs,            *)
(* builds.go:189 and 203).                                                  *)
TerminalPollIsWhole ==
  \A r \in Readers :
    reader[r].at = "idle" /\ reader[r].over
      => reader[r].cursor = builds[reader[r].build].log.written

(* A build that startBuild accepted with a fromTemplate has an image to     *)
(* start FROM ("The parent must have at least one ready build; otherwise    *)
(* the child build has nothing to FROM", builds.go:108).                    *)
ParentHasImage ==
  \A b \in DOMAIN builds :
    builds[b].parent # NoTemplate => images[builds[b].parent] # NoBuild

-----------------------------------------------------------------------------
(* What a set of records says, as relations.                                *)
NamesIn(m)    == {<<t, m[t].alias>> : t \in DOMAIN m}
BuildsIn(m)   ==
  {pair \in (DOMAIN m) \X BuildIds : Recorded(m[pair[1]], pair[2])}
OutcomesIn(m) ==
  {pair \in BuildsIn(m) : IsTerminal(m[pair[1]].builds[pair[2]])}

(* The catalog is what the file holds: memory may be ahead of it by what a  *)
(* failed flush has kept.                                                   *)
Catalog == INSTANCE TemplateCatalog WITH
  open     <- up,
  used     <- minted,
  listed   <- NamesIn(disk),
  found    <- {<<aliases[n], n>> : n \in DOMAIN aliases},
  recorded <- BuildsIn(disk),
  ended    <- OutcomesIn(disk),
  answered <- issued,
  removed  <- deleted

(* Store, index, file and handlers together are one catalog that changes by *)
(* one whole operation at a time: no failed flush, however the operation    *)
(* answers it, and no restart half applies a change, lets a name and the    *)
(* file disagree, takes an outcome back or hands an id out again            *)
(* (every operation of store.go, from load to UpdateBuild).                 *)
CatalogImplemented == Catalog!Spec
=============================================================================
