--------------------------- MODULE TemplateStore ---------------------------
(***************************************************************************)
(* internal/template/store.go: templates and their builds, in memory and   *)
(* in one JSON file.  Every operation holds Store.mu for its whole length  *)
(* and flushes inside it, so each is one step.  flush writes a temporary   *)
(* file and renames it: the file holds the old contents or the new ones.   *)
(* An operator's ok is whether its flush succeeded; what each of them does *)
(* when it did not differs, and is the point of the model.                 *)
(***************************************************************************)
EXTENDS Templates, Functions

CONSTANTS
  BuiltinName,   \* the alias main.go seeds
  FlushFails     \* TRUE: writing the file may fail

ASSUME StoreAssumption == BuiltinName \in Names /\ FlushFails \in BOOLEAN

VARIABLES
  memory,    \* Store.templates: a record for each template id in the map
  aliases,   \* Store.aliases: alias -> template id
  disk,      \* the templates in the JSON file
  minted,    \* template and build ids handed out, and those clients made up
  dirty      \* history: memory has changes that a failed flush kept

storeVars == <<memory, aliases, disk, minted, dirty>>

StoreTypeOK ==
  /\ DOMAIN memory \subseteq TemplateIds
  /\ \A t \in DOMAIN memory : memory[t] \in TemplateRecords
  /\ DOMAIN aliases \subseteq Names
  /\ \A n \in DOMAIN aliases : aliases[n] \in TemplateIds
  /\ DOMAIN disk \subseteq TemplateIds
  /\ \A t \in DOMAIN disk : disk[t] \in TemplateRecords
  /\ minted \subseteq TemplateIds \cup BuildIds
  /\ dirty \in BOOLEAN

-----------------------------------------------------------------------------
(* Mutant: ids only. *)
LookupById(key) == IF key \in DOMAIN memory THEN {key} ELSE {}

(* ResolveNameOrID: the template with this id, or else with this alias. *)
Lookup(key) ==
  IF key \in DOMAIN memory THEN {key}
  ELSE {t \in DOMAIN memory : key \in DOMAIN aliases /\ aliases[key] = t}

Flush(ok) ==
  /\ ok \/ FlushFails
  /\ disk' = IF ok THEN memory' ELSE disk

(* Create, AppendBuild and Delete take their change back. *)
FlushOrUndo(ok) == Flush(ok) /\ dirty' = (dirty /\ ~ok)

(* UpdateMeta and UpdateBuild keep it. *)
FlushOrKeep(ok) == Flush(ok) /\ dirty' = ~ok

(* All commands of one build. *)
Of(b) == [k \in Commands |-> b]

NewTemplate(n) == [alias |-> n, image |-> "none", commands |-> Of(NoBuild),
                   builds |-> NoBuilds]

(* Mutant: a Create whose flush failed leaves the template in the map. *)
CreateKeeps(t, n, ok) ==
  /\ n \notin DOMAIN aliases
  /\ memory' = With(memory, t, NewTemplate(n))
  /\ aliases' = With(aliases, n, t)
  /\ minted' = minted \cup {t}
  /\ FlushOrUndo(ok)

(* An id that is never returned is as good as never minted. *)
Create(t, n, ok) ==
  /\ n \notin DOMAIN aliases
  /\ memory' = IF ok THEN With(memory, t, NewTemplate(n)) ELSE memory
  /\ aliases' = IF ok THEN With(aliases, n, t) ELSE aliases
  /\ minted' = IF ok THEN minted \cup {t} ELSE minted
  /\ FlushOrUndo(ok)

(* Mutant: the alias of a deleted template stays taken. *)
DeleteKeepsAlias(t, ok) ==
  /\ memory' = IF ok THEN Restrict(memory, DOMAIN memory \ {t}) ELSE memory
  /\ FlushOrUndo(ok)
  /\ UNCHANGED <<aliases, minted>>

Delete(t, ok) ==
  LET n == memory[t].alias
  IN  /\ memory' = IF ok THEN Restrict(memory, DOMAIN memory \ {t}) ELSE memory
      /\ aliases' = IF ok /\ n \in DOMAIN aliases /\ aliases[n] = t
                      THEN Restrict(aliases, DOMAIN aliases \ {n}) ELSE aliases
      /\ FlushOrUndo(ok)
      /\ UNCHANGED minted

(* Mutant: the build is recorded in memory only. *)
AppendUnflushed(t, b, ok) ==
  /\ memory' = IF ok THEN [memory EXCEPT ![t].builds[b] = "waiting"] ELSE memory
  /\ minted' = IF ok THEN minted \cup {b} ELSE minted
  /\ UNCHANGED <<aliases, disk, dirty>>

AppendBuild(t, b, ok) ==
  /\ memory' = IF ok THEN [memory EXCEPT ![t].builds[b] = "waiting"] ELSE memory
  /\ minted' = IF ok THEN minted \cup {b} ELSE minted
  /\ FlushOrUndo(ok)
  /\ UNCHANGED aliases

(* The mutators of the handlers leave the alias alone: startBuild sets the  *)
(* image tag and the commands, patchTemplate what the model leaves out.     *)
UpdateMeta(t, image, commands, ok) ==
  /\ memory' = [memory EXCEPT ![t].image = image, ![t].commands = commands]
  /\ FlushOrKeep(ok)
  /\ UNCHANGED <<aliases, minted>>

(* ErrNotFound for an unknown template or build. *)
UpdateBuild(t, b, status, ok) ==
  IF t \in DOMAIN memory /\ Recorded(memory[t], b)
    THEN /\ memory' = [memory EXCEPT ![t].builds[b] = status]
         /\ FlushOrKeep(ok)
         /\ UNCHANGED <<aliases, minted>>
    ELSE /\ ok
         /\ UNCHANGED storeVars

-----------------------------------------------------------------------------
(* SeedBuiltIn on the templates of a freshly loaded file: the template that *)
(* has the builtin alias takes the builtin image, or t is created for it.   *)
Seeded(loaded, t) ==
  LET holder == {x \in DOMAIN loaded : loaded[x].alias = BuiltinName}
  IN  IF holder # {}
        THEN [x \in DOMAIN loaded |->
                IF x \in holder THEN [loaded[x] EXCEPT !.image = "builtin",
                                                         !.commands = Of(SeedBuild)]
                                ELSE loaded[x]]
        ELSE With(loaded, t, [alias |-> BuiltinName, image |-> "builtin",
                              commands |-> Of(SeedBuild),
                              builds |-> [NoBuilds EXCEPT ![SeedBuild] = "ready"]])

(* The aliases load and SeedBuiltIn derive; each is held by one template. *)
AliasesOf(templates) ==
  [n \in {templates[t].alias : t \in DOMAIN templates} |->
     CHOOSE t \in DOMAIN templates : templates[t].alias = n]

(* Mutant: aliases are not rebuilt from the file. *)
LoadWithoutAliases(t) ==
  /\ memory' = Seeded(disk, t)
  /\ aliases' = With(Empty, BuiltinName, CHOOSE x \in DOMAIN memory' :
                                           memory'[x].alias = BuiltinName)
  /\ disk' = memory'
  /\ minted' = minted \cup DOMAIN memory'
  /\ dirty' = FALSE

(* NewStore followed by SeedBuiltIn. When the flush of the seed fails the   *)
(* process exits, so there is no step for it.                               *)
LoadAndSeed(t) ==
  /\ memory' = Seeded(disk, t)
  /\ aliases' = AliasesOf(memory')
  /\ disk' = memory'
  /\ minted' = minted \cup DOMAIN memory'
  /\ dirty' = FALSE

StoreInit ==
  \E t \in TemplateIds :
    /\ memory = Seeded(Empty, t)
    /\ aliases = AliasesOf(memory)
    /\ disk = memory
    /\ minted = {t}
    /\ dirty = FALSE
=============================================================================
