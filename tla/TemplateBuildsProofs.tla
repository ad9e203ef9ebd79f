------------------------ MODULE TemplateBuildsProofs ------------------------
(***************************************************************************)
(* The template store, the build manager and their handlers keep their     *)
(* promises for any number of templates, builds, names, requests and       *)
(* crashes, and with flushes that fail at any time.                        *)
(***************************************************************************)
EXTENDS TemplateBuildsProperties, TLAPS

(* The types of everything but what readers hold.                           *)
CoreTypeOK ==
  /\ StoreTypeOK
  /\ BuildTypeOK
  /\ up \in BOOLEAN
  /\ crashes \in 0..MaxCrashes
  /\ request \in [Callers -> Requests]
  /\ issued \subseteq TemplateIds \X BuildIds
  /\ deleted \subseteq TemplateIds
  /\ brought \in [TemplateIds -> [Commands -> BuildIds \cup {NoBuild}]]

(* Ids are handed out once: whatever carries one got it from the store.     *)
OnlyMinted ==
  /\ DOMAIN memory \subseteq minted
  /\ DOMAIN disk \subseteq minted
  /\ DOMAIN builds \subseteq minted
  /\ \A c \in Callers : request[c].at \in {"updateMeta", "enqueue"} =>
       request[c].build \in minted
  /\ \A pair \in issued : pair[1] \in minted /\ pair[2] \in minted

(* A dead process holds nothing.                                            *)
NothingWhileDown ==
  ~up => /\ crashes > 0
         /\ memory = Empty
         /\ builds = Empty
         /\ \A c \in Callers : request[c] = NoRequest

(* The file never gives a name to two templates.                            *)
DiskNamesDistinct ==
  \A t, u \in DOMAIN disk : disk[t].alias = disk[u].alias => t = u

(* What was answered is in memory too, as long as there is one.             *)
AcknowledgedInMemory ==
  up => \A pair \in issued \ (deleted \X BuildIds) :
    pair[1] \in DOMAIN memory /\ Recorded(memory[pair[1]], pair[2])

(* A goroutine that has published the outcome has ended, and one that is    *)
(* about to report success has tagged an image.                             *)
StepsFitStatus ==
  \A b \in DOMAIN builds :
    /\ IsTerminal(builds[b].status) <=> builds[b].step = "done"
    /\ builds[b].step = "succeeded" => images[builds[b].template] # NoBuild

(* What a start of t brought counts only while no other build of t is       *)
(* under way: nothing but that build can tag the image.                     *)
LoneStarts ==
  \A t \in TemplateIds, k \in Commands : brought[t][k] \in BuildIds =>
    /\ t \in minted
    /\ \A c \in Callers :
         request[c].at = "enqueue" /\ request[c].template = t =>
           request[c].build = brought[t][k]
    /\ \A b \in DOMAIN builds :
         builds[b].template = t /\ builds[b].step # "done" =>
           /\ b = brought[t][k]
           /\ builds[b].step = "succeeded" => images[t] = b

(* What is enqueued or built has its template's image tag set before.       *)
TaggedBefore ==
  /\ \A c \in Callers : request[c].at = "enqueue" =>
       /\ request[c].template \in minted
       /\ request[c].template \in DOMAIN memory =>
            memory[request[c].template].image = "user"
  /\ \A b \in DOMAIN builds :
       /\ builds[b].template \in minted
       /\ builds[b].template \in DOMAIN memory =>
            memory[builds[b].template].image = "user"

(* r may be the record of t.                                                *)
SoundRecord(t, r) ==
  /\ r.image = "builtin" => r.alias = BuiltinName
  /\ \A b \in BuildIds : IsReady(r, b) =>
       /\ images[t] # NoBuild
       /\ r.image = "user" \/ (r.image = "builtin" /\ crashes > 0)
  /\ \A k \in Commands : brought[t][k] \in BuildIds =>
       /\ r.image = "user" => r.commands[k] = brought[t][k]
       /\ IsReady(r, brought[t][k]) => images[t] = brought[t][k]

MemorySound == \A t \in DOMAIN memory : SoundRecord(t, memory[t])
DiskSound   == \A t \in DOMAIN disk : SoundRecord(t, disk[t])

MemoryInv ==
  /\ AliasesAgree
  /\ AcknowledgedInMemory
  /\ TerminalIsPersisted
  /\ MemorySound

DiskInv ==
  /\ DiskNamesDistinct
  /\ AcknowledgedIsDurable
  /\ DiskSound

TemplatesInv ==
  /\ CoreTypeOK
  /\ OnlyMinted
  /\ NothingWhileDown
  /\ StepsFitStatus
  /\ LoneStarts
  /\ TaggedBefore
  /\ FailedWritesLeaveNoTrace
  /\ MemoryInv
  /\ DiskInv

-----------------------------------------------------------------------------
LEMMA WithFacts ==
  ASSUME NEW m, NEW k, NEW v
  PROVE  /\ DOMAIN With(m, k, v) = DOMAIN m \cup {k}
         /\ With(m, k, v)[k] = v
         /\ \A x \in DOMAIN m \ {k} : With(m, k, v)[x] = m[x]
BY DEF With

LEMMA RestrictFacts ==
  ASSUME NEW m, NEW t
  PROVE  /\ DOMAIN Restrict(m, DOMAIN m \ {t}) = DOMAIN m \ {t}
         /\ \A x \in DOMAIN m \ {t} : Restrict(m, DOMAIN m \ {t})[x] = m[x]
BY DEF Restrict

LEMMA EmptyDomain == DOMAIN Empty = {}
BY DEF Empty

LEMMA NoBuildsType ==
  /\ NoBuilds \in [BuildIds \cup {SeedBuild} -> BuildStatus \cup {"unrecorded"}]
  /\ [NoBuilds EXCEPT ![SeedBuild] = "ready"] \in
       [BuildIds \cup {SeedBuild} -> BuildStatus \cup {"unrecorded"}]
BY DEF NoBuilds, BuildStatus

LEMMA OfFacts ==
  /\ Of(NoBuild) \in [Commands -> BuildIds \cup {NoBuild}]
  /\ \A k \in Commands : Of(NoBuild)[k] = NoBuild
  /\ \A b \in {SeedBuild, NoBuild} :
       Of(b) \in [Commands -> BuildIds \cup {SeedBuild, NoBuild}]
BY DEF Of

LEMMA NewTemplateType ==
  ASSUME NEW n \in Names
  PROVE  /\ NewTemplate(n) \in TemplateRecords
         /\ NewTemplate(n).alias = n /\ NewTemplate(n).image = "none"
         /\ NewTemplate(n).commands = Of(NoBuild)
         /\ NewTemplate(n).builds = NoBuilds
BY NoBuildsType, OfFacts DEF NewTemplate, TemplateRecords

(* What LoadAndSeed makes of the templates of a file: all are there, with   *)
(* their names and builds, and the builtin one has the builtin image.       *)
LEMMA SeededFacts ==
  ASSUME NEW m, NEW t \in TemplateIds, NEW s, s = Seeded(m, t),
         DOMAIN m \subseteq TemplateIds,
         \A x \in DOMAIN m : m[x] \in TemplateRecords,
         t \in DOMAIN m => \E x \in DOMAIN m : m[x].alias = BuiltinName
  PROVE  /\ DOMAIN m \subseteq DOMAIN s /\ DOMAIN s \subseteq DOMAIN m \cup {t}
         /\ \A x \in DOMAIN s : s[x] \in TemplateRecords
         /\ \A x \in DOMAIN m :
              /\ s[x].alias = m[x].alias /\ s[x].builds = m[x].builds
              /\ \/ m[x].alias # BuiltinName /\ s[x] = m[x]
                 \/ /\ m[x].alias = BuiltinName
                    /\ s[x].image = "builtin" /\ s[x].commands = Of(SeedBuild)
         /\ \A x \in DOMAIN s \ DOMAIN m :
              /\ x = t /\ \A y \in DOMAIN m : m[y].alias # BuiltinName
              /\ s[x].alias = BuiltinName /\ s[x].image = "builtin"
              /\ s[x].commands = Of(SeedBuild)
              /\ \A b \in BuildIds : ~IsReady(s[x], b) /\ ~Recorded(s[x], b)
<1> DEFINE holder == {x \in DOMAIN m : m[x].alias = BuiltinName}
           fresh  == [alias |-> BuiltinName, image |-> "builtin",
                      commands |-> Of(SeedBuild),
                      builds |-> [NoBuilds EXCEPT ![SeedBuild] = "ready"]]
<1>1. /\ fresh \in TemplateRecords
      /\ fresh.alias = BuiltinName /\ fresh.image = "builtin"
      /\ fresh.commands = Of(SeedBuild)
      /\ \A b \in BuildIds : ~IsReady(fresh, b) /\ ~Recorded(fresh, b)
  BY NoBuildsType, OfFacts, StoreAssumption, BuildIdsAssumption
  DEF TemplateRecords, IsReady, Recorded, NoBuilds
<1>2. CASE holder # {}
  <2>1. s = [x \in DOMAIN m |->
               IF x \in holder THEN [m[x] EXCEPT !.image = "builtin",
                                                 !.commands = Of(SeedBuild)]
                               ELSE m[x]]
    BY <1>2 DEF Seeded
  <2>2. DOMAIN s = DOMAIN m
    BY <2>1
  <2>3. ASSUME NEW x \in holder
        PROVE  LET v == [m[x] EXCEPT !.image = "builtin", !.commands = Of(SeedBuild)]
               IN  /\ v \in TemplateRecords
                   /\ v.alias = m[x].alias /\ v.builds = m[x].builds
                   /\ v.image = "builtin" /\ v.commands = Of(SeedBuild)
    BY OfFacts DEF TemplateRecords
  <2>4. \A x \in DOMAIN m \ holder : s[x] = m[x] /\ m[x].alias # BuiltinName
    BY <2>1
  <2>5. \A x \in holder : /\ m[x].alias = BuiltinName /\ s[x] \in TemplateRecords
                          /\ s[x].alias = m[x].alias /\ s[x].builds = m[x].builds
                          /\ s[x].image = "builtin" /\ s[x].commands = Of(SeedBuild)
    <3> SUFFICES ASSUME NEW x \in holder
                 PROVE  /\ m[x].alias = BuiltinName /\ s[x] \in TemplateRecords
                        /\ s[x].alias = m[x].alias /\ s[x].builds = m[x].builds
                        /\ s[x].image = "builtin" /\ s[x].commands = Of(SeedBuild)
      OBVIOUS
    <3> DEFINE v == [m[x] EXCEPT !.image = "builtin", !.commands = Of(SeedBuild)]
    <3>1. s[x] = v
      BY <2>1
    <3>2. v \in TemplateRecords /\ v.alias = m[x].alias /\ v.builds = m[x].builds
          /\ v.image = "builtin" /\ v.commands = Of(SeedBuild)
      BY <2>3
    <3> HIDE DEF v
    <3> QED
      BY <3>1, <3>2
  <2>6. \A x \in DOMAIN s : s[x] \in TemplateRecords
    BY <2>2, <2>4, <2>5
  <2> QED
    BY <2>2, <2>4, <2>5, <2>6
<1>3. CASE holder = {}
  <2>1. s = With(m, t, fresh)
    BY <1>3 DEF Seeded
  <2>2. t \notin DOMAIN m
    BY <1>3
  <2> HIDE DEF fresh
  <2>3. /\ DOMAIN s = DOMAIN m \cup {t} /\ s[t] = fresh
        /\ \A x \in DOMAIN m : s[x] = m[x] /\ m[x].alias # BuiltinName
    <3>1. /\ DOMAIN s = DOMAIN m \cup {t} /\ s[t] = fresh
          /\ \A x \in DOMAIN m \ {t} : s[x] = m[x]
      BY <2>1 DEF With
    <3>2. \A x \in DOMAIN m : m[x].alias # BuiltinName
      BY <1>3
    <3> QED
      BY <2>2, <3>1, <3>2
  <2>4. \A x \in DOMAIN s : s[x] \in TemplateRecords
    <3>1. s[t] \in TemplateRecords
      BY <1>1, <2>3
    <3>2. \A x \in DOMAIN m : s[x] \in TemplateRecords
      BY <2>3
    <3> QED
      BY <2>3, <3>1, <3>2
  <2> QED
    BY <1>1, <1>3, <2>2, <2>3, <2>4
<1> QED
  BY <1>2, <1>3

LEMMA AliasesOfFacts ==
  ASSUME NEW m
  PROVE  /\ \A t \in DOMAIN m : m[t].alias \in DOMAIN AliasesOf(m)
         /\ \A n \in DOMAIN AliasesOf(m) :
              AliasesOf(m)[n] \in DOMAIN m /\ m[AliasesOf(m)[n]].alias = n
<1>1. DOMAIN AliasesOf(m) = {m[t].alias : t \in DOMAIN m}
  BY DEF AliasesOf
<1>2. ASSUME NEW n \in DOMAIN AliasesOf(m)
      PROVE  AliasesOf(m)[n] \in DOMAIN m /\ m[AliasesOf(m)[n]].alias = n
  <2>1. \E t \in DOMAIN m : m[t].alias = n
    BY <1>1
  <2>2. AliasesOf(m)[n] = CHOOSE t \in DOMAIN m : m[t].alias = n
    BY <1>1 DEF AliasesOf
  <2> QED
    BY <2>1, <2>2
<1> QED
  BY <1>1, <1>2

-----------------------------------------------------------------------------
(* What the operations of the store do to its variables.                    *)

StoreUnchanged ==
  /\ memory' = memory /\ aliases' = aliases /\ disk' = disk
  /\ minted' = minted /\ dirty' = dirty

LEMMA CreateOp ==
  ASSUME StoreTypeOK, DOMAIN memory \subseteq minted,
         NEW t \in TemplateIds \ minted, NEW n \in Names, NEW ok \in BOOLEAN,
         Create(t, n, ok)
  PROVE  /\ StoreTypeOK'
         /\ n \notin DOMAIN aliases
         /\ ok => /\ disk' = memory' /\ dirty' = FALSE
                  /\ minted' = minted \cup {t}
                  /\ DOMAIN memory' = DOMAIN memory \cup {t}
                  /\ memory'[t] = NewTemplate(n)
                  /\ \A x \in DOMAIN memory : x # t /\ memory'[x] = memory[x]
                  /\ DOMAIN aliases' = DOMAIN aliases \cup {n}
                  /\ aliases'[n] = t
                  /\ \A m \in DOMAIN aliases : m # n /\ aliases'[m] = aliases[m]
         /\ ~ok => StoreUnchanged
<1>1. CASE ok
  <2>1. /\ memory' = With(memory, t, NewTemplate(n))
        /\ aliases' = With(aliases, n, t)
        /\ n \notin DOMAIN aliases
        /\ disk' = memory' /\ dirty' = FALSE /\ minted' = minted \cup {t}
    BY <1>1 DEF Create, FlushOrUndo, Flush
  <2>2. /\ DOMAIN memory' = DOMAIN memory \cup {t}
        /\ memory'[t] = NewTemplate(n)
        /\ \A x \in DOMAIN memory : x # t /\ memory'[x] = memory[x]
    BY <2>1 DEF With
  <2>3. /\ DOMAIN aliases' = DOMAIN aliases \cup {n}
        /\ aliases'[n] = t
        /\ \A m \in DOMAIN aliases : m # n /\ aliases'[m] = aliases[m]
    BY <2>1 DEF With
  <2>4. \A x \in DOMAIN memory' : memory'[x] \in TemplateRecords
    BY <2>2, NewTemplateType DEF StoreTypeOK
  <2>5. StoreTypeOK'
    BY <2>1, <2>2, <2>3, <2>4 DEF StoreTypeOK
  <2> QED
    BY <1>1, <2>1, <2>2, <2>3, <2>5
<1>2. CASE ~ok
  <2>1. StoreUnchanged /\ n \notin DOMAIN aliases
    BY <1>2 DEF Create, FlushOrUndo, Flush, StoreUnchanged, StoreTypeOK
  <2> QED
    BY <1>2, <2>1 DEF StoreTypeOK, StoreUnchanged
<1> QED
  BY <1>1, <1>2

LEMMA DeleteOp ==
  ASSUME StoreTypeOK, NEW t \in DOMAIN memory, NEW ok \in BOOLEAN, Delete(t, ok)
  PROVE  /\ StoreTypeOK'
         /\ minted' = minted
         /\ ok => /\ disk' = memory' /\ dirty' = FALSE
                  /\ DOMAIN memory' = DOMAIN memory \ {t}
                  /\ \A x \in DOMAIN memory' : memory'[x] = memory[x]
                  /\ DOMAIN aliases' \subseteq DOMAIN aliases
                  /\ \A n \in DOMAIN aliases' : aliases'[n] = aliases[n]
                  /\ \A n \in DOMAIN aliases :
                       n \in DOMAIN aliases' <=>
                         ~(n = memory[t].alias /\ aliases[n] = t)
         /\ ~ok => StoreUnchanged
<1>1. CASE ok
  <2> DEFINE n == memory[t].alias
  <2>1. /\ memory' = Restrict(memory, DOMAIN memory \ {t})
        /\ aliases' = IF n \in DOMAIN aliases /\ aliases[n] = t
                        THEN Restrict(aliases, DOMAIN aliases \ {n}) ELSE aliases
        /\ disk' = memory' /\ dirty' = FALSE /\ minted' = minted
    BY <1>1 DEF Delete, FlushOrUndo, Flush
  <2>2. /\ DOMAIN memory' = DOMAIN memory \ {t}
        /\ \A x \in DOMAIN memory' : memory'[x] = memory[x]
    BY <2>1 DEF Restrict
  <2> HIDE DEF n
  <2>3. /\ DOMAIN aliases' \subseteq DOMAIN aliases
        /\ \A m \in DOMAIN aliases' : aliases'[m] = aliases[m]
        /\ \A m \in DOMAIN aliases :
             m \in DOMAIN aliases' <=> ~(m = n /\ aliases[m] = t)
    BY <2>1 DEF Restrict
  <2>4. StoreTypeOK'
    BY <2>1, <2>2, <2>3 DEF StoreTypeOK
  <2> QED
    BY <1>1, <2>1, <2>2, <2>3, <2>4 DEF n
<1>2. CASE ~ok
  <2>1. StoreUnchanged
    BY <1>2 DEF Delete, FlushOrUndo, Flush, StoreUnchanged, StoreTypeOK
  <2> QED
    BY <1>2, <2>1 DEF StoreTypeOK, StoreUnchanged
<1> QED
  BY <1>1, <1>2

LEMMA AppendOp ==
  ASSUME StoreTypeOK, NEW t \in DOMAIN memory, NEW b \in BuildIds,
         NEW ok \in BOOLEAN, AppendBuild(t, b, ok)
  PROVE  /\ StoreTypeOK'
         /\ ok => /\ disk' = memory' /\ dirty' = FALSE /\ aliases' = aliases
                  /\ minted' = minted \cup {b}
                  /\ DOMAIN memory' = DOMAIN memory
                  /\ memory'[t].alias = memory[t].alias
                  /\ memory'[t].image = memory[t].image
                  /\ memory'[t].commands = memory[t].commands
                  /\ memory'[t].builds[b] = "waiting"
                  /\ \A y \in BuildIds \cup {SeedBuild} :
                       y # b => memory'[t].builds[y] = memory[t].builds[y]
                  /\ \A x \in DOMAIN memory : x # t => memory'[x] = memory[x]
         /\ ~ok => StoreUnchanged
<1>1. CASE ok
  <2> DEFINE v == [memory[t] EXCEPT !.builds[b] = "waiting"]
  <2>1. /\ memory' = [memory EXCEPT ![t].builds[b] = "waiting"]
        /\ disk' = memory' /\ dirty' = FALSE /\ aliases' = aliases
        /\ minted' = minted \cup {b}
    BY <1>1 DEF AppendBuild, FlushOrUndo, Flush
  <2>2. /\ DOMAIN memory' = DOMAIN memory /\ memory'[t] = v
        /\ \A x \in DOMAIN memory : x # t => memory'[x] = memory[x]
    BY <2>1
  <2>3. /\ v \in TemplateRecords
        /\ v.alias = memory[t].alias /\ v.image = memory[t].image
        /\ v.commands = memory[t].commands /\ v.builds[b] = "waiting"
        /\ \A y \in BuildIds \cup {SeedBuild} :
             y # b => v.builds[y] = memory[t].builds[y]
    <3>1. memory[t] \in TemplateRecords
      BY DEF StoreTypeOK
    <3>2. [memory[t].builds EXCEPT ![b] = "waiting"] \in
            [BuildIds \cup {SeedBuild} -> BuildStatus \cup {"unrecorded"}]
      BY <3>1 DEF TemplateRecords, BuildStatus
    <3>3. v = [memory[t] EXCEPT
                 !.builds = [memory[t].builds EXCEPT ![b] = "waiting"]]
      OBVIOUS
    <3>4. v \in TemplateRecords
      BY <3>1, <3>2, <3>3 DEF TemplateRecords
    <3> QED
      BY <3>1, <3>3, <3>4 DEF TemplateRecords
  <2> HIDE DEF v
  <2>4. \A x \in DOMAIN memory' : memory'[x] \in TemplateRecords
    BY <2>2, <2>3 DEF StoreTypeOK
  <2>5. StoreTypeOK'
    BY <2>1, <2>2, <2>4 DEF StoreTypeOK
  <2> QED
    BY <1>1, <2>1, <2>2, <2>3, <2>5
<1>2. CASE ~ok
  <2>1. StoreUnchanged
    BY <1>2 DEF AppendBuild, FlushOrUndo, Flush, StoreUnchanged, StoreTypeOK
  <2> QED
    BY <1>2, <2>1 DEF StoreTypeOK, StoreUnchanged
<1> QED
  BY <1>1, <1>2

LEMMA MetaOp ==
  ASSUME StoreTypeOK, NEW t \in DOMAIN memory,
         NEW image \in {"none", "builtin", "user"},
         NEW commands \in [Commands -> BuildIds \cup {SeedBuild, NoBuild}],
         NEW ok \in BOOLEAN, UpdateMeta(t, image, commands, ok)
  PROVE  /\ StoreTypeOK'
         /\ aliases' = aliases /\ minted' = minted
         /\ DOMAIN memory' = DOMAIN memory
         /\ memory'[t].alias = memory[t].alias
         /\ memory'[t].builds = memory[t].builds
         /\ memory'[t].image = image /\ memory'[t].commands = commands
         /\ \A x \in DOMAIN memory : x # t => memory'[x] = memory[x]
<1> DEFINE v == [memory[t] EXCEPT !.image = image, !.commands = commands]
<1>1. /\ memory' = [memory EXCEPT ![t].image = image, ![t].commands = commands]
      /\ disk' = IF ok THEN memory' ELSE disk
      /\ dirty' = ~ok /\ aliases' = aliases /\ minted' = minted
  BY DEF UpdateMeta, FlushOrKeep, Flush
<1>2. /\ DOMAIN memory' = DOMAIN memory /\ memory'[t] = v
      /\ \A x \in DOMAIN memory : x # t => memory'[x] = memory[x]
  BY <1>1
<1>3. /\ v \in TemplateRecords
      /\ v.alias = memory[t].alias /\ v.builds = memory[t].builds
      /\ v.image = image /\ v.commands = commands
  BY DEF StoreTypeOK, TemplateRecords
<1> HIDE DEF v
<1>4. \A x \in DOMAIN memory' : memory'[x] \in TemplateRecords
  BY <1>2, <1>3 DEF StoreTypeOK
<1>5. StoreTypeOK'
  BY <1>1, <1>2, <1>4 DEF StoreTypeOK
<1> QED
  BY <1>1, <1>2, <1>3, <1>5

LEMMA UpdateBuildOp ==
  ASSUME StoreTypeOK, NEW t \in TemplateIds, NEW b \in BuildIds,
         NEW status \in BuildStatus,
         \E ok \in BOOLEAN : UpdateBuild(t, b, status, ok)
  PROVE  /\ StoreTypeOK'
         /\ \/ /\ StoreUnchanged
               /\ t \in DOMAIN memory => ~Recorded(memory[t], b)
            \/ /\ t \in DOMAIN memory
               /\ aliases' = aliases /\ minted' = minted
               /\ \/ disk' = disk /\ dirty' = TRUE
                  \/ disk' = memory' /\ dirty' = FALSE
               /\ DOMAIN memory' = DOMAIN memory
               /\ memory'[t].alias = memory[t].alias
               /\ memory'[t].image = memory[t].image
               /\ memory'[t].commands = memory[t].commands
               /\ memory'[t].builds[b] = status
               /\ \A y \in BuildIds \cup {SeedBuild} :
                    y # b => memory'[t].builds[y] = memory[t].builds[y]
               /\ \A x \in DOMAIN memory : x # t => memory'[x] = memory[x]
<1>1. CASE ~(t \in DOMAIN memory /\ Recorded(memory[t], b))
  <2>1. StoreUnchanged
    BY <1>1 DEF UpdateBuild, storeVars, StoreUnchanged
  <2> QED
    BY <1>1, <2>1 DEF StoreTypeOK, StoreUnchanged
<1>2. CASE t \in DOMAIN memory /\ Recorded(memory[t], b)
  <2> DEFINE v == [memory[t] EXCEPT !.builds[b] = status]
  <2>1. /\ memory' = [memory EXCEPT ![t].builds[b] = status]
        /\ aliases' = aliases /\ minted' = minted
        /\ \/ disk' = disk /\ dirty' = TRUE
           \/ disk' = memory' /\ dirty' = FALSE
    BY <1>2 DEF UpdateBuild, FlushOrKeep, Flush
  <2>2. /\ DOMAIN memory' = DOMAIN memory /\ memory'[t] = v
        /\ \A x \in DOMAIN memory : x # t => memory'[x] = memory[x]
    BY <1>2, <2>1
  <2>3. /\ v \in TemplateRecords
        /\ v.alias = memory[t].alias /\ v.image = memory[t].image
        /\ v.commands = memory[t].commands /\ v.builds[b] = status
        /\ \A y \in BuildIds \cup {SeedBuild} :
             y # b => v.builds[y] = memory[t].builds[y]
    <3>1. memory[t] \in TemplateRecords
      BY <1>2 DEF StoreTypeOK
    <3>2. [memory[t].builds EXCEPT ![b] = status] \in
            [BuildIds \cup {SeedBuild} -> BuildStatus \cup {"unrecorded"}]
      BY <3>1 DEF TemplateRecords
    <3>3. v = [memory[t] EXCEPT !.builds = [memory[t].builds EXCEPT ![b] = status]]
      OBVIOUS
    <3>4. v \in TemplateRecords
      BY <3>1, <3>2, <3>3 DEF TemplateRecords
    <3> QED
      BY <3>1, <3>3, <3>4 DEF TemplateRecords
  <2> HIDE DEF v
  <2>4. \A x \in DOMAIN memory' : memory'[x] \in TemplateRecords
    BY <2>2, <2>3 DEF StoreTypeOK
  <2>5. StoreTypeOK'
    BY <2>1, <2>2, <2>4 DEF StoreTypeOK
  <2> QED
    BY <1>2, <2>1, <2>2, <2>3, <2>5
<1> QED
  BY <1>1, <1>2

LEMMA LoadOp ==
  ASSUME StoreTypeOK, NEW t \in TemplateIds, LoadAndSeed(t),
         t \in DOMAIN disk => \E x \in DOMAIN disk : disk[x].alias = BuiltinName
  PROVE  /\ StoreTypeOK'
         /\ memory' = Seeded(disk, t) /\ aliases' = AliasesOf(memory')
         /\ disk' = memory' /\ dirty' = FALSE
         /\ minted' = minted \cup DOMAIN memory'
<1>1. /\ memory' = Seeded(disk, t) /\ aliases' = AliasesOf(memory')
      /\ disk' = memory' /\ dirty' = FALSE
      /\ minted' = minted \cup DOMAIN memory'
  BY DEF LoadAndSeed
<1>3. /\ DOMAIN memory' \subseteq TemplateIds
      /\ \A x \in DOMAIN memory' : memory'[x] \in TemplateRecords
  BY <1>1, SeededFacts DEF StoreTypeOK
<1>4. /\ DOMAIN AliasesOf(memory') \subseteq Names
      /\ \A n \in DOMAIN AliasesOf(memory') : AliasesOf(memory')[n] \in TemplateIds
  <2>1. \A x \in DOMAIN memory' : memory'[x].alias \in Names
    BY <1>3 DEF TemplateRecords
  <2> QED
    BY <1>3, <2>1, AliasesOfFacts
<1>5. StoreTypeOK'
  BY <1>1, <1>3, <1>4 DEF StoreTypeOK
<1> QED
  BY <1>1, <1>5

-----------------------------------------------------------------------------
(* What the steps of a goroutine do to the record of its build.             *)

LEMMA AppendedType ==
  ASSUME NEW log \in Logs
  PROVE  WithLine(log) \in Logs
<1>1. /\ log.entries \in Seq(Nat) /\ log.written \in Nat
      /\ log.head \in 0..(LogCapacity - 1) /\ Len(log.entries) <= LogCapacity
  BY DEF Logs
<1>2. (log.head + 1) % LogCapacity \in 0..(LogCapacity - 1)
  BY <1>1, LogCapacityAssumption
<1>3. CASE IsFull(log)
  <2>1. /\ [log.entries EXCEPT ![log.head + 1] = log.written] \in Seq(Nat)
        /\ Len([log.entries EXCEPT ![log.head + 1] = log.written]) <= LogCapacity
    <3> DEFINE e == [log.entries EXCEPT ![log.head + 1] = log.written]
    <3>1. e \in Seq(Nat) /\ Len(e) = Len(log.entries)
      BY <1>1, <1>3, LogCapacityAssumption DEF IsFull
    <3> QED
      BY <1>1, <3>1
  <2>2. WithLine(log) = [entries |-> [log.entries EXCEPT ![log.head + 1] = log.written],
                         head    |-> (log.head + 1) % LogCapacity,
                         written |-> log.written + 1]
    BY <1>3 DEF WithLine, Appended
  <2>3. log.written + 1 \in Nat
    BY <1>1
  <2> QED
    BY <1>2, <2>1, <2>2, <2>3 DEF Logs
<1>4. CASE ~IsFull(log)
  <2>1. /\ Append(log.entries, log.written) \in Seq(Nat)
        /\ Len(Append(log.entries, log.written)) <= LogCapacity
    BY <1>1, <1>4, LogCapacityAssumption DEF IsFull
  <2> QED
    BY <1>1, <1>4, <2>1 DEF Logs, WithLine, Appended
<1> QED
  BY <1>3, <1>4

(* The build b goes from its step to another, with this status and log.     *)
BuildGoes(b, step, status, log) ==
  /\ b \in DOMAIN builds /\ DOMAIN builds' = DOMAIN builds
  /\ builds'[b].step = step /\ builds'[b].status = status
  /\ builds'[b].log = log
  /\ builds'[b].template = builds[b].template
  /\ \A x \in DOMAIN builds : x # b => builds'[x] = builds[x]

LEMMA BuildChange ==
  ASSUME BuildTypeOK, NEW b \in DOMAIN builds,
         NEW step \in RunSteps, NEW status \in BuildStatus, NEW log \in Logs,
         DOMAIN builds' = DOMAIN builds,
         NEW parent \in {builds[b].parent, NoTemplate},
         builds'[b] = [builds[b] EXCEPT !.step = step, !.status = status,
                                        !.log = log, !.parent = parent],
         \A x \in DOMAIN builds : x # b => builds'[x] = builds[x]
  PROVE  /\ DOMAIN builds' \subseteq BuildIds
         /\ \A x \in DOMAIN builds' : builds'[x] \in BuildRecords
         /\ BuildGoes(b, step, status, log)
<1> DEFINE r == [builds[b] EXCEPT !.step = step, !.status = status, !.log = log,
                                  !.parent = parent]
<1>1. /\ r \in BuildRecords /\ r.step = step /\ r.status = status /\ r.log = log
      /\ r.template = builds[b].template
  BY DEF BuildTypeOK, BuildRecords
<1>2. builds'[b] = r
  OBVIOUS
<1> HIDE DEF r
<1> QED
  BY <1>1, <1>2 DEF BuildGoes, BuildTypeOK

Tagged(b) == [images EXCEPT ![builds[b].template] = b]

(* The record of b takes this step, status and log; docker build tags the   *)
(* image when it succeeds, and may when it fails.                           *)
Steps(b, step, status, log) ==
  /\ DOMAIN builds' = DOMAIN builds
  /\ \E parent \in {builds[b].parent, NoTemplate} :
       builds'[b] = [builds[b] EXCEPT !.step = step, !.status = status,
                                      !.log = log, !.parent = parent]
  /\ \A x \in DOMAIN builds : x # b => builds'[x] = builds[x]
  /\ images' \in {images, Tagged(b)}
  /\ step = "succeeded" => images' = Tagged(b)

LEMMA ReturnsSteps ==
  ASSUME BuildTypeOK, NEW b, NEW at, NEW step, Returns(b, at, step),
         images' \in {images, Tagged(b)},
         step = "succeeded" => images' = Tagged(b)
  PROVE  /\ b \in DOMAIN builds /\ builds[b].step = at
         /\ Steps(b, step, builds[b].status, builds[b].log)
<1>1. /\ b \in DOMAIN builds /\ builds[b].step = at
      /\ builds' = [builds EXCEPT ![b].step = step, ![b].parent = NoTemplate]
  BY DEF Returns
<1>2. builds'[b] = [builds[b] EXCEPT !.step = step, !.status = builds[b].status,
                                     !.log = builds[b].log, !.parent = NoTemplate]
  BY <1>1 DEF BuildTypeOK, BuildRecords
<1> QED
  BY <1>1, <1>2 DEF Steps

LEMMA AdvanceWithLineSteps ==
  ASSUME BuildTypeOK, NEW b, NEW at, NEW step, step # "succeeded",
         AdvanceWithLine(b, at, step), images' = images
  PROVE  /\ b \in DOMAIN builds /\ builds[b].step = at
         /\ Steps(b, step, builds[b].status, WithLine(builds[b].log))
<1>1. /\ b \in DOMAIN builds /\ builds[b].step = at
      /\ builds' = [builds EXCEPT ![b].step = step, ![b].log = WithLine(@)]
  BY DEF AdvanceWithLine
<1>2. builds'[b] = [builds[b] EXCEPT !.step = step, !.status = builds[b].status,
                                     !.log = WithLine(builds[b].log),
                                     !.parent = builds[b].parent]
  BY <1>1 DEF BuildTypeOK, BuildRecords
<1> QED
  BY <1>1, <1>2 DEF Steps

LEMMA StepsType ==
  ASSUME BuildTypeOK, NEW b \in DOMAIN builds, NEW step \in RunSteps,
         NEW status \in BuildStatus,
         NEW log \in {builds[b].log, WithLine(builds[b].log)},
         Steps(b, step, status, log)
  PROVE  BuildTypeOK' /\ BuildGoes(b, step, status, log)
<1>1. /\ builds[b].log \in Logs /\ builds[b].template \in TemplateIds
      /\ b \in BuildIds
  BY DEF BuildTypeOK, BuildRecords
<1>2. log \in Logs
  BY <1>1, AppendedType
<1>3. images' \in [TemplateIds -> BuildIds \cup {NoBuild}]
  BY <1>1 DEF Steps, Tagged, BuildTypeOK
<1>4. /\ DOMAIN builds' \subseteq BuildIds
      /\ \A x \in DOMAIN builds' : builds'[x] \in BuildRecords
      /\ BuildGoes(b, step, status, log)
  <2>1. PICK parent \in {builds[b].parent, NoTemplate} :
          builds'[b] = [builds[b] EXCEPT !.step = step, !.status = status,
                                         !.log = log, !.parent = parent]
    BY DEF Steps
  <2>2. /\ DOMAIN builds' = DOMAIN builds
        /\ \A x \in DOMAIN builds : x # b => builds'[x] = builds[x]
    BY DEF Steps
  <2> QED
    BY <1>2, <2>1, <2>2, BuildChange
<1> QED
  BY <1>3, <1>4 DEF BuildTypeOK

(* A goroutine before its last step: it does not publish the outcome, and   *)
(* the step that succeeds tags the image.                                   *)
LEMMA RunStepOp ==
  ASSUME BuildTypeOK, NEW b \in BuildIds, RunStep(b)
  PROVE  /\ b \in DOMAIN builds
         /\ builds[b].step \in RunSteps \ {"succeeded", "failed", "done"}
         /\ \E step \in RunSteps \ {"done"},
               status \in {builds[b].status, "building"},
               log \in {builds[b].log, WithLine(builds[b].log)} :
              Steps(b, step, status, log)
<1>1. CASE BuildStarts(b)
  <2>1. /\ b \in DOMAIN builds /\ builds[b].step = "spawned" /\ images' = images
        /\ builds' = [builds EXCEPT ![b].step = "announce", ![b].status = "building"]
    BY <1>1 DEF BuildStarts
  <2>2. builds'[b] = [builds[b] EXCEPT !.step = "announce", !.status = "building",
                                       !.log = builds[b].log,
                                       !.parent = builds[b].parent]
    BY <2>1 DEF BuildTypeOK, BuildRecords
  <2>3. Steps(b, "announce", "building", builds[b].log)
    BY <2>1, <2>2 DEF Steps
  <2> QED
    BY <2>1, <2>3 DEF RunSteps
<1>2. CASE BuildAnnounced(b)
  BY <1>2, AdvanceWithLineSteps DEF BuildAnnounced, RunSteps
<1>3. CASE BuildPrepared(b)
  <2>1. CASE AdvanceWithLine(b, "prepare", "docker")
    BY <1>3, <2>1, AdvanceWithLineSteps DEF BuildPrepared, RunSteps
  <2>2. CASE Returns(b, "prepare", "failed")
    BY <1>3, <2>2, ReturnsSteps DEF BuildPrepared, RunSteps
  <2> QED
    BY <1>3, <2>1, <2>2 DEF BuildPrepared
<1>4. CASE DockerLine(b)
  BY <1>4, AdvanceWithLineSteps DEF DockerLine, RunSteps
<1>5. CASE DockerSucceeds(b)
  <2>1. Returns(b, "docker", "succeeded") /\ images' = Tagged(b)
    BY <1>5 DEF DockerSucceeds, Tags, Tagged
  <2>2. /\ b \in DOMAIN builds /\ builds[b].step = "docker"
        /\ Steps(b, "succeeded", builds[b].status, builds[b].log)
    BY <2>1, ReturnsSteps
  <2> QED
    BY <2>2 DEF RunSteps
<1>6. CASE DockerFails(b)
  <2>1. Returns(b, "docker", "failed") /\ images' \in {images, Tagged(b)}
    BY <1>6 DEF DockerFails, Tags, Tagged
  <2>2. /\ b \in DOMAIN builds /\ builds[b].step = "docker"
        /\ Steps(b, "failed", builds[b].status, builds[b].log)
    BY <2>1, ReturnsSteps
  <2> QED
    BY <2>2 DEF RunSteps
<1> QED
  BY <1>1, <1>2, <1>3, <1>4, <1>5, <1>6 DEF RunStep

(* Its last step publishes the outcome.                                     *)
LEMMA CompletedOp ==
  ASSUME BuildTypeOK, NEW b, NEW at, NEW status \in BuildStatus,
         Completed(b, at, status)
  PROVE  /\ b \in DOMAIN builds /\ builds[b].step = at
         /\ BuildTypeOK' /\ images' = images
         /\ BuildGoes(b, "done", status, WithLine(builds[b].log))
<1>1. /\ b \in DOMAIN builds /\ builds[b].step = at /\ images' = images
      /\ builds' = [builds EXCEPT ![b].step = "done", ![b].status = status,
                                  ![b].log = WithLine(@)]
  BY DEF Completed
<1>2. builds'[b] = [builds[b] EXCEPT !.step = "done", !.status = status,
                                     !.log = WithLine(builds[b].log),
                                     !.parent = builds[b].parent]
  BY <1>1 DEF BuildTypeOK, BuildRecords
<1>3. Steps(b, "done", status, WithLine(builds[b].log))
  BY <1>1, <1>2 DEF Steps
<1> QED
  BY <1>1, <1>3, StepsType DEF RunSteps

LEMMA EnqueuedOp ==
  ASSUME BuildTypeOK, NEW b \in BuildIds, NEW t \in TemplateIds,
         NEW parent \in TemplateIds \cup {NoTemplate}, Enqueued(b, t, parent)
  PROVE  /\ BuildTypeOK' /\ images' = images
         /\ b \notin DOMAIN builds /\ DOMAIN builds' = DOMAIN builds \cup {b}
         /\ builds'[b].template = t /\ builds'[b].step = "spawned"
         /\ builds'[b].status = "waiting" /\ builds'[b].log = EmptyLog
         /\ \A x \in DOMAIN builds : x # b /\ builds'[x] = builds[x]
<1> DEFINE r == [template |-> t, parent |-> parent, status |-> "waiting",
                 step |-> "spawned", log |-> EmptyLog]
<1>1. b \notin DOMAIN builds /\ builds' = With(builds, b, r) /\ images' = images
  BY DEF Enqueued
<1>2. EmptyLog \in Logs
  BY LogCapacityAssumption DEF EmptyLog, Logs
<1>3. /\ r \in BuildRecords /\ r.template = t /\ r.step = "spawned"
      /\ r.status = "waiting" /\ r.log = EmptyLog
  BY <1>2 DEF BuildRecords, BuildStatus, RunSteps
<1> HIDE DEF r
<1>4. /\ DOMAIN builds' = DOMAIN builds \cup {b} /\ builds'[b] = r
      /\ \A x \in DOMAIN builds : x # b /\ builds'[x] = builds[x]
  BY <1>1 DEF With
<1>5. \A x \in DOMAIN builds' : builds'[x] \in BuildRecords
  BY <1>3, <1>4 DEF BuildTypeOK
<1> QED
  BY <1>1, <1>3, <1>4, <1>5 DEF BuildTypeOK

-----------------------------------------------------------------------------
(* Requests.                                                                *)

LEMMA RequestParts ==
  ASSUME NEW r \in Requests
  PROVE  /\ r.at = "resolve" => r.name \in Names
         /\ r.at = "append" => r.template \in TemplateIds
         /\ r.at \in {"updateMeta", "enqueue"} =>
              /\ r.template \in TemplateIds /\ r.build \in BuildIds
              /\ r.parent \in TemplateIds \cup {NoTemplate}
BY DEF Requests, NoRequest

LEMMA RequestKinds ==
  /\ NoRequest \in Requests /\ NoRequest.at = "idle"
  /\ \A n \in Names : /\ [at |-> "resolve", name |-> n] \in Requests
                      /\ [at |-> "resolve", name |-> n].at = "resolve"
  /\ \A t \in TemplateIds : /\ [at |-> "append", template |-> t] \in Requests
                            /\ [at |-> "append", template |-> t].at = "append"
BY DEF Requests, NoRequest

LEMMA StartRequest ==
  ASSUME NEW t \in TemplateIds, NEW b \in BuildIds,
         NEW parent \in TemplateIds \cup {NoTemplate}
  PROVE  LET r == [at |-> "updateMeta", template |-> t, build |-> b,
                   parent |-> parent]
         IN  r \in Requests /\ r.at = "updateMeta" /\ r.build = b
BY DEF Requests

LEMMA EnqueueRequest ==
  ASSUME NEW r \in Requests, r.at = "updateMeta"
  PROVE  LET v == [r EXCEPT !.at = "enqueue"]
         IN  /\ v \in Requests /\ v.at = "enqueue"
             /\ v.template = r.template /\ v.build = r.build
BY DEF Requests, NoRequest

LEMMA GoesFacts ==
  ASSUME NEW c \in Callers, NEW r \in Requests,
         request \in [Callers -> Requests], Goes(c, r)
  PROVE  /\ request' \in [Callers -> Requests]
         /\ request'[c] = r
         /\ \A d \in Callers : d # c => request'[d] = request[d]
BY DEF Goes

-----------------------------------------------------------------------------
(* What the steps below keep: builds only go on, requests do not get to the *)
(* point of enqueueing, and what was brought stays or counts no more.       *)
BuildsGoOn ==
  /\ DOMAIN builds' \subseteq DOMAIN builds
  /\ \A b \in DOMAIN builds' :
       /\ builds'[b].template = builds[b].template
       /\ builds'[b].step = builds[b].step \/ builds'[b].step = "done"
  /\ \A c \in Callers : request'[c].at = "enqueue" => request'[c] = request[c]

BroughtStays ==
  \A t \in TemplateIds, k \in Commands :
    brought'[t][k] \in BuildIds => brought'[t][k] = brought[t][k]

LEMMA LoneFrame ==
  ASSUME LoneStarts, BuildsGoOn, BroughtStays, images' = images,
         minted \subseteq minted'
  PROVE  LoneStarts'
<1> SUFFICES ASSUME NEW t \in TemplateIds, NEW k \in Commands,
                    brought'[t][k] \in BuildIds
             PROVE  /\ t \in minted'
                    /\ \A c \in Callers :
                         request'[c].at = "enqueue" /\ request'[c].template = t =>
                           request'[c].build = brought'[t][k]
                    /\ \A b \in DOMAIN builds' :
                         builds'[b].template = t /\ builds'[b].step # "done" =>
                           /\ b = brought'[t][k]
                           /\ builds'[b].step = "succeeded" => images'[t] = b
  BY DEF LoneStarts
<1>1. brought'[t][k] = brought[t][k]
  BY DEF BroughtStays
<1> QED
  BY <1>1 DEF LoneStarts, BuildsGoOn

LEMMA TaggedFrame ==
  ASSUME TaggedBefore, BuildsGoOn, minted \subseteq minted',
         \A t \in minted \cap DOMAIN memory' :
           /\ t \in DOMAIN memory
           /\ memory[t].image = "user" => memory'[t].image = "user"
  PROVE  TaggedBefore'
BY DEF TaggedBefore, BuildsGoOn

LEMMA SoundFrame ==
  ASSUME NEW t \in TemplateIds, NEW r, SoundRecord(t, r), BroughtStays,
         images' = images, crashes > 0 => crashes' > 0
  PROVE  SoundRecord(t, r)'
BY DEF SoundRecord, BroughtStays

LEMMA DiskSoundFrame ==
  ASSUME DiskSound, DOMAIN disk \subseteq TemplateIds, disk' = disk, BroughtStays,
         images' = images, crashes > 0 => crashes' > 0
  PROVE  DiskSound'
<1> SUFFICES ASSUME NEW t \in DOMAIN disk
             PROVE  SoundRecord(t, disk[t])'
  BY DEF DiskSound
<1>1. PICK r : r = disk[t]
  OBVIOUS
<1>2. SoundRecord(t, r)'
  BY <1>1, SoundFrame DEF DiskSound
<1> QED
  BY <1>1, <1>2 DEF SoundRecord

LEMMA MemorySoundFrame ==
  ASSUME MemorySound, DOMAIN memory \subseteq TemplateIds, memory' = memory,
         BroughtStays, images' = images, crashes > 0 => crashes' > 0
  PROVE  MemorySound'
<1> SUFFICES ASSUME NEW t \in DOMAIN memory
             PROVE  SoundRecord(t, memory[t])'
  BY DEF MemorySound
<1>1. PICK r : r = memory[t]
  OBVIOUS
<1>2. SoundRecord(t, r)'
  BY <1>1, SoundFrame DEF MemorySound
<1> QED
  BY <1>1, <1>2 DEF SoundRecord

(* A flush that succeeds makes the file as good as memory.                  *)
LEMMA Flushed ==
  ASSUME up', disk' = memory', MemoryInv'
  PROVE  DiskInv' /\ FailedWritesLeaveNoTrace'
<1>1. DiskNamesDistinct'
  BY DEF MemoryInv, AliasesAgree, DiskNamesDistinct
<1>2. AcknowledgedIsDurable'
  BY DEF MemoryInv, AcknowledgedInMemory, AcknowledgedIsDurable
<1>3. DiskSound'
  BY DEF MemoryInv, MemorySound, DiskSound, SoundRecord
<1> QED
  BY <1>1, <1>2, <1>3 DEF DiskInv, FailedWritesLeaveNoTrace

(* Steps that only move a request on; a client may make up a build id.      *)
LEMMA RequestMoves ==
  ASSUME TemplatesInv, NEW c \in Callers, NEW r \in Requests, Goes(c, r),
         up \/ r = NoRequest,
         r.at # "enqueue", r.at = "updateMeta" => r.build \in minted',
         minted \subseteq minted', minted' \subseteq minted \cup BuildIds,
         memory' = memory, aliases' = aliases, disk' = disk,
         dirty' = dirty, builds' = builds, images' = images, up' = up,
         crashes' = crashes, issued' = issued, deleted' = deleted,
         BroughtStays,
         brought' \in [TemplateIds -> [Commands -> BuildIds \cup {NoBuild}]]
  PROVE  TemplatesInv'
<1>1. /\ request' \in [Callers -> Requests] /\ request'[c] = r
      /\ \A d \in Callers : d # c => request'[d] = request[d]
  BY GoesFacts DEF TemplatesInv, CoreTypeOK
<1>2. CoreTypeOK'
  BY <1>1 DEF TemplatesInv, CoreTypeOK, StoreTypeOK, BuildTypeOK
<1>3. OnlyMinted'
  BY <1>1 DEF TemplatesInv, OnlyMinted
<1>4. NothingWhileDown'
  BY <1>1 DEF TemplatesInv, NothingWhileDown
<1>5. StepsFitStatus' /\ FailedWritesLeaveNoTrace'
  BY DEF TemplatesInv, StepsFitStatus, FailedWritesLeaveNoTrace
<1>6. BuildsGoOn
  BY <1>1 DEF BuildsGoOn
<1>7. LoneStarts' /\ TaggedBefore'
  BY <1>6, LoneFrame, TaggedFrame DEF TemplatesInv
<1>8. MemorySound' /\ DiskSound'
  BY MemorySoundFrame, DiskSoundFrame
  DEF TemplatesInv, MemoryInv, DiskInv, CoreTypeOK, StoreTypeOK
<1>9. MemoryInv'
  BY <1>8 DEF TemplatesInv, MemoryInv, AliasesAgree, AcknowledgedInMemory,
              TerminalIsPersisted
<1>10. DiskInv'
  BY <1>8 DEF TemplatesInv, DiskInv, DiskNamesDistinct, AcknowledgedIsDurable
<1> QED
  BY <1>2, <1>3, <1>4, <1>5, <1>7, <1>9, <1>10 DEF TemplatesInv

(* Steps of readers, and stuttering.                                        *)
LEMMA NothingMoves ==
  ASSUME TemplatesInv, UNCHANGED <<storeVars, buildVars, processVars, request,
                                   historyVars>>
  PROVE  TemplatesInv'
<1> USE DEF storeVars, buildVars, processVars, historyVars
<1>1. CoreTypeOK' /\ OnlyMinted'
  BY DEF TemplatesInv, CoreTypeOK, StoreTypeOK, BuildTypeOK, OnlyMinted
<1>2. NothingWhileDown' /\ StepsFitStatus' /\ FailedWritesLeaveNoTrace'
  BY DEF TemplatesInv, NothingWhileDown, StepsFitStatus, FailedWritesLeaveNoTrace
<1>3. LoneStarts' /\ TaggedBefore'
  BY DEF TemplatesInv, LoneStarts, TaggedBefore
<1>4. MemoryInv'
  BY DEF TemplatesInv, MemoryInv, AliasesAgree, AcknowledgedInMemory,
         TerminalIsPersisted, MemorySound, SoundRecord
<1>5. DiskInv'
  BY DEF TemplatesInv, DiskInv, DiskNamesDistinct, AcknowledgedIsDurable,
         DiskSound, SoundRecord
<1> QED
  BY <1>1, <1>2, <1>3, <1>4, <1>5 DEF TemplatesInv

-----------------------------------------------------------------------------
LEMMA CreateTemplateInv ==
  ASSUME TemplatesInv, NEW c \in Callers, CreateTemplate(c)
  PROVE  TemplatesInv'
<1> USE DEF buildVars, processVars, historyVars
<1>1. /\ up /\ UNCHANGED <<builds, images, up, crashes, issued, deleted, brought>>
  BY DEF CreateTemplate
<1>2. ASSUME NEW n \in Names, Goes(c, [at |-> "resolve", name |-> n]),
             UNCHANGED storeVars
      PROVE  TemplatesInv'
  BY <1>1, <1>2, RequestMoves, RequestKinds
  DEF storeVars, BroughtStays, TemplatesInv, CoreTypeOK
<1>3. ASSUME NEW n \in Names, NEW t \in TemplateIds \ minted,
             Create(t, n, TRUE), Goes(c, [at |-> "append", template |-> t])
      PROVE  TemplatesInv'
  <2>1. /\ StoreTypeOK /\ DOMAIN memory \subseteq minted
        /\ request \in [Callers -> Requests]
    BY DEF TemplatesInv, CoreTypeOK, OnlyMinted
  <2>2. /\ StoreTypeOK' /\ n \notin DOMAIN aliases
        /\ disk' = memory' /\ dirty' = FALSE
        /\ minted' = minted \cup {t}
        /\ DOMAIN memory' = DOMAIN memory \cup {t}
        /\ memory'[t] = NewTemplate(n)
        /\ \A x \in DOMAIN memory : x # t /\ memory'[x] = memory[x]
        /\ DOMAIN aliases' = DOMAIN aliases \cup {n}
        /\ aliases'[n] = t
        /\ \A m \in DOMAIN aliases : m # n /\ aliases'[m] = aliases[m]
    BY <1>3, <2>1, CreateOp
  <2> DEFINE r == [at |-> "append", template |-> t]
  <2>3. r \in Requests /\ r.at = "append"
    BY RequestKinds
  <2> HIDE DEF r
  <2>4. /\ request' \in [Callers -> Requests] /\ request'[c] = r
        /\ \A d \in Callers : d # c => request'[d] = request[d]
    BY <1>3, <2>1, <2>3, GoesFacts DEF r
  <2>5. /\ NewTemplate(n).alias = n /\ NewTemplate(n).image = "none"
        /\ NewTemplate(n).commands = Of(NoBuild)
        /\ \A b \in BuildIds : ~Recorded(NewTemplate(n), b)
                               /\ NewTemplate(n).builds[b] = "unrecorded"
                               /\ ~IsReady(NewTemplate(n), b)
    BY NewTemplateType DEF NoBuilds, Recorded, IsReady
  <2>6. CoreTypeOK'
    BY <1>1, <2>2, <2>4 DEF TemplatesInv, CoreTypeOK, BuildTypeOK
  <2>7. OnlyMinted'
    BY <1>1, <2>2, <2>3, <2>4 DEF TemplatesInv, OnlyMinted
  <2>8. NothingWhileDown' /\ StepsFitStatus'
    BY <1>1 DEF TemplatesInv, NothingWhileDown, StepsFitStatus
  <2>9. AliasesAgree'
    BY <1>1, <2>2, <2>5 DEF TemplatesInv, MemoryInv, AliasesAgree
  <2>10. AcknowledgedInMemory'
    BY <1>1, <2>2 DEF TemplatesInv, MemoryInv, AcknowledgedInMemory
  <2>11. TerminalIsPersisted'
    BY <1>1, <2>2, <2>5
    DEF TemplatesInv, CoreTypeOK, BuildTypeOK, MemoryInv, TerminalIsPersisted
  <2>12. BuildsGoOn /\ BroughtStays
    BY <1>1, <2>3, <2>4 DEF BuildsGoOn, BroughtStays
  <2>15. LoneStarts' /\ TaggedBefore'
    BY <1>1, <2>2, <2>12, LoneFrame, TaggedFrame DEF TemplatesInv
  <2>16. MemorySound'
    <3> SUFFICES ASSUME NEW x \in DOMAIN memory'
                 PROVE  SoundRecord(x, memory[x])'
      BY DEF MemorySound
    <3>1. CASE x = t
      <4>1. \A k \in Commands : brought[t][k] \notin BuildIds
        BY DEF TemplatesInv, LoneStarts
      <4> QED
        BY <1>1, <2>2, <2>5, <3>1, <4>1 DEF SoundRecord
    <3>2. CASE x \in DOMAIN memory
      <4>1. SoundRecord(x, memory[x]) /\ memory'[x] = memory[x]
        BY <2>2, <3>2 DEF TemplatesInv, MemoryInv, MemorySound
      <4> QED
        BY <1>1, <4>1 DEF SoundRecord
    <3> QED
      BY <2>2, <3>1, <3>2
  <2>13. MemoryInv'
    BY <2>9, <2>10, <2>11, <2>16 DEF MemoryInv
  <2>14. DiskInv' /\ FailedWritesLeaveNoTrace'
    BY <1>1, <2>2, <2>13, Flushed
  <2> QED
    BY <2>6, <2>7, <2>8, <2>13, <2>14, <2>15 DEF TemplatesInv
<1>4. ASSUME NEW n \in Names, NEW t \in TemplateIds \ minted,
             Create(t, n, FALSE), Goes(c, NoRequest)
      PROVE  TemplatesInv'
  <2>1. StoreUnchanged
    BY <1>4, CreateOp DEF TemplatesInv, CoreTypeOK, OnlyMinted
  <2> QED
    BY <1>1, <1>4, <2>1, RequestMoves, RequestKinds
    DEF StoreUnchanged, BroughtStays, TemplatesInv, CoreTypeOK
<1>5. \E n \in Names :
        \/ Goes(c, [at |-> "resolve", name |-> n]) /\ UNCHANGED storeVars
        \/ \E t \in TemplateIds \ minted, ok \in BOOLEAN :
             /\ Create(t, n, ok)
             /\ Goes(c, IF ok THEN [at |-> "append", template |-> t]
                              ELSE NoRequest)
  BY DEF CreateTemplate
<1> QED
  BY <1>2, <1>3, <1>4, <1>5

LEMMA ResolveExistingInv ==
  ASSUME TemplatesInv, NEW c \in Callers, ResolveExisting(c)
  PROVE  TemplatesInv'
<1> USE DEF storeVars, buildVars, processVars, historyVars
<1>1. /\ request[c].at = "resolve"
      /\ UNCHANGED <<memory, aliases, disk, minted, dirty, builds, images, up,
                     crashes, issued, deleted, brought>>
  BY DEF ResolveExisting
<1>2. up
  BY <1>1, RequestKinds DEF TemplatesInv, NothingWhileDown
<1>5. /\ BroughtStays
      /\ brought' \in [TemplateIds -> [Commands -> BuildIds \cup {NoBuild}]]
  BY <1>1 DEF BroughtStays, TemplatesInv, CoreTypeOK
<1> DEFINE n == request[c].name
<1>3. CASE n \in DOMAIN aliases
  <2>1. aliases[n] \in TemplateIds
    BY <1>3 DEF TemplatesInv, CoreTypeOK, StoreTypeOK
  <2>2. Goes(c, [at |-> "append", template |-> aliases[n]])
    BY <1>3 DEF ResolveExisting
  <2> QED
    BY <1>1, <1>2, <1>5, <2>1, <2>2, RequestMoves, RequestKinds
<1>4. CASE n \notin DOMAIN aliases
  <2>1. Goes(c, NoRequest)
    BY <1>4 DEF ResolveExisting
  <2> QED
    BY <1>1, <1>2, <1>5, <2>1, RequestMoves, RequestKinds
<1> QED
  BY <1>3, <1>4

LEMMA RecordBuildInv ==
  ASSUME TemplatesInv, NEW c \in Callers, RecordBuild(c)
  PROVE  TemplatesInv'
<1> USE DEF buildVars, processVars
<1> DEFINE t == request[c].template
<1>1. /\ request[c].at = "append" /\ Goes(c, NoRequest)
      /\ UNCHANGED <<builds, images, up, crashes, deleted, brought>>
  BY DEF RecordBuild
<1>2. /\ up /\ t \in TemplateIds
      /\ StoreTypeOK /\ request \in [Callers -> Requests]
  BY <1>1, RequestKinds, RequestParts
  DEF TemplatesInv, NothingWhileDown, CoreTypeOK
<1>7. /\ BroughtStays
      /\ brought' \in [TemplateIds -> [Commands -> BuildIds \cup {NoBuild}]]
  BY <1>1 DEF BroughtStays, TemplatesInv, CoreTypeOK
<1>3. CASE UNCHANGED <<storeVars, issued>>
  BY <1>1, <1>2, <1>3, <1>7, RequestMoves, RequestKinds DEF storeVars
<1>4. ASSUME t \in DOMAIN memory, NEW b \in BuildIds \ minted,
             AppendBuild(t, b, FALSE), issued' = issued
      PROVE  TemplatesInv'
  <2>1. StoreUnchanged
    BY <1>2, <1>4, AppendOp
  <2> QED
    BY <1>1, <1>2, <1>4, <1>7, <2>1, RequestMoves, RequestKinds DEF StoreUnchanged
<1>5. ASSUME t \in DOMAIN memory, NEW b \in BuildIds \ minted,
             AppendBuild(t, b, TRUE), issued' = issued \cup {<<t, b>>}
      PROVE  TemplatesInv'
  <2>1. /\ StoreTypeOK' /\ disk' = memory' /\ dirty' = FALSE
        /\ aliases' = aliases /\ minted' = minted \cup {b}
        /\ DOMAIN memory' = DOMAIN memory
        /\ memory'[t].alias = memory[t].alias
        /\ memory'[t].image = memory[t].image
        /\ memory'[t].commands = memory[t].commands
        /\ memory'[t].builds[b] = "waiting"
        /\ \A y \in BuildIds \cup {SeedBuild} :
             y # b => memory'[t].builds[y] = memory[t].builds[y]
        /\ \A x \in DOMAIN memory : x # t => memory'[x] = memory[x]
    BY <1>2, <1>5, AppendOp
  <2> HIDE DEF t
  <2>2. /\ request' \in [Callers -> Requests] /\ request'[c] = NoRequest
        /\ \A d \in Callers : d # c => request'[d] = request[d]
    BY <1>1, <1>2, RequestKinds, GoesFacts
  <2>3. CoreTypeOK'
    BY <1>1, <1>2, <1>5, <2>1, <2>2 DEF TemplatesInv, CoreTypeOK, BuildTypeOK
  <2>4. OnlyMinted'
    BY <1>1, <1>5, <2>1, <2>2, RequestKinds DEF TemplatesInv, OnlyMinted
  <2>5. NothingWhileDown' /\ StepsFitStatus'
    BY <1>1, <1>2 DEF TemplatesInv, NothingWhileDown, StepsFitStatus
  <2>6. AliasesAgree'
    BY <1>1, <1>2, <2>1 DEF TemplatesInv, MemoryInv, AliasesAgree
  <2>7. \A y \in BuildIds \cup {SeedBuild} :
          /\ Recorded(memory[t], y) => Recorded(memory'[t], y)
          /\ IsReady(memory'[t], y) => IsReady(memory[t], y)
    BY <2>1 DEF Recorded, IsReady
  <2>8. Recorded(memory'[t], b)
    BY <2>1 DEF Recorded
  <2>9. AcknowledgedInMemory'
    <3> SUFFICES ASSUME NEW pair \in issued' \ (deleted' \X BuildIds)
                 PROVE  pair[1] \in DOMAIN memory' /\ Recorded(memory'[pair[1]], pair[2])
      BY DEF AcknowledgedInMemory
    <3>1. CASE pair = <<t, b>>
      BY <1>5, <2>1, <2>8, <3>1
    <3>2. CASE pair \in issued \ (deleted \X BuildIds)
      <4>1. /\ pair[1] \in DOMAIN memory /\ Recorded(memory[pair[1]], pair[2])
            /\ pair[2] \in BuildIds
        BY <1>2, <3>2
        DEF TemplatesInv, MemoryInv, AcknowledgedInMemory, CoreTypeOK
      <4> QED
        BY <2>1, <2>7, <4>1
    <3> QED
      BY <1>1, <1>5, <3>1, <3>2
  <2>10. TerminalIsPersisted'
    <3> SUFFICES ASSUME NEW y \in DOMAIN builds, IsTerminal(builds[y].status),
                        builds[y].template \in DOMAIN memory
                 PROVE  memory'[builds[y].template].builds[y]
                          \in {"unrecorded", builds[y].status}
      BY <1>1, <2>1 DEF TerminalIsPersisted
    <3>1. memory[builds[y].template].builds[y] \in {"unrecorded", builds[y].status}
      BY DEF TemplatesInv, MemoryInv, TerminalIsPersisted
    <3>2. y # b /\ y \in BuildIds
      BY <1>5 DEF TemplatesInv, OnlyMinted, CoreTypeOK, BuildTypeOK
    <3> QED
      BY <2>1, <3>1, <3>2
  <2>14. BuildsGoOn
    BY <1>1, <2>2, RequestKinds DEF BuildsGoOn
  <2>15. LoneStarts' /\ TaggedBefore'
    <3>1. \A x \in DOMAIN memory' : x \in DOMAIN memory /\ memory'[x].image = memory[x].image
      BY <2>1
    <3> QED
      BY <1>1, <1>7, <2>1, <2>14, <3>1, LoneFrame, TaggedFrame DEF TemplatesInv
  <2>11. MemorySound'
    <3> SUFFICES ASSUME NEW x \in DOMAIN memory
                 PROVE  SoundRecord(x, memory[x])'
      BY <2>1 DEF MemorySound
    <3>1. SoundRecord(x, memory[x])
      BY DEF TemplatesInv, MemoryInv, MemorySound
    <3>3. CASE x = t
      BY <1>1, <2>1, <2>7, <3>1, <3>3 DEF SoundRecord
    <3>4. CASE x # t
      <4>1. memory'[x] = memory[x]
        BY <2>1, <3>4
      <4> QED
        BY <1>1, <3>1, <4>1 DEF SoundRecord
    <3> QED
      BY <3>3, <3>4
  <2>12. MemoryInv'
    BY <2>6, <2>9, <2>10, <2>11 DEF MemoryInv
  <2>13. DiskInv' /\ FailedWritesLeaveNoTrace'
    BY <1>1, <1>2, <2>1, <2>12, Flushed
  <2> QED
    BY <2>3, <2>4, <2>5, <2>12, <2>13, <2>15 DEF TemplatesInv
<1>6. \/ UNCHANGED <<storeVars, issued>>
      \/ \E b \in BuildIds \ minted, ok \in BOOLEAN :
           /\ t \in DOMAIN memory
           /\ AppendBuild(t, b, ok)
           /\ issued' = IF ok THEN issued \cup {<<t, b>>} ELSE issued
  BY DEF RecordBuild
<1> QED
  BY <1>3, <1>4, <1>5, <1>6

LEMMA StartBuildInv ==
  ASSUME TemplatesInv, NEW c \in Callers, StartBuild(c)
  PROVE  TemplatesInv'
<1> USE DEF storeVars, buildVars, processVars, historyVars
<1>1. /\ up
      /\ UNCHANGED <<memory, aliases, disk, dirty, builds, images, up,
                     crashes, issued, deleted, brought>>
  BY DEF StartBuild
<1>2. PICK t \in DOMAIN memory, b \in BuildIds,
           parent \in DOMAIN memory \cup {NoTemplate} :
        /\ minted' = minted \cup {b}
        /\ Goes(c, [at |-> "updateMeta", template |-> t, build |-> b,
                    parent |-> parent])
  BY DEF StartBuild
<1>3. t \in TemplateIds /\ parent \in TemplateIds \cup {NoTemplate}
  BY DEF TemplatesInv, CoreTypeOK, StoreTypeOK
<1> DEFINE r == [at |-> "updateMeta", template |-> t, build |-> b,
                 parent |-> parent]
<1>4. r \in Requests /\ r.at = "updateMeta" /\ r.build = b
  BY <1>3, StartRequest
<1>5. Goes(c, r) /\ minted' = minted \cup {b}
  BY <1>2
<1> HIDE DEF r
<1>6. /\ BroughtStays
      /\ brought' \in [TemplateIds -> [Commands -> BuildIds \cup {NoBuild}]]
  BY <1>1 DEF BroughtStays, TemplatesInv, CoreTypeOK
<1> QED
  BY <1>1, <1>4, <1>5, <1>6, RequestMoves

LEMMA DeleteTemplateInv ==
  ASSUME TemplatesInv, DeleteTemplate
  PROVE  TemplatesInv'
<1> USE DEF buildVars, processVars
<1>1. up /\ UNCHANGED <<builds, images, up, crashes, request, issued, brought>>
  BY DEF DeleteTemplate
<1>2. PICK t \in DOMAIN memory, ok \in BOOLEAN :
        Delete(t, ok) /\ deleted' = IF ok THEN deleted \cup {t} ELSE deleted
  BY DEF DeleteTemplate
<1>3. StoreTypeOK
  BY DEF TemplatesInv, CoreTypeOK
<1>4. CASE ~ok
  <2>1. StoreUnchanged /\ deleted' = deleted
    BY <1>2, <1>3, <1>4, DeleteOp
  <2> QED
    BY <1>1, <2>1, NothingMoves DEF StoreUnchanged, storeVars, historyVars
<1>5. CASE ok
  <2>1. /\ StoreTypeOK' /\ minted' = minted
        /\ disk' = memory' /\ dirty' = FALSE
        /\ DOMAIN memory' = DOMAIN memory \ {t}
        /\ \A x \in DOMAIN memory' : memory'[x] = memory[x]
        /\ DOMAIN aliases' \subseteq DOMAIN aliases
        /\ \A n \in DOMAIN aliases' : aliases'[n] = aliases[n]
        /\ \A n \in DOMAIN aliases :
             n \in DOMAIN aliases' <=> ~(n = memory[t].alias /\ aliases[n] = t)
        /\ deleted' = deleted \cup {t}
    BY <1>2, <1>3, <1>5, DeleteOp
  <2>2. CoreTypeOK'
    BY <1>1, <1>2, <1>3, <2>1 DEF TemplatesInv, CoreTypeOK, BuildTypeOK, StoreTypeOK
  <2>3. OnlyMinted'
    BY <1>1, <2>1 DEF TemplatesInv, OnlyMinted
  <2>4. NothingWhileDown' /\ StepsFitStatus'
    BY <1>1 DEF TemplatesInv, NothingWhileDown, StepsFitStatus
  <2>11. BuildsGoOn /\ BroughtStays
    BY <1>1 DEF BuildsGoOn, BroughtStays
  <2>12. LoneStarts' /\ TaggedBefore'
    BY <1>1, <2>1, <2>11, LoneFrame, TaggedFrame DEF TemplatesInv
  <2>5. AliasesAgree'
    BY <1>1, <2>1 DEF TemplatesInv, MemoryInv, AliasesAgree
  <2>6. AcknowledgedInMemory'
    <3> SUFFICES ASSUME NEW pair \in issued \ (deleted' \X BuildIds)
                 PROVE  pair[1] \in DOMAIN memory' /\ Recorded(memory'[pair[1]], pair[2])
      BY <1>1 DEF AcknowledgedInMemory
    <3>1. pair = <<pair[1], pair[2]>> /\ pair[2] \in BuildIds
      BY DEF TemplatesInv, CoreTypeOK
    <3>2. pair[1] # t /\ pair \notin deleted \X BuildIds
      BY <2>1, <3>1
    <3>3. pair[1] \in DOMAIN memory /\ Recorded(memory[pair[1]], pair[2])
      BY <1>1, <3>2 DEF TemplatesInv, MemoryInv, AcknowledgedInMemory
    <3> QED
      BY <2>1, <3>2, <3>3
  <2>7. TerminalIsPersisted'
    BY <1>1, <2>1 DEF TemplatesInv, MemoryInv, TerminalIsPersisted
  <2>8. MemorySound'
    BY <1>1, <2>1 DEF TemplatesInv, MemoryInv, MemorySound, SoundRecord
  <2>9. MemoryInv'
    BY <2>5, <2>6, <2>7, <2>8 DEF MemoryInv
  <2>10. DiskInv' /\ FailedWritesLeaveNoTrace'
    BY <1>1, <2>1, <2>9, Flushed
  <2> QED
    BY <2>2, <2>3, <2>4, <2>9, <2>10, <2>12 DEF TemplatesInv
<1> QED
  BY <1>4, <1>5

(* UpdateMeta keeps everything that does not speak of image tag, commands   *)
(* and requests; when the flush succeeds the file is as good as memory.     *)
LEMMA MetaKeeps ==
  ASSUME TemplatesInv, up, NEW t \in DOMAIN memory,
         NEW image \in {"none", "builtin", "user"},
         NEW commands \in [Commands -> BuildIds \cup {SeedBuild, NoBuild}],
         NEW ok \in BOOLEAN, UpdateMeta(t, image, commands, ok),
         request' \in [Callers -> Requests],
         \A d \in Callers : request'[d].at \in {"updateMeta", "enqueue"} =>
           request'[d].build \in minted,
         brought' \in [TemplateIds -> [Commands -> BuildIds \cup {NoBuild}]],
         ~ok => BroughtStays,
         LoneStarts', TaggedBefore', MemorySound',
         UNCHANGED <<buildVars, processVars, issued, deleted>>
  PROVE  TemplatesInv'
<1> USE DEF buildVars, processVars
<1>1. StoreTypeOK
  BY DEF TemplatesInv, CoreTypeOK
<1>2. /\ StoreTypeOK'
      /\ aliases' = aliases /\ minted' = minted
      /\ DOMAIN memory' = DOMAIN memory
      /\ memory'[t].alias = memory[t].alias
      /\ memory'[t].builds = memory[t].builds
      /\ \A x \in DOMAIN memory : x # t => memory'[x] = memory[x]
  BY <1>1, MetaOp
<1>3. dirty' = ~ok /\ disk' = IF ok THEN memory' ELSE disk
  BY DEF UpdateMeta, FlushOrKeep, Flush
<1>4. \A x \in DOMAIN memory : /\ memory'[x].alias = memory[x].alias
                               /\ memory'[x].builds = memory[x].builds
  BY <1>2
<1>5. CoreTypeOK'
  <2>1. BuildTypeOK'
    BY DEF TemplatesInv, CoreTypeOK, BuildTypeOK
  <2>2. UNCHANGED <<up, crashes, issued, deleted>>
    OBVIOUS
  <2> QED
    BY <1>2, <2>1, <2>2 DEF TemplatesInv, CoreTypeOK
<1>6. OnlyMinted'
  <2>1. DOMAIN disk' \subseteq minted
    BY <1>2, <1>3 DEF TemplatesInv, OnlyMinted
  <2>2. builds' = builds /\ issued' = issued
    OBVIOUS
  <2> QED
    BY <1>2, <2>1, <2>2 DEF TemplatesInv, OnlyMinted
<1>7. NothingWhileDown' /\ StepsFitStatus'
  <2>1. up' = up /\ builds' = builds /\ images' = images
    OBVIOUS
  <2>2. NothingWhileDown'
    BY <2>1 DEF NothingWhileDown
  <2>3. StepsFitStatus'
    BY <2>1 DEF TemplatesInv, StepsFitStatus
  <2> QED
    BY <2>2, <2>3
<1>8. AliasesAgree'
  BY <1>2, <1>4 DEF TemplatesInv, MemoryInv, AliasesAgree
<1>9. AcknowledgedInMemory'
  BY <1>2, <1>4 DEF TemplatesInv, MemoryInv, AcknowledgedInMemory, Recorded
<1>10. TerminalIsPersisted'
  BY <1>2, <1>4 DEF TemplatesInv, MemoryInv, TerminalIsPersisted
<1>11. MemoryInv'
  BY <1>8, <1>9, <1>10 DEF MemoryInv
<1>12. CASE ok
  <2>1. DiskInv' /\ FailedWritesLeaveNoTrace'
    BY <1>3, <1>11, <1>12, Flushed
  <2> QED
    BY <1>5, <1>6, <1>7, <1>11, <2>1 DEF TemplatesInv
<1>13. CASE ~ok
  <2>1. disk' = disk /\ dirty' = TRUE
    BY <1>3, <1>13
  <2>2. DiskSound'
    BY <1>1, <1>13, <2>1, DiskSoundFrame DEF TemplatesInv, DiskInv, StoreTypeOK
  <2>3. DiskInv' /\ FailedWritesLeaveNoTrace'
    BY <2>1, <2>2 DEF TemplatesInv, DiskInv, DiskNamesDistinct,
                      AcknowledgedIsDurable, FailedWritesLeaveNoTrace
  <2> QED
    BY <1>5, <1>6, <1>7, <1>11, <2>3 DEF TemplatesInv
<1> QED
  BY <1>12, <1>13

LEMMA PatchTemplateInv ==
  ASSUME TemplatesInv, PatchTemplate
  PROVE  TemplatesInv'
<1>1. up /\ UNCHANGED <<buildVars, processVars, request, reader, historyVars>>
  BY DEF PatchTemplate
<1>2. PICK t \in DOMAIN memory, ok \in BOOLEAN :
        UpdateMeta(t, memory[t].image, memory[t].commands, ok)
  BY DEF PatchTemplate
<1>3. StoreTypeOK /\ memory[t] \in TemplateRecords
  BY DEF TemplatesInv, CoreTypeOK, StoreTypeOK
<1> DEFINE image    == memory[t].image
           commands == memory[t].commands
<1>4. /\ image \in {"none", "builtin", "user"}
      /\ commands \in [Commands -> BuildIds \cup {SeedBuild, NoBuild}]
  BY <1>3 DEF TemplateRecords
<1>5. UpdateMeta(t, image, commands, ok)
  BY <1>2
<1> HIDE DEF image, commands
<1>6. /\ StoreTypeOK' /\ DOMAIN memory' = DOMAIN memory
      /\ memory'[t].alias = memory[t].alias
      /\ memory'[t].builds = memory[t].builds
      /\ memory'[t].image = image /\ memory'[t].commands = commands
      /\ \A x \in DOMAIN memory : x # t => memory'[x] = memory[x]
  BY <1>3, <1>4, <1>5, MetaOp
<1>7. \A x \in DOMAIN memory :
        /\ memory'[x].alias = memory[x].alias /\ memory'[x].image = memory[x].image
        /\ memory'[x].commands = memory[x].commands
        /\ memory'[x].builds = memory[x].builds
  BY <1>6 DEF image, commands
<1>8. MemorySound'
  <2> SUFFICES ASSUME NEW x \in DOMAIN memory
               PROVE  SoundRecord(x, memory[x])'
    BY <1>6 DEF MemorySound
  <2>1. SoundRecord(x, memory[x])
    BY DEF TemplatesInv, MemoryInv, MemorySound
  <2> QED
    BY <1>1, <1>7, <2>1
    DEF SoundRecord, IsReady, buildVars, processVars, historyVars
<1>9. /\ request' \in [Callers -> Requests]
      /\ brought' \in [TemplateIds -> [Commands -> BuildIds \cup {NoBuild}]]
  BY <1>1 DEF TemplatesInv, CoreTypeOK, historyVars
<1>10. BuildsGoOn /\ BroughtStays
  BY <1>1 DEF BuildsGoOn, BroughtStays, buildVars, historyVars
<1>11. minted' = minted
  BY <1>5 DEF UpdateMeta
<1>12. LoneStarts' /\ TaggedBefore'
  BY <1>1, <1>6, <1>7, <1>10, <1>11, LoneFrame, TaggedFrame
  DEF TemplatesInv, buildVars
<1>13. \A d \in Callers : request'[d].at \in {"updateMeta", "enqueue"} =>
         request'[d].build \in minted
  BY <1>1 DEF TemplatesInv, OnlyMinted
<1>14. UNCHANGED <<buildVars, processVars, issued, deleted>>
  BY <1>1 DEF historyVars
<1> QED
  BY <1>1, <1>4, <1>5, <1>8, <1>9, <1>10, <1>12, <1>13, <1>14, MetaKeeps

LEMMA SetImageTagInv ==
  ASSUME TemplatesInv, NEW c \in Callers, SetImageTag(c)
  PROVE  TemplatesInv'
<1> DEFINE t == request[c].template
           b == request[c].build
           r == [request[c] EXCEPT !.at = "enqueue"]
<1>1. /\ request[c].at = "updateMeta"
      /\ UNCHANGED <<buildVars, processVars, reader, issued, deleted>>
  BY DEF SetImageTag
<1>2. /\ StoreTypeOK /\ request \in [Callers -> Requests] /\ request[c] \in Requests
      /\ brought \in [TemplateIds -> [Commands -> BuildIds \cup {NoBuild}]]
  BY DEF TemplatesInv, CoreTypeOK
<1>3. /\ up /\ b \in BuildIds /\ b \in minted /\ t \in TemplateIds
  BY <1>1, <1>2, RequestKinds, RequestParts
  DEF TemplatesInv, NothingWhileDown, OnlyMinted
<1>4. /\ r \in Requests /\ r.at = "enqueue" /\ r.template = t /\ r.build = b
  BY <1>1, <1>2, EnqueueRequest
<1>5. CASE t \notin DOMAIN memory
  <2>1. Goes(c, NoRequest) /\ UNCHANGED <<storeVars, brought>>
    BY <1>5 DEF SetImageTag
  <2>2. BroughtStays
    BY <2>1 DEF BroughtStays
  <2> QED
    BY <1>1, <1>2, <1>3, <2>1, <2>2, RequestMoves, RequestKinds
    DEF storeVars, buildVars, processVars
<1>6. ASSUME t \in DOMAIN memory, NEW ok \in BOOLEAN, NEW brings \in SUBSET Commands,
             UpdateMeta(t, "user", CommandsAfter(t, b, brings), ok),
             Goes(c, IF ok THEN r ELSE NoRequest),
             brought' = [brought EXCEPT ![t] =
               [k \in Commands |->
                  IF ok /\ k \in brings /\ Alone(t, b) THEN b ELSE NoBuild]]
      PROVE  TemplatesInv'
  <2> DEFINE commands == CommandsAfter(t, b, brings)
             next     == IF ok THEN r ELSE NoRequest
  <2>1. memory[t] \in TemplateRecords
    BY <1>2, <1>6 DEF StoreTypeOK
  <2>2. /\ commands \in [Commands -> BuildIds \cup {SeedBuild, NoBuild}]
        /\ \A k \in brings : commands[k] = b
    BY <1>3, <2>1 DEF CommandsAfter, TemplateRecords
  <2>3. UpdateMeta(t, "user", commands, ok)
    BY <1>6
  <2>4. /\ next \in Requests /\ (ok => next = r)
        /\ next.at = "enqueue" => ok
        /\ next.at \in {"updateMeta", "enqueue"} => next.build = b
        /\ next.at = "enqueue" => next.template = t
    BY <1>4, RequestKinds
  <2>5. Goes(c, next)
    BY <1>6
  <2> HIDE DEF commands, next, t, b, r
  <2>6. /\ request' \in [Callers -> Requests] /\ request'[c] = next
        /\ \A d \in Callers : d # c => request'[d] = request[d]
    BY <1>2, <2>4, <2>5, GoesFacts
  <2>7. /\ StoreTypeOK' /\ DOMAIN memory' = DOMAIN memory /\ minted' = minted
        /\ memory'[t].alias = memory[t].alias
        /\ memory'[t].builds = memory[t].builds
        /\ memory'[t].image = "user" /\ memory'[t].commands = commands
        /\ \A x \in DOMAIN memory : x # t => memory'[x] = memory[x]
    BY <1>2, <1>6, <2>2, <2>3, MetaOp
  <2>8. /\ brought' \in [TemplateIds -> [Commands -> BuildIds \cup {NoBuild}]]
        /\ \A x \in TemplateIds : x # t => brought'[x] = brought[x]
        /\ \A k \in Commands : brought'[t][k] \in BuildIds =>
             ok /\ k \in brings /\ Alone(t, b) /\ brought'[t][k] = b
    BY <1>2, <1>3, <1>6, BuildIdsAssumption
  <2>9. ~ok => BroughtStays
    BY <2>8 DEF BroughtStays
  <2>10. Alone(t, b) =>
           /\ \A d \in Callers : ~(request[d].at = "enqueue" /\ request[d].template = t)
           /\ \A y \in DOMAIN builds : ~(builds[y].template = t /\ builds[y].step # "done")
           /\ ~IsReady(memory[t], b)
    BY DEF Alone, Overlapped, StartedBefore, IsReady, BuildStatus
  <2>11. builds' = builds /\ images' = images /\ crashes' = crashes
    BY <1>1 DEF buildVars, processVars
  <2>12. LoneStarts'
    <3> SUFFICES ASSUME NEW x \in TemplateIds, NEW k \in Commands,
                        brought'[x][k] \in BuildIds
                 PROVE  /\ x \in minted
                        /\ \A d \in Callers :
                             request'[d].at = "enqueue" /\ request'[d].template = x =>
                               request'[d].build = brought'[x][k]
                        /\ \A y \in DOMAIN builds :
                             builds[y].template = x /\ builds[y].step # "done" =>
                               /\ y = brought'[x][k]
                               /\ builds[y].step = "succeeded" => images[x] = y
      BY <2>7, <2>11 DEF LoneStarts
    <3>1. CASE x = t
      <4>1. Alone(t, b) /\ brought'[x][k] = b
        BY <2>8, <3>1
      <4>2. t \in minted
        BY <1>6 DEF TemplatesInv, OnlyMinted
      <4>3. \A d \in Callers : request'[d].at = "enqueue" /\ request'[d].template = t =>
              request'[d].build = b
        BY <2>4, <2>6, <2>10, <4>1
      <4> QED
        BY <2>10, <3>1, <4>1, <4>2, <4>3
    <3>2. CASE x # t
      <4>1. brought'[x] = brought[x]
        BY <2>8, <3>2
      <4>2. \A d \in Callers : request'[d].at = "enqueue" /\ request'[d].template = x =>
              request'[d] = request[d]
        BY <2>4, <2>6, <3>2
      <4> QED
        BY <4>1, <4>2 DEF TemplatesInv, LoneStarts
    <3> QED
      BY <3>1, <3>2
  <2>13. TaggedBefore'
    <3>1. \A x \in DOMAIN memory : memory[x].image = "user" => memory'[x].image = "user"
      BY <2>7
    <3>2. t \in minted
      BY <1>6 DEF TemplatesInv, OnlyMinted
    <3>3. ASSUME NEW d \in Callers, request'[d].at = "enqueue"
          PROVE  /\ request'[d].template \in minted
                 /\ request'[d].template \in DOMAIN memory =>
                      memory'[request'[d].template].image = "user"
      <4>1. CASE d = c
        BY <2>4, <2>6, <2>7, <3>2, <3>3, <4>1
      <4>2. CASE d # c
        BY <2>6, <3>1, <3>3, <4>2 DEF TemplatesInv, TaggedBefore
      <4> QED
        BY <4>1, <4>2
    <3> QED
      BY <2>7, <2>11, <3>1, <3>3 DEF TemplatesInv, TaggedBefore
  <2>14. MemorySound'
    <3> SUFFICES ASSUME NEW x \in DOMAIN memory
                 PROVE  SoundRecord(x, memory[x])'
      BY <2>7 DEF MemorySound
    <3>1. SoundRecord(x, memory[x]) /\ x \in TemplateIds
      BY <1>2 DEF TemplatesInv, MemoryInv, MemorySound, StoreTypeOK
    <3>2. CASE x # t
      <4>1. memory'[x] = memory[x] /\ brought'[x] = brought[x]
        BY <2>7, <2>8, <3>1, <3>2
      <4> QED
        BY <2>11, <3>1, <4>1 DEF SoundRecord
    <3>3. CASE x = t
      <4>1. \A y \in BuildIds : IsReady(memory'[t], y) => IsReady(memory[t], y)
        BY <2>7 DEF IsReady
      <4>2. \A y \in BuildIds : IsReady(memory'[t], y) => images[t] # NoBuild
        BY <3>1, <3>3, <4>1 DEF SoundRecord
      <4>3. ASSUME NEW k \in Commands, brought'[t][k] \in BuildIds
            PROVE  /\ memory'[t].commands[k] = brought'[t][k]
                   /\ ~IsReady(memory'[t], brought'[t][k])
        <5>1. k \in brings /\ Alone(t, b) /\ brought'[t][k] = b
          BY <2>8, <4>3
        <5> QED
          BY <1>3, <2>2, <2>7, <2>10, <4>1, <5>1
      <4> QED
        BY <2>7, <2>11, <3>3, <4>2, <4>3 DEF SoundRecord
    <3> QED
      BY <3>2, <3>3
  <2>15. \A d \in Callers : request'[d].at \in {"updateMeta", "enqueue"} =>
           request'[d].build \in minted
    BY <1>3, <2>4, <2>6 DEF TemplatesInv, OnlyMinted
  <2> QED
    BY <1>1, <1>3, <1>6, <2>2, <2>3, <2>6, <2>8, <2>9, <2>12, <2>13, <2>14,
       <2>15, MetaKeeps
<1>7. t \in DOMAIN memory =>
        \E ok \in BOOLEAN, brings \in SUBSET Commands :
          /\ UpdateMeta(t, "user", CommandsAfter(t, b, brings), ok)
          /\ Goes(c, IF ok THEN r ELSE NoRequest)
          /\ brought' = [brought EXCEPT ![t] =
               [k \in Commands |->
                  IF ok /\ k \in brings /\ Alone(t, b) THEN b ELSE NoBuild]]
  BY DEF SetImageTag
<1> QED
  BY <1>5, <1>6, <1>7

LEMMA EnqueueInv ==
  ASSUME TemplatesInv, NEW c \in Callers, Enqueue(c)
  PROVE  TemplatesInv'
<1> USE DEF storeVars, processVars, historyVars
<1> DEFINE b == request[c].build
           t == request[c].template
           parent == request[c].parent
<1>1. /\ request[c].at = "enqueue" /\ Goes(c, NoRequest)
      /\ UNCHANGED <<memory, aliases, disk, minted, dirty, up, crashes, issued,
                     deleted, brought>>
  BY DEF Enqueue
<1>2. /\ BuildTypeOK /\ request \in [Callers -> Requests] /\ request[c] \in Requests
  BY DEF TemplatesInv, CoreTypeOK
<1>3. /\ up /\ b \in BuildIds /\ b \in minted /\ t \in TemplateIds
      /\ parent \in TemplateIds \cup {NoTemplate}
  BY <1>1, <1>2, RequestKinds, RequestParts
  DEF TemplatesInv, NothingWhileDown, OnlyMinted
<1>4. CASE UNCHANGED buildVars
  BY <1>1, <1>3, <1>4, RequestMoves, RequestKinds
  DEF buildVars, BroughtStays, TemplatesInv, CoreTypeOK
<1>5. CASE Enqueued(b, t, parent)
  <2>1. /\ \A k \in Commands : brought[t][k] \in BuildIds => b = brought[t][k]
        /\ t \in minted /\ (t \in DOMAIN memory => memory[t].image = "user")
    BY <1>1, <1>3 DEF TemplatesInv, LoneStarts, TaggedBefore
  <2> HIDE DEF b, t, parent
  <2>2. /\ BuildTypeOK' /\ images' = images
        /\ b \notin DOMAIN builds /\ DOMAIN builds' = DOMAIN builds \cup {b}
        /\ builds'[b].template = t /\ builds'[b].step = "spawned"
        /\ builds'[b].status = "waiting"
        /\ \A x \in DOMAIN builds : x # b /\ builds'[x] = builds[x]
    BY <1>2, <1>3, <1>5, EnqueuedOp
  <2>3. /\ request' \in [Callers -> Requests] /\ request'[c] = NoRequest
        /\ \A d \in Callers : d # c => request'[d] = request[d]
    BY <1>1, <1>2, RequestKinds, GoesFacts
  <2>4. CoreTypeOK'
    BY <1>1, <2>2, <2>3 DEF TemplatesInv, CoreTypeOK, StoreTypeOK
  <2>5. OnlyMinted'
    BY <1>1, <1>3, <2>2, <2>3, RequestKinds DEF TemplatesInv, OnlyMinted
  <2>6. NothingWhileDown' /\ FailedWritesLeaveNoTrace'
    BY <1>1, <1>3 DEF TemplatesInv, NothingWhileDown, FailedWritesLeaveNoTrace
  <2>7. StepsFitStatus'
    BY <2>2 DEF TemplatesInv, StepsFitStatus, IsTerminal
  <2>8. TerminalIsPersisted'
    BY <1>1, <2>2 DEF TemplatesInv, MemoryInv, TerminalIsPersisted, IsTerminal
  <2>9. \A d \in Callers : request'[d].at = "enqueue" => request'[d] = request[d]
    BY <2>3, RequestKinds
  <2>10. LoneStarts'
    <3> SUFFICES ASSUME NEW x \in TemplateIds, NEW k \in Commands,
                        brought[x][k] \in BuildIds
                 PROVE  /\ x \in minted
                        /\ \A d \in Callers :
                             request'[d].at = "enqueue" /\ request'[d].template = x =>
                               request'[d].build = brought[x][k]
                        /\ \A y \in DOMAIN builds' :
                             builds'[y].template = x /\ builds'[y].step # "done" =>
                               /\ y = brought[x][k]
                               /\ builds'[y].step = "succeeded" => images[x] = y
      BY <1>1, <2>2 DEF LoneStarts
    <3>1. ASSUME NEW y \in DOMAIN builds', builds'[y].template = x,
                 builds'[y].step # "done"
          PROVE  /\ y = brought[x][k]
                 /\ builds'[y].step = "succeeded" => images[x] = y
      <4>1. CASE y = b
        BY <2>1, <2>2, <3>1, <4>1
      <4>2. CASE y \in DOMAIN builds
        BY <2>2, <3>1, <4>2 DEF TemplatesInv, LoneStarts
      <4> QED
        BY <2>2, <4>1, <4>2
    <3> QED
      BY <2>9, <3>1 DEF TemplatesInv, LoneStarts
  <2>11. TaggedBefore'
    BY <1>1, <2>1, <2>2, <2>9 DEF TemplatesInv, TaggedBefore
  <2>14. MemorySound' /\ DiskSound'
    BY <1>1, <2>2, MemorySoundFrame, DiskSoundFrame
    DEF TemplatesInv, MemoryInv, DiskInv, CoreTypeOK, StoreTypeOK, BroughtStays
  <2>12. MemoryInv'
    BY <1>1, <2>8, <2>14 DEF TemplatesInv, MemoryInv, AliasesAgree,
                             AcknowledgedInMemory
  <2>13. DiskInv'
    BY <1>1, <2>14 DEF TemplatesInv, DiskInv, DiskNamesDistinct,
                       AcknowledgedIsDurable
  <2> QED
    BY <2>4, <2>5, <2>6, <2>7, <2>10, <2>11, <2>12, <2>13 DEF TemplatesInv
<1> QED
  BY <1>4, <1>5 DEF Enqueue

LEMMA RunStepInv ==
  ASSUME TemplatesInv, NEW b \in BuildIds, RunStep(b),
         UNCHANGED <<storeVars, processVars, request, historyVars>>
  PROVE  TemplatesInv'
<1> USE DEF storeVars, processVars, historyVars
<1> DEFINE t == builds[b].template
<1>1. BuildTypeOK
  BY DEF TemplatesInv, CoreTypeOK
<1>2. /\ b \in DOMAIN builds
      /\ builds[b].step \in RunSteps \ {"succeeded", "failed", "done"}
  BY <1>1, RunStepOp
<1>3. PICK step \in RunSteps \ {"done"},
           status \in {builds[b].status, "building"},
           log \in {builds[b].log, WithLine(builds[b].log)} :
             Steps(b, step, status, log)
  BY <1>1, RunStepOp
<1>4. /\ status \in BuildStatus /\ t \in TemplateIds /\ b # NoBuild
      /\ images \in [TemplateIds -> BuildIds \cup {NoBuild}]
  BY <1>1, <1>2, BuildIdsAssumption DEF BuildTypeOK, BuildRecords, BuildStatus
<1>5. BuildTypeOK' /\ BuildGoes(b, step, status, log)
  BY <1>1, <1>2, <1>3, <1>4, StepsType
<1>6. /\ DOMAIN builds' = DOMAIN builds
      /\ builds'[b].step = step /\ builds'[b].status = status
      /\ builds'[b].template = t
      /\ \A x \in DOMAIN builds : x # b => builds'[x] = builds[x]
  BY <1>5 DEF BuildGoes
<1>7. /\ \A x \in TemplateIds : images[x] # NoBuild => images'[x] # NoBuild
      /\ \A x \in TemplateIds : images'[x] = images[x] \/ (x = t /\ images'[x] = b)
      /\ step = "succeeded" => images'[t] = b
  <2>1. /\ images' \in {images, [images EXCEPT ![t] = b]}
        /\ step = "succeeded" => images' = [images EXCEPT ![t] = b]
    BY <1>3 DEF Steps, Tagged
  <2> HIDE DEF t
  <2> QED
    BY <1>4, <2>1
<1>8. ~IsTerminal(builds[b].status) /\ ~IsTerminal(status)
  BY <1>2 DEF TemplatesInv, StepsFitStatus, IsTerminal
<1> HIDE DEF t
<1>9. CoreTypeOK'
  BY <1>5 DEF TemplatesInv, CoreTypeOK, StoreTypeOK
<1>10. OnlyMinted'
  BY <1>6 DEF TemplatesInv, OnlyMinted
<1>11. NothingWhileDown'
  BY <1>2, EmptyDomain DEF TemplatesInv, NothingWhileDown
<1>12. FailedWritesLeaveNoTrace'
  BY DEF TemplatesInv, FailedWritesLeaveNoTrace
<1>13. StepsFitStatus'
  <2> SUFFICES ASSUME NEW x \in DOMAIN builds
               PROVE  /\ IsTerminal(builds'[x].status) <=> builds'[x].step = "done"
                      /\ builds'[x].step = "succeeded" =>
                           images'[builds'[x].template] # NoBuild
    BY <1>6 DEF StepsFitStatus
  <2>1. CASE x = b
    BY <1>3, <1>4, <1>6, <1>7, <1>8, <2>1
  <2>2. CASE x # b
    <3>1. builds'[x] = builds[x] /\ builds[x].template \in TemplateIds
      BY <1>1, <1>6, <2>2 DEF BuildTypeOK, BuildRecords
    <3> QED
      BY <1>7, <3>1 DEF TemplatesInv, StepsFitStatus
  <2> QED
    BY <2>1, <2>2
<1>14. TerminalIsPersisted'
  <2> SUFFICES ASSUME NEW x \in DOMAIN builds, IsTerminal(builds'[x].status),
                      builds'[x].template \in DOMAIN memory
               PROVE  memory[builds'[x].template].builds[x]
                        \in {"unrecorded", builds'[x].status}
    BY <1>6 DEF TerminalIsPersisted
  <2>1. x # b /\ builds'[x] = builds[x]
    BY <1>6, <1>8
  <2> QED
    BY <2>1 DEF TemplatesInv, MemoryInv, TerminalIsPersisted
<1>20. \A k \in Commands : brought[t][k] \in BuildIds => b = brought[t][k]
  BY <1>2, <1>4 DEF TemplatesInv, LoneStarts, t
<1>21. LoneStarts'
  <2> SUFFICES ASSUME NEW x \in TemplateIds, NEW k \in Commands,
                      brought[x][k] \in BuildIds
               PROVE  /\ x \in minted
                      /\ \A d \in Callers :
                           request[d].at = "enqueue" /\ request[d].template = x =>
                             request[d].build = brought[x][k]
                      /\ \A y \in DOMAIN builds :
                           builds'[y].template = x /\ builds'[y].step # "done" =>
                             /\ y = brought[x][k]
                             /\ builds'[y].step = "succeeded" => images'[x] = y
    BY <1>6 DEF LoneStarts
  <2>1. ASSUME NEW y \in DOMAIN builds, builds'[y].template = x,
               builds'[y].step # "done"
        PROVE  /\ y = brought[x][k]
               /\ builds'[y].step = "succeeded" => images'[x] = y
    <3>1. CASE y = b
      BY <1>6, <1>7, <1>20, <2>1, <3>1
    <3>2. CASE y # b
      <4>1. builds'[y] = builds[y]
        BY <1>6, <3>2
      <4>2. y = brought[x][k] /\ (builds[y].step = "succeeded" => images[x] = y)
        BY <2>1, <4>1 DEF TemplatesInv, LoneStarts
      <4>3. x # t
        BY <1>20, <3>2, <4>2
      <4> QED
        BY <1>7, <4>1, <4>2, <4>3
    <3> QED
      BY <3>1, <3>2
  <2> QED
    BY <2>1 DEF TemplatesInv, LoneStarts
<1>22. TaggedBefore'
  <2>1. \A x \in DOMAIN builds : builds'[x].template = builds[x].template
    BY <1>6 DEF t
  <2> QED
    BY <1>6, <2>1 DEF TemplatesInv, TaggedBefore
<1>15. ASSUME NEW x \in TemplateIds, NEW r, SoundRecord(x, r)
       PROVE  SoundRecord(x, r)'
  <2>1. ASSUME NEW k \in Commands, brought[x][k] \in BuildIds
        PROVE  /\ r.image = "user" => r.commands[k] = brought[x][k]
               /\ IsReady(r, brought[x][k]) => images'[x] = brought[x][k]
    <3>1. /\ r.image = "user" => r.commands[k] = brought[x][k]
          /\ IsReady(r, brought[x][k]) => images[x] = brought[x][k]
      BY <1>15, <2>1 DEF SoundRecord
    <3>2. x = t => b = brought[x][k]
      BY <1>20, <2>1
    <3> QED
      BY <1>7, <3>1, <3>2
  <2>2. \A y \in BuildIds : IsReady(r, y) =>
          /\ images'[x] # NoBuild
          /\ r.image = "user" \/ (r.image = "builtin" /\ crashes > 0)
    BY <1>7, <1>15 DEF SoundRecord
  <2>3. r.image = "builtin" => r.alias = BuiltinName
    BY <1>15 DEF SoundRecord
  <2> QED
    BY <2>1, <2>2, <2>3 DEF SoundRecord
<1>16. MemorySound'
  <2> SUFFICES ASSUME NEW x \in DOMAIN memory
               PROVE  SoundRecord(x, memory[x])'
    BY DEF MemorySound
  <2>1. SoundRecord(x, memory[x]) /\ x \in TemplateIds
    BY DEF TemplatesInv, MemoryInv, MemorySound, CoreTypeOK, StoreTypeOK
  <2> QED
    BY <1>15, <2>1 DEF SoundRecord
<1>17. DiskSound'
  <2> SUFFICES ASSUME NEW x \in DOMAIN disk
               PROVE  SoundRecord(x, disk[x])'
    BY DEF DiskSound
  <2>1. SoundRecord(x, disk[x]) /\ x \in TemplateIds
    BY DEF TemplatesInv, DiskInv, DiskSound, CoreTypeOK, StoreTypeOK
  <2> QED
    BY <1>15, <2>1 DEF SoundRecord
<1>18. MemoryInv'
  BY <1>14, <1>16 DEF TemplatesInv, MemoryInv, AliasesAgree, AcknowledgedInMemory
<1>19. DiskInv'
  BY <1>17 DEF TemplatesInv, DiskInv, DiskNamesDistinct, AcknowledgedIsDurable
<1> QED
  BY <1>9, <1>10, <1>11, <1>12, <1>13, <1>18, <1>19, <1>21, <1>22 DEF TemplatesInv

LEMMA FinishInv ==
  ASSUME TemplatesInv, NEW b \in BuildIds, Finish(b)
  PROVE  TemplatesInv'
<1> USE DEF processVars, historyVars
<1>0. PICK t : t = builds[b].template
  OBVIOUS
<1>1. UNCHANGED <<up, crashes, request, issued, deleted, brought>>
  BY DEF Finish
<1>2. ASSUME NEW at, NEW status,
             (at = "succeeded" /\ status = "ready") \/ (at = "failed" /\ status = "error"),
             Completed(b, at, status),
             \E ok \in BOOLEAN : UpdateBuild(t, b, status, ok)
      PROVE  TemplatesInv'
  <2>1. BuildTypeOK /\ StoreTypeOK /\ status \in BuildStatus
    BY <1>2 DEF TemplatesInv, CoreTypeOK, BuildStatus
  <2>2. /\ b \in DOMAIN builds /\ builds[b].step = at
        /\ BuildTypeOK' /\ images' = images
        /\ BuildGoes(b, "done", status, WithLine(builds[b].log))
    BY <1>2, <2>1, CompletedOp
  <2>3. /\ DOMAIN builds' = DOMAIN builds
        /\ builds'[b].step = "done" /\ builds'[b].status = status
        /\ builds'[b].template = t
        /\ \A x \in DOMAIN builds : x # b => builds'[x] = builds[x]
    BY <1>0, <2>2 DEF BuildGoes
  <2>4. t \in TemplateIds
    BY <1>0, <2>1, <2>2 DEF BuildTypeOK, BuildRecords
  <2>5. /\ StoreTypeOK'
        /\ \/ StoreUnchanged /\ (t \in DOMAIN memory => ~Recorded(memory[t], b))
           \/ /\ t \in DOMAIN memory
              /\ aliases' = aliases /\ minted' = minted
              /\ \/ disk' = disk /\ dirty' = TRUE
                 \/ disk' = memory' /\ dirty' = FALSE
              /\ DOMAIN memory' = DOMAIN memory
              /\ memory'[t].alias = memory[t].alias
              /\ memory'[t].image = memory[t].image
              /\ memory'[t].commands = memory[t].commands
              /\ memory'[t].builds[b] = status
              /\ \A y \in BuildIds \cup {SeedBuild} :
                   y # b => memory'[t].builds[y] = memory[t].builds[y]
              /\ \A x \in DOMAIN memory : x # t => memory'[x] = memory[x]
    BY <1>2, <2>1, <2>4, UpdateBuildOp
  <2>6. up /\ IsTerminal(status)
    BY <1>2, <2>2, EmptyDomain DEF TemplatesInv, NothingWhileDown, IsTerminal
  <2>7. /\ status = "ready" => images[t] # NoBuild
        /\ \A k \in Commands : brought[t][k] = b /\ status = "ready" =>
             images[t] = b
    BY <1>0, <1>2, <2>2, <2>4 DEF TemplatesInv, StepsFitStatus, LoneStarts
  <2>8. aliases' = aliases /\ minted' = minted /\ DOMAIN memory' = DOMAIN memory
    BY <2>5 DEF StoreUnchanged
  <2>9. \A x \in DOMAIN memory :
          /\ memory'[x].alias = memory[x].alias /\ memory'[x].image = memory[x].image
          /\ memory'[x].commands = memory[x].commands
          /\ \A y \in BuildIds \cup {SeedBuild} :
               ~(x = t /\ y = b) => memory'[x].builds[y] = memory[x].builds[y]
    BY <2>5 DEF StoreUnchanged
  <2>10. t \in DOMAIN memory => memory'[t].builds[b] \in {"unrecorded", status}
    BY <2>5 DEF StoreUnchanged, Recorded
  <2>11. CoreTypeOK'
    BY <1>1, <2>2, <2>5 DEF TemplatesInv, CoreTypeOK
  <2>12. OnlyMinted'
    <3>1. DOMAIN disk' \subseteq minted
      BY <2>5 DEF TemplatesInv, OnlyMinted, StoreUnchanged
    <3> QED
      BY <1>1, <2>3, <2>8, <3>1 DEF TemplatesInv, OnlyMinted
  <2>13. NothingWhileDown'
    BY <1>1, <2>6 DEF NothingWhileDown
  <2>14. StepsFitStatus'
    <3> SUFFICES ASSUME NEW x \in DOMAIN builds
                 PROVE  /\ IsTerminal(builds'[x].status) <=> builds'[x].step = "done"
                        /\ builds'[x].step = "succeeded" =>
                             images'[builds'[x].template] # NoBuild
      BY <2>3 DEF StepsFitStatus
    <3>1. CASE x = b
      BY <2>3, <2>6, <3>1
    <3>2. CASE x # b
      BY <2>2, <2>3, <3>2 DEF TemplatesInv, StepsFitStatus
    <3> QED
      BY <3>1, <3>2
  <2>15. AliasesAgree'
    BY <1>1, <2>8, <2>9 DEF TemplatesInv, MemoryInv, AliasesAgree
  <2>16. AcknowledgedInMemory'
    <3> SUFFICES ASSUME NEW pair \in issued \ (deleted \X BuildIds)
                 PROVE  pair[1] \in DOMAIN memory' /\ Recorded(memory'[pair[1]], pair[2])
      BY <1>1 DEF AcknowledgedInMemory
    <3>1. /\ pair[1] \in DOMAIN memory /\ Recorded(memory[pair[1]], pair[2])
          /\ pair[2] \in BuildIds
      BY <2>6 DEF TemplatesInv, MemoryInv, AcknowledgedInMemory, CoreTypeOK
    <3>2. CASE ~(pair[1] = t /\ pair[2] = b)
      BY <2>8, <2>9, <3>1, <3>2 DEF Recorded
    <3>3. CASE pair[1] = t /\ pair[2] = b
      BY <2>1, <2>5, <3>1, <3>3 DEF Recorded, BuildStatus, StoreUnchanged
    <3> QED
      BY <3>2, <3>3
  <2>17. TerminalIsPersisted'
    <3> SUFFICES ASSUME NEW x \in DOMAIN builds, IsTerminal(builds'[x].status),
                        builds'[x].template \in DOMAIN memory
                 PROVE  memory'[builds'[x].template].builds[x]
                          \in {"unrecorded", builds'[x].status}
      BY <2>3, <2>8 DEF TerminalIsPersisted
    <3>1. CASE x = b
      BY <2>3, <2>10, <3>1
    <3>2. CASE x # b
      <4>1. builds'[x] = builds[x] /\ x \in BuildIds
        BY <2>1, <2>3, <3>2 DEF BuildTypeOK
      <4>2. memory[builds[x].template].builds[x] \in {"unrecorded", builds[x].status}
        BY <4>1 DEF TemplatesInv, MemoryInv, TerminalIsPersisted
      <4> QED
        BY <2>9, <3>2, <4>1, <4>2
    <3> QED
      BY <3>1, <3>2
  <2>18. BuildsGoOn /\ BroughtStays
    BY <1>0, <1>1, <2>3 DEF BuildsGoOn, BroughtStays
  <2>23. LoneStarts' /\ TaggedBefore'
    BY <1>1, <2>2, <2>8, <2>9, <2>18, LoneFrame, TaggedFrame DEF TemplatesInv
  <2>24. t \in DOMAIN memory => memory[t].image = "user"
    BY <1>0, <2>2 DEF TemplatesInv, TaggedBefore
  <2>19. MemorySound'
    <3> SUFFICES ASSUME NEW x \in DOMAIN memory
                 PROVE  SoundRecord(x, memory[x])'
      BY <2>8 DEF MemorySound
    <3>1. PICK r : r = memory[x]
      OBVIOUS
    <3>2. SoundRecord(x, r)
      BY <3>1 DEF TemplatesInv, MemoryInv, MemorySound
    <3>4. PICK v : v = memory'[x]
      OBVIOUS
    <3>5. /\ v.alias = r.alias /\ v.image = r.image /\ v.commands = r.commands
          /\ \A y \in BuildIds : ~(x = t /\ y = b) => v.builds[y] = r.builds[y]
          /\ x = t => v.builds[b] \in {"unrecorded", status}
      BY <2>9, <2>10, <3>1, <3>4
    <3>6. ASSUME NEW y \in BuildIds, IsReady(v, y)
          PROVE  /\ images[x] # NoBuild
                 /\ v.image = "user" \/ (v.image = "builtin" /\ crashes > 0)
                 /\ \A k \in Commands : brought[x][k] = y => images[x] = y
      <4>1. CASE x = t /\ y = b
        BY <2>7, <2>24, <3>1, <3>5, <3>6, <4>1 DEF IsReady
      <4>2. CASE ~(x = t /\ y = b)
        <5>1. IsReady(r, y)
          BY <3>5, <3>6, <4>2 DEF IsReady
        <5> QED
          BY <3>2, <3>5, <5>1 DEF SoundRecord
      <4> QED
        BY <4>1, <4>2
    <3>7. SoundRecord(x, v)'
      <4>1. /\ v.image = "builtin" => v.alias = BuiltinName
            /\ \A k \in Commands : brought[x][k] \in BuildIds =>
                 (v.image = "user" => v.commands[k] = brought[x][k])
        BY <3>2, <3>5 DEF SoundRecord
      <4> QED
        BY <1>1, <2>2, <3>6, <4>1 DEF SoundRecord
    <3> QED
      BY <3>4, <3>7 DEF SoundRecord
  <2>20. MemoryInv'
    BY <2>15, <2>16, <2>17, <2>19 DEF MemoryInv
  <2>21. CASE disk' = memory' /\ dirty' = FALSE
    <3>1. DiskInv' /\ FailedWritesLeaveNoTrace'
      BY <1>1, <2>6, <2>20, <2>21, Flushed
    <3> QED
      BY <2>11, <2>12, <2>13, <2>14, <2>20, <2>23, <3>1 DEF TemplatesInv
  <2>22. CASE disk' = disk /\ (dirty' = TRUE \/ StoreUnchanged)
    <3>1. DiskSound'
      BY <1>1, <2>1, <2>2, <2>18, <2>22, DiskSoundFrame
      DEF TemplatesInv, DiskInv, StoreTypeOK
    <3>2. DiskInv'
      BY <1>1, <2>22, <3>1 DEF TemplatesInv, DiskInv, DiskNamesDistinct,
                               AcknowledgedIsDurable
    <3>3. FailedWritesLeaveNoTrace'
      BY <1>1, <2>22 DEF TemplatesInv, FailedWritesLeaveNoTrace, StoreUnchanged
    <3> QED
      BY <2>11, <2>12, <2>13, <2>14, <2>20, <2>23, <3>2, <3>3 DEF TemplatesInv
  <2> QED
    BY <2>5, <2>21, <2>22 DEF StoreUnchanged
<1>3. \E end \in {<<"succeeded", "ready">>, <<"failed", "error">>} :
        /\ Completed(b, end[1], end[2])
        /\ \E ok \in BOOLEAN : UpdateBuild(t, b, end[2], ok)
  BY <1>0 DEF Finish
<1>4. \E at, status :
        /\ (at = "succeeded" /\ status = "ready") \/ (at = "failed" /\ status = "error")
        /\ Completed(b, at, status)
        /\ \E ok \in BOOLEAN : UpdateBuild(t, b, status, ok)
  <2>1. PICK end \in {<<"succeeded", "ready">>, <<"failed", "error">>} :
          /\ Completed(b, end[1], end[2])
          /\ \E ok \in BOOLEAN : UpdateBuild(t, b, end[2], ok)
    BY <1>3
  <2>2. PICK at, status : at = end[1] /\ status = end[2]
    OBVIOUS
  <2>4. end = <<"succeeded", "ready">> \/ end = <<"failed", "error">>
    OBVIOUS
  <2>3. (at = "succeeded" /\ status = "ready") \/ (at = "failed" /\ status = "error")
    BY <2>2, <2>4
  <2> QED
    BY <2>1, <2>2, <2>3
<1> QED
  BY <1>2, <1>4

LEMMA CrashInv ==
  ASSUME TemplatesInv, Crash
  PROVE  TemplatesInv'
<1>1. /\ up /\ crashes < MaxCrashes /\ up' = FALSE /\ crashes' = crashes + 1
      /\ memory' = Empty /\ aliases' = Empty /\ dirty' = FALSE /\ builds' = Empty
      /\ request' = [c \in Callers |-> NoRequest]
      /\ UNCHANGED <<disk, minted, images, issued, deleted, brought>>
  BY DEF Crash, historyVars
<1>2. CoreTypeOK'
  <2>1. StoreTypeOK'
    BY <1>1, EmptyDomain DEF TemplatesInv, CoreTypeOK, StoreTypeOK
  <2>2. BuildTypeOK'
    BY <1>1, EmptyDomain DEF TemplatesInv, CoreTypeOK, BuildTypeOK
  <2>3. crashes' \in 0..MaxCrashes
    BY <1>1, CrashesAssumption DEF TemplatesInv, CoreTypeOK
  <2> QED
    BY <1>1, <2>1, <2>2, <2>3, RequestKinds DEF TemplatesInv, CoreTypeOK
<1>3. OnlyMinted'
  BY <1>1, EmptyDomain, RequestKinds DEF TemplatesInv, OnlyMinted
<1>8. crashes \in Nat /\ crashes' > 0
  BY <1>1, CrashesAssumption DEF TemplatesInv, CoreTypeOK
<1>9. BuildsGoOn /\ BroughtStays
  BY <1>1, EmptyDomain, RequestKinds DEF BuildsGoOn, BroughtStays
<1>10. LoneStarts' /\ TaggedBefore'
  BY <1>1, <1>9, EmptyDomain, LoneFrame, TaggedFrame DEF TemplatesInv
<1>4. NothingWhileDown' /\ StepsFitStatus' /\ FailedWritesLeaveNoTrace'
  BY <1>1, <1>8, EmptyDomain
  DEF NothingWhileDown, StepsFitStatus, FailedWritesLeaveNoTrace
<1>5. MemoryInv'
  BY <1>1, EmptyDomain
  DEF MemoryInv, AliasesAgree, AcknowledgedInMemory, TerminalIsPersisted,
      MemorySound
<1>6. DiskSound'
  BY <1>1, <1>8, <1>9, DiskSoundFrame
  DEF TemplatesInv, DiskInv, CoreTypeOK, StoreTypeOK
<1>7. DiskInv'
  BY <1>1, <1>6 DEF TemplatesInv, DiskInv, DiskNamesDistinct, AcknowledgedIsDurable
<1> QED
  BY <1>2, <1>3, <1>4, <1>5, <1>7, <1>10 DEF TemplatesInv

LEMMA RestartInv ==
  ASSUME TemplatesInv, Restart
  PROVE  TemplatesInv'
<1> USE DEF buildVars, historyVars
<1>1. /\ ~up /\ up' = TRUE
      /\ UNCHANGED <<builds, images, crashes, request, issued, deleted, brought>>
  BY DEF Restart
<1>2. PICK t \in TemplateIds :
        /\ t \in minted => BuiltinName \in {disk[x].alias : x \in DOMAIN disk}
        /\ LoadAndSeed(t)
  BY DEF Restart
<1>3. /\ StoreTypeOK
      /\ t \in DOMAIN disk => \E x \in DOMAIN disk : disk[x].alias = BuiltinName
  BY <1>2 DEF TemplatesInv, CoreTypeOK, OnlyMinted
<1>4. /\ StoreTypeOK'
      /\ memory' = Seeded(disk, t) /\ aliases' = AliasesOf(memory')
      /\ disk' = memory' /\ dirty' = FALSE /\ minted' = minted \cup DOMAIN memory'
  BY <1>2, <1>3, LoadOp
<1>5. PICK s : s = Seeded(disk, t)
  OBVIOUS
<1>6. /\ DOMAIN disk \subseteq DOMAIN s /\ DOMAIN s \subseteq DOMAIN disk \cup {t}
      /\ \A x \in DOMAIN disk :
           /\ s[x].alias = disk[x].alias /\ s[x].builds = disk[x].builds
           /\ \/ disk[x].alias # BuiltinName /\ s[x] = disk[x]
              \/ /\ disk[x].alias = BuiltinName
                 /\ s[x].image = "builtin" /\ s[x].commands = Of(SeedBuild)
      /\ \A x \in DOMAIN s \ DOMAIN disk :
           /\ x = t /\ \A y \in DOMAIN disk : disk[y].alias # BuiltinName
           /\ s[x].alias = BuiltinName /\ s[x].image = "builtin"
           /\ s[x].commands = Of(SeedBuild)
           /\ \A b \in BuildIds : ~IsReady(s[x], b)
  BY <1>3, <1>5, SeededFacts DEF StoreTypeOK
<1>7. /\ crashes > 0 /\ builds = Empty /\ \A c \in Callers : request[c] = NoRequest
  BY <1>1 DEF TemplatesInv, NothingWhileDown
<1>8. CoreTypeOK'
  BY <1>1, <1>4 DEF TemplatesInv, CoreTypeOK, BuildTypeOK
<1>9. OnlyMinted'
  BY <1>1, <1>4, <1>7, EmptyDomain, RequestKinds DEF TemplatesInv, OnlyMinted
<1>10. NothingWhileDown' /\ StepsFitStatus'
  BY <1>1, <1>7, EmptyDomain DEF NothingWhileDown, StepsFitStatus
<1>11. \A x, y \in DOMAIN s : s[x].alias = s[y].alias => x = y
  BY <1>6 DEF TemplatesInv, DiskInv, DiskNamesDistinct
<1>12. AliasesAgree'
  <2>1. /\ \A x \in DOMAIN memory' : memory'[x].alias \in DOMAIN aliases'
        /\ \A n \in DOMAIN aliases' :
             aliases'[n] \in DOMAIN memory' /\ memory'[aliases'[n]].alias = n
    BY <1>4, AliasesOfFacts
  <2> QED
    BY <1>4, <1>5, <1>11, <2>1 DEF AliasesAgree
<1>13. AcknowledgedInMemory'
  BY <1>1, <1>4, <1>5, <1>6
  DEF TemplatesInv, DiskInv, AcknowledgedIsDurable, AcknowledgedInMemory, Recorded
<1>14. TerminalIsPersisted'
  BY <1>1, <1>7, EmptyDomain DEF TerminalIsPersisted
<1>19. BuildsGoOn /\ BroughtStays
  BY <1>1 DEF BuildsGoOn, BroughtStays
<1>20. LoneStarts'
  BY <1>1, <1>4, <1>19, LoneFrame DEF TemplatesInv
<1>21. TaggedBefore'
  <2>1. DOMAIN builds' = {} /\ \A c \in Callers : request'[c].at = "idle"
    BY <1>1, <1>7, EmptyDomain, RequestKinds
  <2> QED
    BY <2>1 DEF TaggedBefore
<1>15. ASSUME NEW x \in DOMAIN s
       PROVE  SoundRecord(x, s[x])'
  <2>1. CASE x \in DOMAIN disk
    <3>1. SoundRecord(x, disk[x]) /\ s[x].builds = disk[x].builds
      BY <1>6, <2>1 DEF TemplatesInv, DiskInv, DiskSound
    <3>2. CASE s[x] = disk[x]
      BY <1>1, <3>1, <3>2 DEF SoundRecord
    <3>3. CASE s[x].image = "builtin" /\ s[x].alias = BuiltinName
      BY <1>1, <1>7, <3>1, <3>3 DEF SoundRecord, IsReady
    <3> QED
      BY <1>6, <2>1, <3>2, <3>3
  <2>2. CASE x \notin DOMAIN disk
    <3>1. /\ s[x].alias = BuiltinName /\ s[x].image = "builtin"
          /\ \A b \in BuildIds : ~IsReady(s[x], b)
      BY <1>6, <2>2
    <3> QED
      BY <1>1, <3>1 DEF SoundRecord
  <2> QED
    BY <2>1, <2>2
<1>16. MemorySound'
  BY <1>4, <1>5, <1>15 DEF MemorySound, SoundRecord
<1>17. MemoryInv'
  BY <1>12, <1>13, <1>14, <1>16 DEF MemoryInv
<1>18. DiskInv' /\ FailedWritesLeaveNoTrace'
  BY <1>1, <1>4, <1>17, Flushed
<1> QED
  BY <1>8, <1>9, <1>10, <1>17, <1>18, <1>20, <1>21 DEF TemplatesInv

LEMMA InitInv ==
  ASSUME Init
  PROVE  TemplatesInv
<1>1. /\ builds = Empty /\ images = [x \in TemplateIds |-> NoBuild]
      /\ up = TRUE /\ crashes = 0 /\ issued = {} /\ deleted = {}
      /\ request = [c \in Callers |-> NoRequest]
      /\ brought = [x \in TemplateIds |-> Of(NoBuild)]
  BY DEF Init, BuildInit
<1>2. PICK t \in TemplateIds :
        /\ memory = Seeded(Empty, t) /\ aliases = AliasesOf(memory)
        /\ disk = memory /\ minted = {t} /\ dirty = FALSE
  BY DEF Init, StoreInit
<1>3. /\ DOMAIN memory \subseteq {t}
      /\ \A x \in DOMAIN memory :
           /\ x = t /\ memory[x] \in TemplateRecords
           /\ memory[x].alias = BuiltinName /\ memory[x].image = "builtin"
           /\ memory[x].commands = Of(SeedBuild)
           /\ \A b \in BuildIds : ~IsReady(memory[x], b)
  BY <1>2, EmptyDomain, SeededFacts
<1>4. /\ \A x \in DOMAIN memory : memory[x].alias \in DOMAIN aliases
      /\ \A n \in DOMAIN aliases :
           aliases[n] \in DOMAIN memory /\ memory[aliases[n]].alias = n
  BY <1>2, AliasesOfFacts
<1>5. StoreTypeOK
  <2>1. DOMAIN aliases \subseteq Names
    BY <1>3, <1>4, StoreAssumption
  <2>2. \A n \in DOMAIN aliases : aliases[n] \in TemplateIds
    BY <1>3, <1>4
  <2> QED
    BY <1>2, <1>3, <2>1, <2>2 DEF StoreTypeOK
<1>6. CoreTypeOK
  BY <1>1, <1>5, CrashesAssumption, EmptyDomain, RequestKinds, OfFacts
  DEF CoreTypeOK, BuildTypeOK
<1>7. OnlyMinted
  BY <1>1, <1>2, <1>3, EmptyDomain, RequestKinds DEF OnlyMinted
<1>8. NothingWhileDown /\ StepsFitStatus /\ FailedWritesLeaveNoTrace
  BY <1>1, <1>2, EmptyDomain
  DEF NothingWhileDown, StepsFitStatus, FailedWritesLeaveNoTrace
<1>12. \A x \in TemplateIds, k \in Commands : brought[x][k] \notin BuildIds
  BY <1>1, OfFacts, BuildIdsAssumption
<1>13. LoneStarts
  BY <1>12 DEF LoneStarts
<1>14. TaggedBefore
  <2>1. DOMAIN builds = {} /\ \A c \in Callers : request[c].at = "idle"
    BY <1>1, EmptyDomain, RequestKinds
  <2> QED
    BY <2>1 DEF TaggedBefore
<1>9. MemorySound
  BY <1>2, <1>3, <1>12 DEF MemorySound, SoundRecord
<1>10. MemoryInv
  BY <1>1, <1>3, <1>4, <1>9, EmptyDomain
  DEF MemoryInv, AliasesAgree, AcknowledgedInMemory, TerminalIsPersisted
<1>11. DiskInv
  BY <1>1, <1>2, <1>3, <1>9
  DEF DiskInv, DiskNamesDistinct, AcknowledgedIsDurable, DiskSound, MemorySound
<1> QED
  BY <1>6, <1>7, <1>8, <1>10, <1>11, <1>13, <1>14 DEF TemplatesInv

LEMMA NextInv ==
  ASSUME TemplatesInv, [Next]_vars
  PROVE  TemplatesInv'
<1> USE DEF historyVars
<1>1. ASSUME NEW c \in Callers,
             \/ CreateTemplate(c) \/ ResolveExisting(c) \/ RecordBuild(c)
             \/ StartBuild(c) \/ SetImageTag(c) \/ Enqueue(c)
      PROVE  TemplatesInv'
  BY <1>1, CreateTemplateInv, ResolveExistingInv, RecordBuildInv,
     StartBuildInv, SetImageTagInv, EnqueueInv
<1>2. ASSUME NEW b \in BuildIds, Runs(b)
      PROVE  TemplatesInv'
  BY <1>2, RunStepInv, FinishInv DEF Runs
<1>3. ASSUME NEW r \in Readers, PollStatus(r) \/ PollLogs(r)
      PROVE  TemplatesInv'
  BY <1>3, NothingMoves DEF PollStatus, PollLogs
<1>4. CASE UNCHANGED vars
  BY <1>4, NothingMoves DEF vars
<1> QED
  BY <1>1, <1>2, <1>3, <1>4, DeleteTemplateInv, PatchTemplateInv, CrashInv,
     RestartInv DEF Next

-----------------------------------------------------------------------------
LEMMA TemplatesInvariant == Spec => []TemplatesInv
<1>1. Init => TemplatesInv
  BY InitInv
<1>2. TemplatesInv /\ [Next]_vars => TemplatesInv'
  BY NextInv
<1> QED
  BY <1>1, <1>2, PTL DEF Spec

(* The types of the store, of the build manager and of the requests; what   *)
(* the readers hold is typed by the buffer's own lemmas and the run.        *)
THEOREM CoreTypeCorrect == Spec => []CoreTypeOK
<1>1. TemplatesInv => CoreTypeOK
  BY DEF TemplatesInv
<1> QED
  BY <1>1, TemplatesInvariant, PTL

(* A name finds the one template that has it, whatever was created,         *)
(* deleted, rolled back or loaded again (Store.aliases, store.go:47).       *)
THEOREM NamesFindTheirTemplate == Spec => []AliasesAgree
<1>1. TemplatesInv => AliasesAgree
  BY DEF TemplatesInv, MemoryInv
<1> QED
  BY <1>1, TemplatesInvariant, PTL

(* An answered POST /v3/templates is in the file until the template is      *)
(* deleted: no failed write and no crash loses it (store.go:36).            *)
THEOREM AnswersSurviveCrashes == Spec => []AcknowledgedIsDurable
<1>1. TemplatesInv => AcknowledgedIsDurable
  BY DEF TemplatesInv, DiskInv
<1> QED
  BY <1>1, TemplatesInvariant, PTL

(* The rollbacks of Create, AppendBuild and Delete restore exactly what was *)
(* in memory before (store.go:232, 319 and 373).                            *)
THEOREM RollbacksAreComplete == Spec => []FailedWritesLeaveNoTrace
<1>1. TemplatesInv => FailedWritesLeaveNoTrace
  BY DEF TemplatesInv
<1> QED
  BY <1>1, TemplatesInvariant, PTL

(* A build seen as finished has the same outcome in the store: run reports  *)
(* it under the lock that publishes the status (builder/manager.go:187).    *)
THEOREM OutcomesReachTheStore == Spec => []TerminalIsPersisted
<1>1. TemplatesInv => TerminalIsPersisted
  BY DEF TemplatesInv, MemoryInv
<1> QED
  BY <1>1, TemplatesInvariant, PTL

(* A build recorded as ready has an image behind its template's tag, in     *)
(* memory and in the file (builder/manager.go:174, DockerExecutor.Build).   *)
THEOREM ReadyBuildsHaveAnImage == Spec => []ReadyHasImage
<1>1. TemplatesInv => ReadyHasImage
  BY DEF TemplatesInv, MemoryInv, DiskInv, MemorySound, DiskSound, SoundRecord,
         ReadyHasImage
<1> QED
  BY <1>1, TemplatesInvariant, PTL

(* A template with a ready build opens as what was built, or as the builtin *)
(* image when it is the builtin template and the process was restarted; its *)
(* id finds it, and its name does unless that is the id of another one      *)
(* (resolver.go:31, resolveTemplate in sandbox/manager.go:400).             *)
THEOREM ReadyTemplatesResolve == Spec => []ReadyResolves
<1>1. ASSUME TemplatesInv, up, NEW t \in DOMAIN memory, NEW b \in BuildIds,
             IsReady(memory[t], b)
      PROVE  /\ \A key \in {t} \cup ({memory[t].alias} \ (DOMAIN memory \ {t})) :
                  Lookup(key) = {t}
             /\ \/ ResolvedImage(memory[t]) = "user" /\ images[t] # NoBuild
                \/ /\ ResolvedImage(memory[t]) = "builtin"
                   /\ memory[t].alias = BuiltinName /\ crashes > 0
  <2>1. ASSUME NEW key \in {t} \cup ({memory[t].alias} \ (DOMAIN memory \ {t}))
        PROVE  Lookup(key) = {t}
    <3>1. CASE key = t
      BY <3>1 DEF Lookup
    <3>2. CASE key # t
      <4>1. key = memory[t].alias /\ key \notin DOMAIN memory
        BY <2>1, <3>2
      <4>2. key \in DOMAIN aliases /\ aliases[key] = t
        BY <1>1, <4>1 DEF TemplatesInv, MemoryInv, AliasesAgree
      <4> QED
        BY <4>1, <4>2 DEF Lookup
    <3> QED
      BY <3>1, <3>2
  <2>2. PICK r : r = memory[t]
    OBVIOUS
  <2>3. /\ images[t] # NoBuild
        /\ r.image = "user" \/ (r.image = "builtin" /\ crashes > 0)
        /\ r.image = "builtin" => r.alias = BuiltinName
    BY <1>1, <2>2 DEF TemplatesInv, MemoryInv, MemorySound, SoundRecord
  <2>4. \/ ResolvedImage(r) = "user" /\ images[t] # NoBuild
        \/ ResolvedImage(r) = "builtin" /\ r.alias = BuiltinName /\ crashes > 0
    BY <2>3 DEF ResolvedImage
  <2> QED
    BY <2>1, <2>2, <2>4
<1>2. TemplatesInv => ReadyResolves
  BY <1>1 DEF ReadyResolves
<1> QED
  BY <1>2, TemplatesInvariant, PTL

(* When a start of a build was alone and that build is ready, the commands  *)
(* it brought are the template's and the image is the build's, whatever     *)
(* failed, mixed or crashed before (builds.go:127).                         *)
THEOREM CommandsMatchImages == Spec => []CommandsFitImage
<1>1. ASSUME TemplatesInv, NEW t \in DOMAIN memory, NEW k \in Commands,
             NEW b, b = brought[t][k], b # NoBuild, IsReady(memory[t], b),
             ResolvedImage(memory[t]) = "user"
      PROVE  memory[t].commands[k] = b /\ images[t] = b
  <2>1. SoundRecord(t, memory[t]) /\ t \in TemplateIds /\ memory[t] \in TemplateRecords
    BY <1>1 DEF TemplatesInv, MemoryInv, MemorySound, CoreTypeOK, StoreTypeOK
  <2>2. b \in BuildIds
    BY <1>1, <2>1 DEF TemplatesInv, CoreTypeOK
  <2>3. memory[t].image = "user"
    BY <1>1, <2>1, <2>2 DEF SoundRecord, ResolvedImage
  <2> QED
    BY <1>1, <2>1, <2>2, <2>3 DEF SoundRecord
<1>2. TemplatesInv => CommandsFitImage
  BY <1>1 DEF CommandsFitImage
<1> QED
  BY <1>2, TemplatesInvariant, PTL

(* A finished build is never run, renamed or logged to again: nothing but   *)
(* its own goroutine writes it, and that one has ended (Enqueue's check of  *)
(* the map, builder/manager.go:139).                                        *)
THEOREM FinishedBuildsStay == Spec => FinishedStays
<1>1. ASSUME TemplatesInv, [Next]_vars,
             NEW b \in DOMAIN builds \cap DOMAIN builds',
             IsTerminal(builds[b].status)
      PROVE  builds'[b] = builds[b]
  <2>1. builds[b].step = "done"
    BY <1>1 DEF TemplatesInv, StepsFitStatus
  <2>2. ASSUME NEW c \in Callers, Enqueue(c)
        PROVE  builds'[b] = builds[b]
    BY <2>2 DEF Enqueue, Enqueued, With, buildVars
  <2>3. ASSUME NEW x \in BuildIds, Runs(x)
        PROVE  builds'[b] = builds[b]
    <3>1. CASE RunStep(x)
      BY <2>1, <3>1
      DEF RunStep, BuildStarts, BuildAnnounced, BuildPrepared, DockerLine,
          DockerSucceeds, DockerFails, Returns, AdvanceWithLine
    <3>2. CASE Finish(x)
      BY <2>1, <3>2 DEF Finish, Completed
    <3> QED
      BY <2>3, <3>1, <3>2 DEF Runs
  <2>4. CASE Crash
    BY <1>1, <2>4, EmptyDomain DEF Crash
  <2>5. CASE UNCHANGED builds
    BY <2>5
  <2> QED
    BY <1>1, <2>2, <2>3, <2>4, <2>5
    DEF Next, vars, buildVars, CreateTemplate, ResolveExisting, RecordBuild,
        StartBuild, SetImageTag, DeleteTemplate, PatchTemplate, PollStatus,
        PollLogs, Restart
<1>2. TemplatesInv /\ [Next]_vars =>
        [\A b \in DOMAIN builds \cap DOMAIN builds' :
           IsTerminal(builds[b].status) => builds'[b] = builds[b]]_vars
  BY <1>1
<1> QED
  BY <1>2, TemplatesInvariant, PTL DEF Spec, FinishedStays
=============================================================================
