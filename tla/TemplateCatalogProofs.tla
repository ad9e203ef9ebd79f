------------------------ MODULE TemplateCatalogProofs ------------------------
(***************************************************************************)
(* TemplateBuilds implements TemplateCatalog, for every instance.          *)
(*                                                                         *)
(* The catalog is read off the file.  What lets every flush be one step of *)
(* it is SameCatalog: memory and file name the same templates and the same *)
(* builds at all times, also after flushes whose changes were kept, so the *)
(* next flush brings nothing to the file but the change it was made for    *)
(* and outcomes that are late.                                             *)
(***************************************************************************)
EXTENDS TemplateBuildsProofs

CatalogStep == [Catalog!Next]_(Catalog!vars)

SameCatalog ==
  up => /\ NamesIn(memory) = NamesIn(disk)
        /\ BuildsIn(memory) = BuildsIn(disk)
        /\ OutcomesIn(disk) \subseteq OutcomesIn(memory)

(* A build is recorded under an id that was handed out, so a new one never  *)
(* takes the place of one whose outcome is known.                           *)
RecordedAreMinted == \A pair \in BuildsIn(disk) : pair[2] \in minted

CatalogInv == SameCatalog /\ RecordedAreMinted

-----------------------------------------------------------------------------
(* Records and the relations they stand for.                                *)

LEMMA NamesInFacts ==
  ASSUME NEW m, NEW t, NEW n
  PROVE  <<t, n>> \in NamesIn(m) <=> t \in DOMAIN m /\ m[t].alias = n
BY DEF NamesIn

LEMMA BuildsInFacts ==
  ASSUME NEW m, NEW t, NEW b \in BuildIds
  PROVE  /\ <<t, b>> \in BuildsIn(m) <=> t \in DOMAIN m /\ Recorded(m[t], b)
         /\ <<t, b>> \in OutcomesIn(m) <=>
              <<t, b>> \in BuildsIn(m) /\ IsTerminal(m[t].builds[b])
BY DEF BuildsIn, OutcomesIn

LEMMA BuildsInPairs ==
  ASSUME NEW m
  PROVE  /\ \A pair \in BuildsIn(m) :
              /\ pair \in (DOMAIN m) \X BuildIds
              /\ pair = <<pair[1], pair[2]>>
         /\ OutcomesIn(m) \subseteq BuildsIn(m)
BY DEF BuildsIn, OutcomesIn

LEMMA EqualMaps ==
  ASSUME NEW m, NEW w, DOMAIN w = DOMAIN m,
         \A t \in DOMAIN m : w[t].alias = m[t].alias,
         \A t \in DOMAIN m : \A b \in BuildIds :
           /\ Recorded(w[t], b) <=> Recorded(m[t], b)
           /\ IsTerminal(m[t].builds[b]) => IsTerminal(w[t].builds[b])
  PROVE  /\ NamesIn(w) = NamesIn(m)
         /\ BuildsIn(w) = BuildsIn(m)
         /\ OutcomesIn(m) \subseteq OutcomesIn(w)
<1>1. NamesIn(w) = NamesIn(m)
  BY DEF NamesIn
<1>2. BuildsIn(w) = BuildsIn(m)
  BY DEF BuildsIn
<1>3. OutcomesIn(m) \subseteq OutcomesIn(w)
  BY <1>2, BuildsInPairs DEF OutcomesIn
<1> QED
  BY <1>1, <1>2, <1>3

(* The index is the names of the templates the other way round. *)
LEMMA FoundIsNames ==
  ASSUME NEW m, NEW a,
         \A n \in DOMAIN a : a[n] \in DOMAIN m /\ m[a[n]].alias = n,
         \A t \in DOMAIN m : m[t].alias \in DOMAIN a /\ a[m[t].alias] = t
  PROVE  {<<a[n], n>> : n \in DOMAIN a} = NamesIn(m)
<1>1. \A n \in DOMAIN a : <<a[n], n>> \in NamesIn(m)
  BY DEF NamesIn
<1>2. \A t \in DOMAIN m : <<t, m[t].alias>> \in {<<a[n], n>> : n \in DOMAIN a}
  OBVIOUS
<1> QED
  BY <1>1, <1>2 DEF NamesIn

LEMMA AddedTemplate ==
  ASSUME NEW m, NEW w, NEW t, t \notin DOMAIN m,
         DOMAIN w = DOMAIN m \cup {t},
         \A x \in DOMAIN m : /\ w[x].alias = m[x].alias
                             /\ w[x].builds = m[x].builds,
         \A b \in BuildIds : ~Recorded(w[t], b)
  PROVE  /\ NamesIn(w) = NamesIn(m) \cup {<<t, w[t].alias>>}
         /\ BuildsIn(w) = BuildsIn(m)
         /\ OutcomesIn(w) = OutcomesIn(m)
<1>1. NamesIn(w) = NamesIn(m) \cup {<<t, w[t].alias>>}
  BY DEF NamesIn
<1>2. BuildsIn(w) = BuildsIn(m)
  BY DEF BuildsIn, Recorded
<1>3. OutcomesIn(w) = OutcomesIn(m)
  BY <1>2, BuildsInPairs DEF OutcomesIn
<1> QED
  BY <1>1, <1>2, <1>3

LEMMA RemovedTemplate ==
  ASSUME NEW m, NEW w, NEW t,
         \A x : x \in DOMAIN w <=> x \in DOMAIN m /\ x # t,
         \A x \in DOMAIN w : w[x] = m[x]
  PROVE  \A pair :
           /\ pair \in NamesIn(w) <=> pair \in NamesIn(m) /\ pair[1] # t
           /\ pair \in BuildsIn(w) <=> pair \in BuildsIn(m) /\ pair[1] # t
           /\ pair \in OutcomesIn(w) <=> pair \in OutcomesIn(m) /\ pair[1] # t
<1>1. NamesIn(w) = {pair \in NamesIn(m) : pair[1] # t}
  BY DEF NamesIn
<1>2. BuildsIn(w) = {pair \in BuildsIn(m) : pair[1] # t}
  BY DEF BuildsIn
<1>3. OutcomesIn(w) = {pair \in OutcomesIn(m) : pair[1] # t}
  BY <1>2, BuildsInPairs DEF OutcomesIn
<1> QED
  BY <1>1, <1>2, <1>3

LEMMA AddedBuild ==
  ASSUME NEW m, NEW w, NEW t \in DOMAIN m, NEW b \in BuildIds,
         ~Recorded(m[t], b), DOMAIN w = DOMAIN m,
         \A x \in DOMAIN m : w[x].alias = m[x].alias,
         w[t].builds[b] = "waiting",
         \A y \in BuildIds : y # b => w[t].builds[y] = m[t].builds[y],
         \A x \in DOMAIN m \ {t} : w[x] = m[x]
  PROVE  /\ NamesIn(w) = NamesIn(m)
         /\ BuildsIn(w) = BuildsIn(m) \cup {<<t, b>>}
         /\ OutcomesIn(w) = OutcomesIn(m)
<1>1. NamesIn(w) = NamesIn(m)
  BY DEF NamesIn
<1>2. BuildsIn(w) = BuildsIn(m) \cup {<<t, b>>}
  <2>1. Recorded(w[t], b)
    BY DEF Recorded
  <2>2. ASSUME NEW x \in DOMAIN m, NEW y \in BuildIds
        PROVE  Recorded(w[x], y) <=> Recorded(m[x], y) \/ <<x, y>> = <<t, b>>
    BY <2>1 DEF Recorded
  <2> QED
    BY <2>2 DEF BuildsIn
<1>3. OutcomesIn(w) = OutcomesIn(m)
  <2>1. ~IsTerminal(w[t].builds[b])
    BY DEF IsTerminal
  <2>2. ASSUME NEW x \in DOMAIN m, NEW y \in BuildIds, <<x, y>> # <<t, b>>
        PROVE  w[x].builds[y] = m[x].builds[y]
    BY <2>2
  <2>3. <<t, b>> \notin BuildsIn(m)
    BY DEF BuildsIn
  <2> QED
    BY <1>2, <2>1, <2>2, <2>3, BuildsInPairs DEF OutcomesIn
<1> QED
  BY <1>1, <1>2, <1>3

-----------------------------------------------------------------------------
(* The steps of the catalog, by what a step does to the store.              *)

FoundNow == {<<aliases[n], n>> : n \in DOMAIN aliases}

(* Nothing the catalog is read off has changed.                             *)
LEMMA CatalogUntouched ==
  ASSUME CatalogInv, StoreUnchanged, UNCHANGED <<up, issued, deleted>>
  PROVE  CatalogInv' /\ CatalogStep
<1>1. /\ memory' = memory /\ aliases' = aliases /\ disk' = disk
      /\ minted' = minted /\ up' = up /\ issued' = issued /\ deleted' = deleted
  BY DEF StoreUnchanged
<1>2. CatalogInv'
  BY <1>1 DEF CatalogInv, SameCatalog, RecordedAreMinted
<1>3. UNCHANGED Catalog!vars
  BY <1>1 DEF Catalog!vars
<1> QED
  BY <1>2, <1>3 DEF CatalogStep

(* Records have changed but neither names nor builds: what a flush has      *)
(* brought to the file are outcomes.                                        *)
LEMMA CatalogKept ==
  ASSUME CatalogInv, up, UNCHANGED <<up, aliases, minted, issued, deleted>>,
         disk' = disk \/ disk' = memory',
         NamesIn(memory') = NamesIn(memory),
         BuildsIn(memory') = BuildsIn(memory),
         OutcomesIn(memory) \subseteq OutcomesIn(memory')
  PROVE  CatalogInv' /\ CatalogStep
<1>1. /\ NamesIn(memory) = NamesIn(disk) /\ BuildsIn(memory) = BuildsIn(disk)
      /\ OutcomesIn(disk) \subseteq OutcomesIn(memory)
  BY DEF CatalogInv, SameCatalog
<1>2. /\ NamesIn(disk') = NamesIn(disk) /\ BuildsIn(disk') = BuildsIn(disk)
      /\ OutcomesIn(disk) \subseteq OutcomesIn(disk')
      /\ OutcomesIn(disk') \subseteq OutcomesIn(memory')
  BY <1>1
<1>3. CatalogInv'
  BY <1>1, <1>2 DEF CatalogInv, SameCatalog, RecordedAreMinted
<1>4. OutcomesIn(disk') \subseteq BuildsIn(disk)
  BY <1>2, BuildsInPairs
<1>5. Catalog!Otherwise
  BY <1>2 DEF Catalog!Otherwise
<1>6. Catalog!OutcomesStay
  BY <1>2, <1>4 DEF Catalog!OutcomesStay
<1>7. Catalog!Serve
  BY <1>5, <1>6 DEF Catalog!Serve
<1> QED
  BY <1>3, <1>7 DEF CatalogStep, Catalog!Next

(* The file is what memory has become, so they agree.                       *)
LEMMA CatalogFlushed ==
  ASSUME disk' = memory', \A pair \in BuildsIn(memory') : pair[2] \in minted'
  PROVE  CatalogInv'
BY DEF CatalogInv, SameCatalog, RecordedAreMinted

LEMMA FoundIsListed ==
  ASSUME AliasesAgree, up, SameCatalog
  PROVE  FoundNow = NamesIn(disk)
<1>1. FoundNow = NamesIn(memory)
  BY FoundIsNames DEF AliasesAgree, FoundNow
<1> QED
  BY <1>1 DEF SameCatalog

LEMMA FoundIsListedNext ==
  ASSUME AliasesAgree', up', SameCatalog'
  PROVE  FoundNow' = NamesIn(disk')
<1>1. FoundNow' = NamesIn(memory')
  BY FoundIsNames DEF AliasesAgree, FoundNow
<1> QED
  BY <1>1 DEF SameCatalog

-----------------------------------------------------------------------------
(* One lemma per action of TemplateBuilds that is more than a stutter.      *)

LEMMA CreateTemplateStep ==
  ASSUME TemplatesInv, TemplatesInv', CatalogInv,
         NEW c \in Callers, CreateTemplate(c)
  PROVE  CatalogInv' /\ CatalogStep
<1> USE DEF processVars, historyVars
<1>1. up /\ UNCHANGED <<up, issued, deleted>>
  BY DEF CreateTemplate
<1>2. CASE UNCHANGED storeVars
  BY <1>1, <1>2, CatalogUntouched DEF storeVars, StoreUnchanged
<1>3. /\ StoreTypeOK /\ DOMAIN memory \subseteq minted
      /\ AliasesAgree /\ AliasesAgree' /\ SameCatalog
  BY DEF TemplatesInv, MemoryInv, CoreTypeOK, OnlyMinted, CatalogInv
<1>4. ASSUME NEW n \in Names, NEW t \in TemplateIds \ minted,
             Create(t, n, FALSE)
      PROVE  CatalogInv' /\ CatalogStep
  <2>1. StoreUnchanged
    BY <1>3, <1>4, CreateOp
  <2> QED
    BY <1>1, <2>1, CatalogUntouched
<1>5. ASSUME NEW n \in Names, NEW t \in TemplateIds \ minted,
             Create(t, n, TRUE)
      PROVE  CatalogInv' /\ CatalogStep
  <2>1. /\ n \notin DOMAIN aliases
        /\ disk' = memory' /\ minted' = minted \cup {t}
        /\ DOMAIN memory' = DOMAIN memory \cup {t}
        /\ memory'[t] = NewTemplate(n)
        /\ \A x \in DOMAIN memory : x # t /\ memory'[x] = memory[x]
    BY <1>5, <1>3, CreateOp
  <2>2. /\ memory'[t].alias = n
        /\ \A b \in BuildIds : ~Recorded(memory'[t], b)
    BY <2>1, NewTemplateType DEF Recorded, NoBuilds
  <2>3. /\ NamesIn(memory') = NamesIn(memory) \cup {<<t, n>>}
        /\ BuildsIn(memory') = BuildsIn(memory)
        /\ OutcomesIn(memory') = OutcomesIn(memory)
    BY <2>1, <2>2, AddedTemplate
  <2>4. /\ NamesIn(disk') = NamesIn(disk) \cup {<<t, n>>}
        /\ BuildsIn(disk') = BuildsIn(disk)
        /\ OutcomesIn(disk) \subseteq OutcomesIn(disk')
    BY <1>1, <1>3, <2>1, <2>3 DEF SameCatalog
  <2>5. CatalogInv'
    BY <2>1, <2>4, CatalogFlushed DEF CatalogInv, RecordedAreMinted
  <2>6. FoundNow = NamesIn(disk) /\ FoundNow' = NamesIn(disk')
    BY <1>1, <1>3, <2>5, FoundIsListed, FoundIsListedNext DEF CatalogInv
  <2>7. \A pair \in NamesIn(disk) : pair[2] # n
    BY <1>1, <1>3, <2>1 DEF SameCatalog, NamesIn, AliasesAgree
  <2>8. Catalog!Create(t, n)
    BY <1>1, <2>1, <2>4, <2>6, <2>7 DEF Catalog!Create, FoundNow
  <2>9. Catalog!OutcomesStay
    BY <2>4, BuildsInPairs DEF Catalog!OutcomesStay
  <2>10. Catalog!Serve
    BY <1>1, <1>5, <2>8, <2>9 DEF Catalog!Serve
  <2> QED
    BY <2>5, <2>10 DEF CatalogStep, Catalog!Next
<1> QED
  BY <1>2, <1>4, <1>5 DEF CreateTemplate

LEMMA RecordBuildStep ==
  ASSUME TemplatesInv, TemplatesInv', CatalogInv,
         NEW c \in Callers, RecordBuild(c)
  PROVE  CatalogInv' /\ CatalogStep
<1> USE DEF processVars
<1> DEFINE t == request[c].template
<1>1. /\ request[c].at = "append" /\ UNCHANGED <<up, deleted>>
      /\ StoreTypeOK /\ request[c] \in Requests
  BY DEF RecordBuild, TemplatesInv, CoreTypeOK
<1>2. up
  BY <1>1, RequestKinds DEF TemplatesInv, NothingWhileDown
<1>3. CASE UNCHANGED <<storeVars, issued>>
  BY <1>1, <1>3, CatalogUntouched DEF storeVars, StoreUnchanged
<1>4. ASSUME t \in DOMAIN memory, NEW b \in BuildIds \ minted,
             AppendBuild(t, b, FALSE), issued' = issued
      PROVE  CatalogInv' /\ CatalogStep
  <2>1. StoreUnchanged
    BY <1>1, <1>4, AppendOp
  <2> QED
    BY <1>1, <1>4, <2>1, CatalogUntouched
<1>5. ASSUME t \in DOMAIN memory, NEW b \in BuildIds \ minted,
             AppendBuild(t, b, TRUE), issued' = issued \cup {<<t, b>>}
      PROVE  CatalogInv' /\ CatalogStep
  <2> HIDE DEF t
  <2>1. /\ t \in TemplateIds /\ memory[t] \in TemplateRecords
        /\ AliasesAgree /\ AliasesAgree' /\ SameCatalog /\ RecordedAreMinted
    BY <1>1, <1>5
    DEF TemplatesInv, MemoryInv, CoreTypeOK, StoreTypeOK, CatalogInv
  <2>2. /\ disk' = memory' /\ minted' = minted \cup {b} /\ aliases' = aliases
        /\ DOMAIN memory' = DOMAIN memory
        /\ memory'[t].alias = memory[t].alias
        /\ memory'[t].builds[b] = "waiting"
        /\ \A y \in BuildIds \cup {SeedBuild} :
             y # b => memory'[t].builds[y] = memory[t].builds[y]
        /\ \A x \in DOMAIN memory : x # t => memory'[x] = memory[x]
    BY <1>1, <1>5, AppendOp
  <2>3. ~Recorded(memory[t], b)
    <3>1. <<t, b>> \notin BuildsIn(disk)
      BY <1>5, <2>1 DEF RecordedAreMinted
    <3> QED
      BY <1>2, <1>5, <2>1, <3>1, BuildsInFacts DEF SameCatalog
  <2>4. /\ NamesIn(memory') = NamesIn(memory)
        /\ BuildsIn(memory') = BuildsIn(memory) \cup {<<t, b>>}
        /\ OutcomesIn(memory') = OutcomesIn(memory)
    BY <1>5, <2>2, <2>3, AddedBuild
  <2>5. /\ NamesIn(disk') = NamesIn(disk)
        /\ BuildsIn(disk') = BuildsIn(disk) \cup {<<t, b>>}
        /\ OutcomesIn(disk) \subseteq OutcomesIn(disk')
        /\ OutcomesIn(disk') \subseteq BuildsIn(disk)
    BY <1>2, <2>1, <2>2, <2>4, BuildsInPairs DEF SameCatalog
  <2>6. CatalogInv'
    BY <2>1, <2>2, <2>5, CatalogFlushed DEF RecordedAreMinted
  <2>7. \E n \in Names : <<t, n>> \in NamesIn(disk)
    BY <1>2, <1>5, <2>1, NamesInFacts DEF SameCatalog, TemplateRecords
  <2>8. Catalog!Record(t, b)
    BY <1>1, <1>5, <2>2, <2>5, <2>7 DEF Catalog!Record
  <2>9. Catalog!OutcomesStay
    BY <2>5 DEF Catalog!OutcomesStay
  <2>10. Catalog!Serve
    BY <1>1, <1>2, <1>5, <2>1, <2>8, <2>9 DEF Catalog!Serve
  <2> QED
    BY <2>6, <2>10 DEF CatalogStep, Catalog!Next
<1> QED
  BY <1>3, <1>4, <1>5 DEF RecordBuild

LEMMA DeleteTemplateStep ==
  ASSUME TemplatesInv, TemplatesInv', CatalogInv, DeleteTemplate
  PROVE  CatalogInv' /\ CatalogStep
<1> USE DEF processVars
<1>1. /\ up /\ UNCHANGED <<up, issued>>
      /\ StoreTypeOK /\ AliasesAgree /\ AliasesAgree'
      /\ SameCatalog /\ RecordedAreMinted
  BY DEF DeleteTemplate, TemplatesInv, CoreTypeOK, MemoryInv, CatalogInv
<1>2. ASSUME NEW t \in DOMAIN memory, Delete(t, FALSE), deleted' = deleted
      PROVE  CatalogInv' /\ CatalogStep
  <2>1. StoreUnchanged
    BY <1>1, <1>2, DeleteOp
  <2> QED
    BY <1>1, <1>2, <2>1, CatalogUntouched
<1>3. ASSUME NEW t \in DOMAIN memory, Delete(t, TRUE),
             deleted' = deleted \cup {t}
      PROVE  CatalogInv' /\ CatalogStep
  <2>1. /\ disk' = memory' /\ minted' = minted
        /\ DOMAIN memory' = DOMAIN memory \ {t}
        /\ \A x \in DOMAIN memory' : memory'[x] = memory[x]
    BY <1>1, <1>3, DeleteOp
  <2>2. \A pair :
          /\ pair \in NamesIn(memory') <=> pair \in NamesIn(memory) /\ pair[1] # t
          /\ pair \in BuildsIn(memory') <=>
               pair \in BuildsIn(memory) /\ pair[1] # t
          /\ pair \in OutcomesIn(memory') <=>
               pair \in OutcomesIn(memory) /\ pair[1] # t
    BY <2>1, RemovedTemplate
  <2>3. /\ NamesIn(disk') = {pair \in NamesIn(disk) : pair[1] # t}
        /\ BuildsIn(disk') = {pair \in BuildsIn(disk) : pair[1] # t}
        /\ OutcomesIn(disk) \cap BuildsIn(disk') \subseteq OutcomesIn(disk')
        /\ OutcomesIn(disk') \subseteq BuildsIn(disk) \cap BuildsIn(disk')
    BY <1>1, <2>1, <2>2, BuildsInPairs DEF SameCatalog
  <2>4. CatalogInv'
    BY <1>1, <2>1, <2>3, CatalogFlushed DEF RecordedAreMinted
  <2>5. FoundNow = NamesIn(disk) /\ FoundNow' = NamesIn(disk')
    BY <1>1, <2>4, FoundIsListed, FoundIsListedNext DEF CatalogInv
  <2>6. /\ t \in TemplateIds
        /\ \E n \in Names : <<t, n>> \in NamesIn(disk)
    BY <1>1, NamesInFacts DEF SameCatalog, StoreTypeOK, TemplateRecords
  <2>7. Catalog!Remove(t)
    BY <1>1, <1>3, <2>1, <2>3, <2>5, <2>6 DEF Catalog!Remove, FoundNow
  <2>8. Catalog!OutcomesStay
    BY <2>3 DEF Catalog!OutcomesStay
  <2>9. Catalog!Serve
    BY <1>1, <2>6, <2>7, <2>8 DEF Catalog!Serve
  <2> QED
    BY <2>4, <2>9 DEF CatalogStep, Catalog!Next
<1> QED
  BY <1>2, <1>3 DEF DeleteTemplate

(* UpdateMeta changes neither the name nor the builds of a template.        *)
LEMMA MetaStep ==
  ASSUME TemplatesInv, CatalogInv, up, UNCHANGED <<up, issued, deleted>>,
         NEW t \in DOMAIN memory, NEW image \in {"none", "builtin", "user"},
         NEW commands \in [Commands -> BuildIds \cup {SeedBuild, NoBuild}],
         NEW ok \in BOOLEAN, UpdateMeta(t, image, commands, ok)
  PROVE  CatalogInv' /\ CatalogStep
<1>1. /\ aliases' = aliases /\ minted' = minted
      /\ DOMAIN memory' = DOMAIN memory
      /\ memory'[t].alias = memory[t].alias
      /\ memory'[t].builds = memory[t].builds
      /\ \A x \in DOMAIN memory : x # t => memory'[x] = memory[x]
  BY MetaOp DEF TemplatesInv, CoreTypeOK
<1>2. disk' = disk \/ disk' = memory'
  BY DEF UpdateMeta, FlushOrKeep, Flush
<1>3. \A x \in DOMAIN memory : /\ memory'[x].alias = memory[x].alias
                               /\ memory'[x].builds = memory[x].builds
  BY <1>1
<1>4. /\ NamesIn(memory') = NamesIn(memory)
      /\ BuildsIn(memory') = BuildsIn(memory)
      /\ OutcomesIn(memory) \subseteq OutcomesIn(memory')
  BY <1>1, <1>3, EqualMaps DEF Recorded
<1> QED
  BY <1>1, <1>2, <1>4, CatalogKept

LEMMA PatchTemplateStep ==
  ASSUME TemplatesInv, CatalogInv, PatchTemplate
  PROVE  CatalogInv' /\ CatalogStep
<1> USE DEF processVars, historyVars
<1>1. up /\ UNCHANGED <<up, issued, deleted>>
  BY DEF PatchTemplate
<1>2. PICK t \in DOMAIN memory, ok \in BOOLEAN :
        UpdateMeta(t, memory[t].image, memory[t].commands, ok)
  BY DEF PatchTemplate
<1>3. /\ memory[t].image \in {"none", "builtin", "user"}
      /\ memory[t].commands \in [Commands -> BuildIds \cup {SeedBuild, NoBuild}]
  BY DEF TemplatesInv, CoreTypeOK, StoreTypeOK, TemplateRecords
<1> QED
  BY <1>1, <1>2, <1>3, MetaStep

LEMMA SetImageTagStep ==
  ASSUME TemplatesInv, CatalogInv, NEW c \in Callers, SetImageTag(c)
  PROVE  CatalogInv' /\ CatalogStep
<1> USE DEF processVars, historyVars
<1> DEFINE t == request[c].template
           b == request[c].build
<1>1. /\ request[c].at = "updateMeta" /\ UNCHANGED <<up, issued, deleted>>
      /\ request[c] \in Requests
  BY DEF SetImageTag, TemplatesInv, CoreTypeOK
<1>2. up /\ b \in BuildIds
  BY <1>1, RequestKinds, RequestParts DEF TemplatesInv, NothingWhileDown
<1>3. CASE UNCHANGED storeVars
  BY <1>1, <1>3, CatalogUntouched DEF storeVars, StoreUnchanged
<1>4. ASSUME t \in DOMAIN memory, NEW ok \in BOOLEAN, NEW brings \in SUBSET Commands,
             UpdateMeta(t, "user", CommandsAfter(t, b, brings), ok)
      PROVE  CatalogInv' /\ CatalogStep
  <2>1. memory[t].commands \in [Commands -> BuildIds \cup {SeedBuild, NoBuild}]
    BY <1>4 DEF TemplatesInv, CoreTypeOK, StoreTypeOK, TemplateRecords
  <2>2. CommandsAfter(t, b, brings) \in [Commands -> BuildIds \cup {SeedBuild, NoBuild}]
    BY <1>2, <2>1 DEF CommandsAfter
  <2> QED
    BY <1>1, <1>2, <1>4, <2>2, MetaStep
<1> QED
  BY <1>3, <1>4 DEF SetImageTag

(* The end of a build is an outcome of a recorded build, in the file now or *)
(* with a later flush, or nothing when the build is not recorded any more.  *)
LEMMA FinishStep ==
  ASSUME TemplatesInv, CatalogInv, NEW b \in BuildIds, Finish(b)
  PROVE  CatalogInv' /\ CatalogStep
<1> USE DEF processVars, historyVars
<1> DEFINE t == builds[b].template
<1>1. UNCHANGED <<up, issued, deleted>>
  BY DEF Finish
<1>2. PICK at, status :
        /\ status \in {"ready", "error"} /\ Completed(b, at, status)
        /\ \E ok \in BOOLEAN : UpdateBuild(t, b, status, ok)
  BY DEF Finish
<1>3. b \in DOMAIN builds
  BY <1>2 DEF Completed
<1>4. /\ up /\ t \in TemplateIds /\ StoreTypeOK /\ status \in BuildStatus
      /\ IsTerminal(status)
  BY <1>2, <1>3, EmptyDomain
  DEF TemplatesInv, NothingWhileDown, CoreTypeOK, BuildTypeOK, BuildRecords,
      BuildStatus, IsTerminal
<1> HIDE DEF t
<1>5. CASE ~(t \in DOMAIN memory /\ Recorded(memory[t], b))
  <2>1. StoreUnchanged
    BY <1>2, <1>5 DEF UpdateBuild, storeVars, StoreUnchanged
  <2> QED
    BY <1>1, <2>1, CatalogUntouched
<1>6. CASE t \in DOMAIN memory /\ Recorded(memory[t], b)
  <2>1. CASE StoreUnchanged
    BY <1>1, <2>1, CatalogUntouched
  <2>2. CASE ~StoreUnchanged
    <3>1. /\ aliases' = aliases /\ minted' = minted
          /\ disk' = disk \/ disk' = memory'
          /\ DOMAIN memory' = DOMAIN memory
          /\ memory'[t].alias = memory[t].alias
          /\ memory'[t].builds[b] = status
          /\ \A y \in BuildIds \cup {SeedBuild} :
               y # b => memory'[t].builds[y] = memory[t].builds[y]
          /\ \A x \in DOMAIN memory : x # t => memory'[x] = memory[x]
      BY <1>2, <1>4, <2>2, UpdateBuildOp
    <3>2. \A x \in DOMAIN memory : memory'[x].alias = memory[x].alias
      BY <3>1
    <3>3. ASSUME NEW x \in DOMAIN memory, NEW y \in BuildIds
          PROVE  /\ Recorded(memory'[x], y) <=> Recorded(memory[x], y)
                 /\ IsTerminal(memory[x].builds[y]) =>
                      IsTerminal(memory'[x].builds[y])
      <4>1. CASE x = t /\ y = b
        BY <1>4, <1>6, <3>1, <4>1 DEF Recorded, BuildStatus
      <4>2. CASE ~(x = t /\ y = b)
        <5>1. memory'[x].builds[y] = memory[x].builds[y]
          BY <3>1, <4>2
        <5> QED
          BY <5>1 DEF Recorded
      <4> QED
        BY <4>1, <4>2
    <3>4. /\ NamesIn(memory') = NamesIn(memory)
          /\ BuildsIn(memory') = BuildsIn(memory)
          /\ OutcomesIn(memory) \subseteq OutcomesIn(memory')
      BY <3>1, <3>2, <3>3, EqualMaps
    <3> QED
      BY <1>1, <1>4, <3>1, <3>4, CatalogKept
  <2> QED
    BY <2>1, <2>2
<1> QED
  BY <1>5, <1>6

(* What a lookup finds is lost with memory, what was written is not. *)
LEMMA CrashStep ==
  ASSUME CatalogInv, Crash
  PROVE  CatalogInv' /\ CatalogStep
<1>1. /\ up /\ up' = FALSE /\ aliases' = Empty
      /\ UNCHANGED <<disk, minted, issued, deleted>>
  BY DEF Crash, historyVars
<1>2. CatalogInv'
  BY <1>1 DEF CatalogInv, SameCatalog, RecordedAreMinted
<1>3. FoundNow' = {}
  BY <1>1, EmptyDomain DEF FoundNow
<1>4. Catalog!Close
  BY <1>1, <1>3 DEF Catalog!Close, FoundNow
<1> QED
  BY <1>2, <1>4 DEF CatalogStep, Catalog!Next

(* There is always a builtin template after seeding. *)
LEMMA SeededHasBuiltin ==
  ASSUME NEW m, NEW t, \A x \in DOMAIN m : m[x] \in TemplateRecords
  PROVE  \E x \in DOMAIN Seeded(m, t) : Seeded(m, t)[x].alias = BuiltinName
<1> DEFINE holder == {x \in DOMAIN m : m[x].alias = BuiltinName}
<1>1. CASE holder # {}
  <2>1. PICK x \in DOMAIN m : m[x].alias = BuiltinName
    BY <1>1
  <2>2. /\ Seeded(m, t)[x] = [m[x] EXCEPT !.image = "builtin",
                                        !.commands = Of(SeedBuild)]
        /\ DOMAIN Seeded(m, t) = DOMAIN m
    BY <1>1, <2>1 DEF Seeded
  <2>3. Seeded(m, t)[x].alias = m[x].alias
    BY <2>2 DEF TemplateRecords
  <2> QED
    BY <2>1, <2>2, <2>3
<1>2. CASE holder = {}
  BY <1>2 DEF Seeded, With
<1> QED
  BY <1>1, <1>2

(* Seeding adds at most the builtin template, under an id of its own, and   *)
(* the index is the names of the file again.                                *)
LEMMA RestartStep ==
  ASSUME TemplatesInv, TemplatesInv', CatalogInv, Restart
  PROVE  CatalogInv' /\ CatalogStep
<1>1. ~up /\ up' = TRUE /\ UNCHANGED <<issued, deleted>>
  BY DEF Restart, historyVars
<1>2. PICK t \in TemplateIds :
        /\ t \in minted => BuiltinName \in {disk[x].alias : x \in DOMAIN disk}
        /\ LoadAndSeed(t)
  BY DEF Restart
<1>3. /\ StoreTypeOK /\ AliasesAgree' /\ DOMAIN disk \subseteq minted
      /\ t \in DOMAIN disk => \E x \in DOMAIN disk : disk[x].alias = BuiltinName
  BY <1>2 DEF TemplatesInv, MemoryInv, CoreTypeOK, OnlyMinted
<1>4. /\ memory' = Seeded(disk, t)
      /\ disk' = memory' /\ minted' = minted \cup DOMAIN memory'
  BY <1>2, <1>3, LoadOp
<1>5. PICK s : s = Seeded(disk, t)
  OBVIOUS
<1>6. /\ DOMAIN disk \subseteq DOMAIN s /\ DOMAIN s \subseteq DOMAIN disk \cup {t}
      /\ \A x \in DOMAIN disk :
           s[x].alias = disk[x].alias /\ s[x].builds = disk[x].builds
      /\ \A x \in DOMAIN s \ DOMAIN disk :
           /\ x = t /\ \A y \in DOMAIN disk : disk[y].alias # BuiltinName
           /\ s[x].alias = BuiltinName
           /\ \A b \in BuildIds : ~Recorded(s[x], b)
  BY <1>3, <1>5, SeededFacts DEF StoreTypeOK
<1>7. /\ NamesIn(disk') = NamesIn(s) /\ BuildsIn(disk') = BuildsIn(s)
      /\ OutcomesIn(disk') = OutcomesIn(s) /\ minted' = minted \cup DOMAIN s
  BY <1>4, <1>5
<1>8. /\ BuildsIn(s) = BuildsIn(disk) /\ OutcomesIn(s) = OutcomesIn(disk)
      /\ IF \E x \in DOMAIN disk : disk[x].alias = BuiltinName
           THEN DOMAIN s = DOMAIN disk /\ NamesIn(s) = NamesIn(disk)
           ELSE /\ t \notin minted /\ DOMAIN s = DOMAIN disk \cup {t}
                /\ NamesIn(s) = NamesIn(disk) \cup {<<t, BuiltinName>>}
  <2>1. CASE DOMAIN s = DOMAIN disk
    <3>1. /\ NamesIn(s) = NamesIn(disk) /\ BuildsIn(s) = BuildsIn(disk)
      BY <1>6, <2>1, EqualMaps DEF Recorded
    <3>2. OutcomesIn(s) = OutcomesIn(disk)
      BY <1>6, <3>1, BuildsInPairs DEF OutcomesIn
    <3>3. \E x \in DOMAIN disk : disk[x].alias = BuiltinName
      <4>1. PICK x \in DOMAIN s : s[x].alias = BuiltinName
        BY <1>3, <1>5, SeededHasBuiltin DEF StoreTypeOK
      <4> QED
        BY <1>6, <2>1, <4>1
    <3> QED
      BY <2>1, <3>1, <3>2, <3>3
  <2>2. CASE t \in DOMAIN s \ DOMAIN disk
    <3>1. /\ DOMAIN s = DOMAIN disk \cup {t} /\ s[t].alias = BuiltinName
          /\ \A b \in BuildIds : ~Recorded(s[t], b)
          /\ \A y \in DOMAIN disk : disk[y].alias # BuiltinName
      BY <1>6, <2>2
    <3>2. /\ NamesIn(s) = NamesIn(disk) \cup {<<t, BuiltinName>>}
          /\ BuildsIn(s) = BuildsIn(disk) /\ OutcomesIn(s) = OutcomesIn(disk)
      BY <1>6, <2>2, <3>1, AddedTemplate
    <3>3. t \notin minted
      BY <1>2, <3>1
    <3> QED
      BY <3>1, <3>2, <3>3
  <2> QED
    BY <1>6, <2>1, <2>2
<1>9. CatalogInv'
  <2>1. \A pair \in BuildsIn(disk') : pair[2] \in minted'
    BY <1>7, <1>8 DEF CatalogInv, RecordedAreMinted
  <2> QED
    BY <1>4, <1>7, <2>1, CatalogFlushed
<1>10. FoundNow' = NamesIn(disk')
  BY <1>1, <1>3, <1>9, FoundIsListedNext DEF CatalogInv
<1>11. (\E pair \in NamesIn(disk) : pair[2] = BuiltinName) <=>
         \E x \in DOMAIN disk : disk[x].alias = BuiltinName
  <2>1. ASSUME NEW x \in DOMAIN disk, disk[x].alias = BuiltinName
        PROVE  \E pair \in NamesIn(disk) : pair[2] = BuiltinName
    <3>1. <<x, BuiltinName>> \in NamesIn(disk)
      BY <2>1, NamesInFacts
    <3> QED
      BY <3>1
  <2>2. ASSUME NEW pair \in NamesIn(disk), pair[2] = BuiltinName
        PROVE  \E x \in DOMAIN disk : disk[x].alias = BuiltinName
    BY <2>2 DEF NamesIn
  <2> QED
    BY <2>1, <2>2
<1>12. Catalog!Open
  <2>1. CASE \E x \in DOMAIN disk : disk[x].alias = BuiltinName
    <3>1. NamesIn(disk') = NamesIn(disk) /\ minted' = minted
      BY <1>3, <1>7, <1>8, <2>1
    <3> QED
      BY <1>1, <1>7, <1>8, <1>10, <1>11, <2>1, <3>1 DEF Catalog!Open, FoundNow
  <2>2. CASE ~\E x \in DOMAIN disk : disk[x].alias = BuiltinName
    <3>1. /\ t \in TemplateIds \ minted /\ minted' = minted \cup {t}
          /\ NamesIn(disk') = NamesIn(disk) \cup {<<t, BuiltinName>>}
      BY <1>2, <1>3, <1>7, <1>8, <2>2
    <3> QED
      BY <1>1, <1>7, <1>8, <1>10, <1>11, <2>2, <3>1 DEF Catalog!Open, FoundNow
  <2> QED
    BY <2>1, <2>2
<1> QED
  BY <1>9, <1>12 DEF CatalogStep, Catalog!Next

(* Starting a build hands out its id, if it was not handed out before.      *)
LEMMA StartBuildStep ==
  ASSUME CatalogInv, NEW c \in Callers, StartBuild(c)
  PROVE  CatalogInv' /\ CatalogStep
<1>1. /\ up /\ UNCHANGED <<up, memory, aliases, disk, issued, deleted>>
  BY DEF StartBuild, processVars, historyVars
<1>2. PICK b \in BuildIds : minted' = minted \cup {b}
  BY DEF StartBuild
<1>3. CatalogInv'
  BY <1>1, <1>2 DEF CatalogInv, SameCatalog, RecordedAreMinted
<1>4. OutcomesIn(disk) \subseteq BuildsIn(disk)
  BY BuildsInPairs
<1>5. Catalog!MakeUp(b) /\ Catalog!OutcomesStay
  BY <1>1, <1>2, <1>4 DEF Catalog!MakeUp, Catalog!OutcomesStay
<1> QED
  BY <1>1, <1>3, <1>5 DEF CatalogStep, Catalog!Next, Catalog!Serve

(* What is left touches neither the store nor what was answered. *)
LEMMA OtherSteps ==
  ASSUME CatalogInv,
         \/ \E c \in Callers :
              ResolveExisting(c) \/ Enqueue(c)
         \/ \E b \in BuildIds :
              RunStep(b) /\ UNCHANGED <<storeVars, processVars, historyVars>>
         \/ \E r \in Readers : PollStatus(r) \/ PollLogs(r)
         \/ UNCHANGED vars
  PROVE  CatalogInv' /\ CatalogStep
<1>1. UNCHANGED <<storeVars, processVars, issued, deleted>>
  BY DEF ResolveExisting, Enqueue, PollStatus, PollLogs, vars, historyVars
<1> QED
  BY <1>1, CatalogUntouched DEF storeVars, processVars, StoreUnchanged

LEMMA NextCatalog ==
  ASSUME TemplatesInv, CatalogInv, [Next]_vars
  PROVE  CatalogInv' /\ CatalogStep
<1>1. TemplatesInv'
  BY NextInv
<1>2. ASSUME NEW c \in Callers,
             \/ CreateTemplate(c) \/ ResolveExisting(c) \/ RecordBuild(c)
             \/ StartBuild(c) \/ SetImageTag(c) \/ Enqueue(c)
      PROVE  CatalogInv' /\ CatalogStep
  BY <1>1, <1>2, CreateTemplateStep, RecordBuildStep, StartBuildStep,
     SetImageTagStep, OtherSteps
<1>3. ASSUME NEW b \in BuildIds, Runs(b)
      PROVE  CatalogInv' /\ CatalogStep
  BY <1>3, FinishStep, OtherSteps DEF Runs
<1>4. ASSUME NEW r \in Readers, PollStatus(r) \/ PollLogs(r)
      PROVE  CatalogInv' /\ CatalogStep
  BY <1>4, OtherSteps
<1>5. CASE UNCHANGED vars
  BY <1>5, OtherSteps
<1> QED
  BY <1>1, <1>2, <1>3, <1>4, <1>5, DeleteTemplateStep, PatchTemplateStep,
     CrashStep, RestartStep DEF Next

LEMMA InitCatalog ==
  ASSUME Init
  PROVE  CatalogInv /\ Catalog!Init
<1>1. up = TRUE /\ issued = {} /\ deleted = {} /\ AliasesAgree
  BY InitInv DEF Init, TemplatesInv, MemoryInv
<1>2. PICK t \in TemplateIds :
        /\ memory = Seeded(Empty, t) /\ disk = memory /\ minted = {t}
  BY DEF Init, StoreInit
<1>3. PICK s : s = Seeded(Empty, t)
  OBVIOUS
<1>4. /\ DOMAIN s \subseteq {t}
      /\ \A x \in DOMAIN s : /\ s[x].alias = BuiltinName
                             /\ \A b \in BuildIds : ~Recorded(s[x], b)
  BY <1>3, EmptyDomain, SeededFacts
<1>5. \E x \in DOMAIN s : s[x].alias = BuiltinName
  BY <1>3, EmptyDomain, SeededHasBuiltin
<1>6. NamesIn(s) = {<<t, BuiltinName>>}
  BY <1>4, <1>5 DEF NamesIn
<1>7. BuildsIn(s) = {} /\ OutcomesIn(s) = {}
  BY <1>4 DEF BuildsIn, OutcomesIn
<1>8. /\ NamesIn(disk) = {<<t, BuiltinName>>}
      /\ BuildsIn(disk) = {} /\ OutcomesIn(disk) = {}
  BY <1>2, <1>3, <1>6, <1>7
<1>9. CatalogInv
  BY <1>2, <1>8 DEF CatalogInv, SameCatalog, RecordedAreMinted
<1>10. FoundNow = NamesIn(disk)
  BY <1>1, <1>9, FoundIsListed DEF CatalogInv
<1>11. Catalog!Init
  BY <1>1, <1>2, <1>8, <1>10 DEF Catalog!Init, FoundNow
<1> QED
  BY <1>9, <1>11

(* Memory and file name the same templates and the same builds at all       *)
(* times: what a failed flush keeps in memory is never a name or a build    *)
(* (the rollbacks in store.go:232, 319 and 373).                            *)
LEMMA CatalogInvariant == Spec => []CatalogInv
<1>1. Init => CatalogInv
  BY InitCatalog
<1>2. TemplatesInv /\ CatalogInv /\ [Next]_vars => CatalogInv'
  BY NextCatalog
<1> QED
  BY <1>1, <1>2, TemplatesInvariant, PTL DEF Spec

(* The template store with its map, index and file, the handlers that write *)
(* through it and the report of builds, with flushes that fail at any time  *)
(* and a process that dies at any time, implement the catalog a client may  *)
(* rely on: each step is one whole operation of it or invisible             *)
(* (every operation of store.go, from load to UpdateBuild).                 *)
THEOREM BuildsImplementCatalog == Spec => CatalogImplemented
<1>1. Init => Catalog!Init
  BY InitCatalog
<1>2. TemplatesInv /\ CatalogInv /\ [Next]_vars => [Catalog!Next]_(Catalog!vars)
  BY NextCatalog DEF CatalogStep
<1> QED
  BY <1>1, <1>2, TemplatesInvariant, CatalogInvariant, PTL
  DEF Spec, CatalogImplemented, Catalog!Spec
=============================================================================
