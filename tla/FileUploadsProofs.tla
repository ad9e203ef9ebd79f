-------------------------- MODULE FileUploadsProofs --------------------------
(***************************************************************************)
(* FileUploads keeps its promises for any number of hashes, uploads,       *)
(* builds, links and crashes, and for blobs of any size.                   *)
(***************************************************************************)
EXTENDS FileUploads, TLAPS

(* A copy that is being made: none of its source yet, or a part of it.      *)
Partial(copy, source) ==
  /\ copy.chunks < Chunks
  /\ copy = Nothing \/ copy.from = source

(* The .part file of a Put holds what its own client has sent so far.       *)
PartsAreOwn ==
  \A u \in Uploaders :
    /\ upload[u].at # "idle" => upload[u].hash \in Hashes
    /\ upload[u].at = "write" =>
         /\ Partial(upload[u].part, upload[u].content)
         /\ \E c \in Contents : upload[u].content = {c}
    /\ upload[u].at = "rename" => Whole(upload[u].part)

(* What an executor extracts is a whole blob, and what it has extracted of  *)
(* it so far is all there is in the directory of that hash.                 *)
ExtractsWhole ==
  \A b \in BuildIds : build[b].at = "extract" =>
    /\ build[b].hash \in Hashes /\ build[b].hash \in build[b].todo
    /\ Whole(build[b].file)
    /\ Partial(staged[b][build[b].hash], build[b].file.from)

(* A directory with something in it holds one whole upload, or is being     *)
(* filled, or was left half way.                                            *)
StagedIsWhole ==
  \A b \in BuildIds, h \in Hashes : staged[b][h] # Nothing =>
    \/ Whole(staged[b][h])
    \/ <<b, h>> \in cut
    \/ build[b].at = "extract" /\ build[b].hash = h

(* What was left half way is not empty, and no executor of the process that *)
(* left it comes across it: there is none of that build any more.           *)
CutIsLeft ==
  \A b \in BuildIds, h \in Hashes : <<b, h>> \in cut =>
    /\ staged[b][h] # Nothing
    /\ secret = 0 => build[b].at \in {"clear", "done"}

(* The hashes an executor has done with are there.                          *)
DoneIsStaged ==
  \A b \in BuildIds :
    /\ build[b].at \in {"next", "extract", "docker"} =>
         \A h \in build[b].needs \ build[b].todo : staged[b][h] # Nothing
    /\ build[b].at = "docker" => build[b].todo = {}

(* What Sign has put into a link.                                           *)
LinksAreSigned ==
  \A link \in links : /\ link.expiry = Unix(link.signed + TTL)
                      /\ link.signed <= now

FilesInv ==
  /\ TypeOK
  /\ CachedIsWhole
  /\ PartsAreOwn
  /\ ExtractsWhole
  /\ StagedIsWhole
  /\ CutIsLeft
  /\ DoneIsStaged
  /\ LinksAreSigned

-----------------------------------------------------------------------------
LEMMA NothingType == Nothing \in Copies
  BY FilesAssumption DEF Nothing, Copies

LEMMA NoUploadType == NoUpload \in Uploads
  BY NothingType DEF NoUpload, Uploads

LEMMA NoBuildType == NoBuild \in Builds
  BY NothingType DEF NoBuild, Builds

LEMMA CopyType ==
  ASSUME NEW from \in SUBSET Contents, NEW n \in 0..Chunks
  PROVE  [from |-> from, chunks |-> n] \in Copies
  BY DEF Copies

(* One more chunk of a source: the copy is whole or still partial.          *)
LEMMA ExtendedCopy ==
  ASSUME NEW copy \in Copies, NEW c \in Contents, Partial(copy, {c}),
         NEW next, next = Extended(copy, {c})
  PROVE  /\ next \in Copies
         /\ next.from = {c}
         /\ next.chunks = copy.chunks + 1
         /\ next.chunks = Chunks => Whole(next)
         /\ next.chunks # Chunks => Partial(next, {c})
         /\ next # Nothing
  <1>1. copy.from \cup {c} = {c}
    BY DEF Partial, Nothing
  <1>2. /\ copy.chunks \in Nat /\ copy.chunks + 1 \in 0..Chunks
        /\ copy.chunks + 1 # 0
        /\ copy.chunks + 1 # Chunks => copy.chunks + 1 < Chunks
    BY FilesAssumption DEF Partial, Copies
  <1>3. next = [from |-> {c}, chunks |-> copy.chunks + 1]
    BY <1>1 DEF Extended
  <1>4. next.from = {c} /\ next.chunks = copy.chunks + 1
    BY <1>3
  <1>5. next \in Copies
    BY <1>2, <1>3, CopyType
  <1>6. next # Nothing
    BY <1>2, <1>4 DEF Nothing
  <1> QED
    BY <1>2, <1>4, <1>5, <1>6 DEF Whole, Partial

LEMMA WholeIsSomething ==
  ASSUME NEW copy, Whole(copy) PROVE copy # Nothing
  BY FilesAssumption DEF Whole, Nothing

LEMMA FilesInit == Init => FilesInv
  <1> SUFFICES ASSUME Init PROVE FilesInv
    OBVIOUS
  <1>1. TypeOK
    BY NothingType, NoUploadType, NoBuildType, FilesAssumption DEF Init, TypeOK
  <1>2. CachedIsWhole /\ LinksAreSigned
    BY DEF Init, CachedIsWhole, LinksAreSigned
  <1>3. PartsAreOwn /\ ExtractsWhole
    BY DEF Init, PartsAreOwn, ExtractsWhole, NoUpload, NoBuild
  <1>4. StagedIsWhole /\ CutIsLeft /\ DoneIsStaged
    BY DEF Init, StagedIsWhole, CutIsLeft, DoneIsStaged, NoBuild
  <1> QED
    BY <1>1, <1>2, <1>3, <1>4 DEF FilesInv

-----------------------------------------------------------------------------
(* Nothing but links, who asks for them and the clock changes.              *)
LEMMA LinksOnly ==
  ASSUME FilesInv, TypeOK', LinksAreSigned',
         UNCHANGED <<secret, cache, upload, build, staged, cut>>
  PROVE  FilesInv'
  BY DEF FilesInv, CachedIsWhole, PartsAreOwn, ExtractsWhole, StagedIsWhole,
         CutIsLeft, DoneIsStaged

LEMMA FindMissingInv == FilesInv /\ FindMissing => FilesInv'
  <1> SUFFICES ASSUME FilesInv, FindMissing PROVE FilesInv'
    OBVIOUS
  <1>1. UNCHANGED <<now, secret, links, cache, upload, build, staged, cut>>
    BY DEF FindMissing
  <1>2. asking' \subseteq Hashes
    BY DEF FindMissing, FilesInv, TypeOK
  <1>3. TypeOK'
    BY <1>1, <1>2 DEF FilesInv, TypeOK
  <1>4. LinksAreSigned'
    BY <1>1 DEF FilesInv, LinksAreSigned
  <1> QED
    BY <1>1, <1>3, <1>4, LinksOnly

LEMMA SignLinkInv == FilesInv /\ SignLink => FilesInv'
  <1> SUFFICES ASSUME FilesInv, SignLink PROVE FilesInv'
    OBVIOUS
  <1>1. PICK h \in Hashes : links' = links \cup {Sign(h)} /\ asking' \subseteq Hashes
    BY DEF SignLink, FilesInv, TypeOK
  <1>2. UNCHANGED <<now, secret, cache, upload, build, staged, cut>>
    BY DEF SignLink
  <1>3. now \in 0..MaxTime /\ secret \in 0..MaxCrashes
    BY DEF FilesInv, TypeOK
  <1>4. Unix(now + TTL) \in 0..(MaxTime + TTL)
    BY <1>3, FilesAssumption DEF Unix
  <1>5. Sign(h) \in Links
    BY <1>3, <1>4 DEF Sign, Links
  <1>6. TypeOK'
    BY <1>1, <1>2, <1>5 DEF FilesInv, TypeOK
  <1>7. LinksAreSigned'
    BY <1>1, <1>2, <1>3 DEF FilesInv, LinksAreSigned, Sign
  <1> QED
    BY <1>2, <1>6, <1>7, LinksOnly

LEMMA TickInv == FilesInv /\ Tick => FilesInv'
  <1> SUFFICES ASSUME FilesInv, Tick PROVE FilesInv'
    OBVIOUS
  <1>1. /\ now' = now + 1 /\ now < MaxTime
        /\ UNCHANGED <<secret, asking, links, cache, upload, build, staged, cut>>
    BY DEF Tick
  <1>2. now' \in 0..MaxTime
    BY <1>1, FilesAssumption DEF FilesInv, TypeOK
  <1>3. TypeOK'
    BY <1>1, <1>2 DEF FilesInv, TypeOK
  <1>4. LinksAreSigned'
    BY <1>1, FilesAssumption DEF FilesInv, TypeOK, LinksAreSigned, Links
  <1> QED
    BY <1>1, <1>3, <1>4, LinksOnly

(* An upload moves on; the cache may take its blob.                         *)
LEMMA UploadMoves ==
  ASSUME FilesInv, NEW u \in Uploaders, NEW next \in Uploads,
         upload' = [upload EXCEPT ![u] = next],
         next.at # "idle" => next.hash \in Hashes,
         next.at = "write" => /\ Partial(next.part, next.content)
                              /\ \E c \in Contents : next.content = {c},
         next.at = "rename" => Whole(next.part),
         cache' \in [Hashes -> Copies], CachedIsWhole',
         UNCHANGED <<now, secret, asking, links, build, staged, cut>>
  PROVE  FilesInv'
  <1>1. TypeOK'
    BY DEF FilesInv, TypeOK
  <1>2. PartsAreOwn'
    BY DEF FilesInv, TypeOK, PartsAreOwn
  <1>3. ExtractsWhole' /\ StagedIsWhole' /\ CutIsLeft' /\ DoneIsStaged'
    BY DEF FilesInv, ExtractsWhole, StagedIsWhole, CutIsLeft, DoneIsStaged
  <1>4. LinksAreSigned'
    BY DEF FilesInv, LinksAreSigned
  <1> QED
    BY <1>1, <1>2, <1>3, <1>4 DEF FilesInv

LEMMA UploadInv ==
  ASSUME FilesInv, NEW u \in Uploaders,
         PutBegin(u) \/ Write(u) \/ Rename(u) \/ PutFails(u)
  PROVE  FilesInv'
  <1> DEFINE mine == upload[u]
  <1>1. mine \in Uploads /\ mine.part \in Copies
    BY DEF FilesInv, TypeOK, Uploads
  <1>2. cache \in [Hashes -> Copies] /\ CachedIsWhole
    BY DEF FilesInv, TypeOK
  <1>3. UNCHANGED cache => cache' \in [Hashes -> Copies] /\ CachedIsWhole'
    BY <1>2 DEF CachedIsWhole
  <1>4. CASE PutBegin(u)
    <2>1. PICK h \in Hashes, content \in Contents :
            upload' = [upload EXCEPT ![u] =
              [at |-> "write", hash |-> h, content |-> {content}, part |-> Nothing]]
      BY <1>4 DEF PutBegin
    <2> DEFINE next == [at |-> "write", hash |-> h, content |-> {content},
                        part |-> Nothing]
    <2>2. next \in Uploads
      BY NothingType DEF Uploads
    <2>3. Partial(Nothing, {content})
      BY FilesAssumption DEF Partial, Nothing
    <2>4. UNCHANGED <<now, secret, asking, links, cache, build, staged, cut>>
      BY <1>4 DEF PutBegin
    <2> QED
      BY <1>3, <2>1, <2>2, <2>3, <2>4, UploadMoves
  <1>5. CASE Write(u)
    <2>1. PICK c \in Contents : mine.content = {c}
      BY <1>5 DEF Write, FilesInv, PartsAreOwn
    <2>2. mine.hash \in Hashes /\ Partial(mine.part, {c}) /\ mine.at = "write"
      BY <1>5, <2>1 DEF Write, FilesInv, PartsAreOwn
    <2>3. Received(u) = Extended(mine.part, {c})
      BY <2>1 DEF Received
    <2>4. /\ Received(u) \in Copies
          /\ Received(u).chunks = Chunks => Whole(Received(u))
          /\ Received(u).chunks # Chunks => Partial(Received(u), {c})
      BY <1>1, <2>2, <2>3, ExtendedCopy
    <2> DEFINE step == IF Received(u).chunks = Chunks THEN "rename" ELSE "write"
               next == [mine EXCEPT !.part = Received(u), !.at = step]
    <2>5. upload' = [upload EXCEPT ![u] = next]
      BY <1>5 DEF Write, FilesInv, TypeOK, Uploads
    <2>6. /\ next \in Uploads /\ next.part = Received(u) /\ next.at = step
          /\ next.hash = mine.hash /\ next.content = {c}
      BY <1>1, <2>1, <2>4 DEF Uploads
    <2>7. UNCHANGED <<now, secret, asking, links, cache, build, staged, cut>>
      BY <1>5 DEF Write
    <2> HIDE DEF next, mine
    <2> QED
      BY <1>3, <2>2, <2>4, <2>5, <2>6, <2>7, UploadMoves
  <1>6. CASE Rename(u)
    <2>1. /\ mine.hash \in Hashes /\ Whole(mine.part)
          /\ cache' = [cache EXCEPT ![mine.hash] = mine.part]
          /\ upload' = [upload EXCEPT ![u] = NoUpload]
          /\ UNCHANGED <<now, secret, asking, links, build, staged, cut>>
      BY <1>6 DEF Rename, FilesInv, PartsAreOwn
    <2>2. cache' \in [Hashes -> Copies] /\ CachedIsWhole'
      BY <1>1, <1>2, <2>1 DEF CachedIsWhole
    <2> QED
      BY <2>1, <2>2, NoUploadType, UploadMoves DEF NoUpload
  <1>7. CASE PutFails(u)
    BY <1>3, <1>7, NoUploadType, UploadMoves DEF PutFails, NoUpload
  <1> QED
    BY <1>4, <1>5, <1>6, <1>7
-----------------------------------------------------------------------------
(* What the invariant says of one build with the record r and the directory *)
(* dir, of which gone was left half way.                                    *)
BuildIsSound(r, dir, gone) ==
  /\ r.at = "extract" =>
       /\ r.hash \in Hashes /\ r.hash \in r.todo
       /\ Whole(r.file)
       /\ Partial(dir[r.hash], r.file.from)
  /\ \A h \in Hashes : dir[h] # Nothing =>
       Whole(dir[h]) \/ h \in gone \/ (r.at = "extract" /\ r.hash = h)
  /\ \A h \in gone : dir[h] # Nothing
  /\ secret = 0 /\ gone # {} => r.at \in {"clear", "done"}
  /\ r.at \in {"next", "extract", "docker"} =>
       \A h \in r.needs \ r.todo : dir[h] # Nothing
  /\ r.at = "docker" => r.todo = {}

CutOf(b) == {h \in Hashes : <<b, h>> \in cut}

LEMMA BuildsAreSound ==
  ASSUME FilesInv, NEW b \in BuildIds
  PROVE  /\ BuildIsSound(build[b], staged[b], CutOf(b))
         /\ build[b] \in Builds /\ staged[b] \in [Hashes -> Copies]
  BY DEF FilesInv, TypeOK, ExtractsWhole, StagedIsWhole, CutIsLeft, DoneIsStaged,
         BuildIsSound, CutOf

(* The build of b moves on, in its own directory.                           *)
LEMMA BuildMoves ==
  ASSUME FilesInv, NEW b \in BuildIds, NEW next \in Builds,
         NEW dir \in [Hashes -> Copies],
         build' = [build EXCEPT ![b] = next],
         staged' = [staged EXCEPT ![b] = dir],
         BuildIsSound(next, dir, CutOf(b)'),
         cut' \subseteq BuildIds \X Hashes,
         \A x \in BuildIds \ {b} : CutOf(x)' = CutOf(x),
         UNCHANGED <<now, secret, asking, links, cache, upload>>
  PROVE  FilesInv'
  <1>1. TypeOK'
    BY DEF FilesInv, TypeOK
  <1>2. \A x \in BuildIds : BuildIsSound(build'[x], staged'[x], CutOf(x)')
    <2>1. BuildIsSound(build'[b], staged'[b], CutOf(b)')
      BY DEF FilesInv, TypeOK
    <2>2. ASSUME NEW x \in BuildIds \ {b}
          PROVE  BuildIsSound(build'[x], staged'[x], CutOf(x)')
      <3>1. build'[x] = build[x] /\ staged'[x] = staged[x] /\ CutOf(x)' = CutOf(x)
        BY DEF FilesInv, TypeOK
      <3>2. BuildIsSound(build[x], staged[x], CutOf(x))
        BY BuildsAreSound
      <3> QED
        BY <3>1, <3>2
    <2> QED
      BY <2>1, <2>2
  <1>3. ExtractsWhole' /\ StagedIsWhole' /\ CutIsLeft' /\ DoneIsStaged'
    BY <1>2 DEF ExtractsWhole, StagedIsWhole, CutIsLeft, DoneIsStaged,
                BuildIsSound, CutOf
  <1>4. CachedIsWhole' /\ PartsAreOwn' /\ LinksAreSigned'
    BY DEF FilesInv, CachedIsWhole, PartsAreOwn, LinksAreSigned
  <1> QED
    BY <1>1, <1>3, <1>4 DEF FilesInv

(* The build moves on and its directory stays as it is.                     *)
LEMMA BuildAdvances ==
  ASSUME FilesInv, NEW b \in BuildIds, NEW next \in Builds,
         build' = [build EXCEPT ![b] = next],
         BuildIsSound(next, staged[b], CutOf(b)),
         UNCHANGED <<now, secret, asking, links, cache, upload, staged, cut>>
  PROVE  FilesInv'
  <1>1. staged' = [staged EXCEPT ![b] = staged[b]]
    BY DEF FilesInv, TypeOK
  <1>2. /\ staged[b] \in [Hashes -> Copies]
        /\ BuildIsSound(next, staged[b], CutOf(b)')
    BY BuildsAreSound DEF CutOf
  <1>3. /\ cut' \subseteq BuildIds \X Hashes
        /\ \A x \in BuildIds \ {b} : CutOf(x)' = CutOf(x)
    BY DEF FilesInv, TypeOK, CutOf
  <1> QED
    BY <1>1, <1>2, <1>3, BuildMoves

(* What the executor was extracting counts as cut.                          *)
LEMMA BuildOverInv ==
  ASSUME FilesInv, NEW b \in BuildIds, BuildOver(b),
         UNCHANGED <<now, secret, asking, links, cache, upload>>
  PROVE  FilesInv'
  <1> DEFINE next == [NoBuild EXCEPT !.at = "clear"]
             dir == staged[b]
  <1>1. next \in Builds /\ next.at = "clear"
    BY NoBuildType DEF NoBuild, Builds
  <1>2. dir \in [Hashes -> Copies] /\ BuildIsSound(build[b], dir, CutOf(b))
    BY BuildsAreSound
  <1>3. /\ cut' \subseteq BuildIds \X Hashes
        /\ \A x \in BuildIds \ {b} : CutOf(x)' = CutOf(x)
    BY DEF BuildOver, Half, CutOf, FilesInv, TypeOK
  <1>4. CutOf(b)' = CutOf(b) \cup {h \in Hashes : build[b].hash = h /\ dir[h] # Nothing}
    BY DEF BuildOver, Half, CutOf
  <1>5. build' = [build EXCEPT ![b] = next] /\ staged' = [staged EXCEPT ![b] = dir]
    BY DEF BuildOver, FilesInv, TypeOK
  <1> HIDE DEF next, dir
  <1>6. BuildIsSound(next, dir, CutOf(b)')
    BY <1>1, <1>2, <1>4 DEF BuildIsSound
  <1> QED
    BY <1>1, <1>2, <1>3, <1>5, <1>6, BuildMoves

LEMMA WithoutType ==
  ASSUME NEW copy \in Copies PROVE Without(copy) \in Copies
  <1>1. CASE copy.chunks <= 1
    BY <1>1, NothingType DEF Without
  <1>2. CASE ~(copy.chunks <= 1)
    BY <1>2, FilesAssumption DEF Without, Copies
  <1> QED
    BY <1>1, <1>2

(* A file of the directory is gone: the rest is empty or cut.               *)
LEMMA UnlinkInv ==
  ASSUME FilesInv, NEW b \in BuildIds, Unlink(b)
  PROVE  FilesInv'
  <1>1. PICK h \in Hashes :
          /\ staged' = [staged EXCEPT ![b][h] = Without(staged[b][h])]
          /\ cut' = IF Without(staged[b][h]) = Nothing THEN cut \ {<<b, h>>}
                                                        ELSE cut \cup {<<b, h>>}
    BY DEF Unlink
  <1>2. PICK dir : dir = [staged[b] EXCEPT ![h] = Without(staged[b][h])]
    OBVIOUS
  <1>3. /\ build[b].at = "clear" /\ build[b] \in Builds
        /\ UNCHANGED <<now, secret, asking, links, cache, upload, build>>
    BY BuildsAreSound DEF Unlink
  <1>4. /\ dir \in [Hashes -> Copies] /\ dir[h] = Without(staged[b][h])
        /\ \A x \in Hashes \ {h} : dir[x] = staged[b][x]
    BY <1>2, BuildsAreSound, WithoutType
  <1>5. staged' = [staged EXCEPT ![b] = dir] /\ build' = [build EXCEPT ![b] = build[b]]
    BY <1>1, <1>2, <1>3 DEF FilesInv, TypeOK
  <1>6. /\ cut' \subseteq BuildIds \X Hashes
        /\ \A x \in BuildIds \ {b} : CutOf(x)' = CutOf(x)
    BY <1>1 DEF CutOf, FilesInv, TypeOK
  <1>7. CutOf(b)' = IF dir[h] = Nothing THEN CutOf(b) \ {h} ELSE CutOf(b) \cup {h}
    BY <1>1, <1>4 DEF CutOf
  <1>8. BuildIsSound(build[b], staged[b], CutOf(b))
    BY BuildsAreSound
  <1>9. BuildIsSound(build[b], dir, CutOf(b)')
    <2>1. CutOf(b) \subseteq Hashes
      BY DEF CutOf
    <2>2. \A x \in Hashes : dir[x] # Nothing => Whole(dir[x]) \/ x \in CutOf(b)'
      BY <1>3, <1>4, <1>7, <1>8 DEF BuildIsSound
    <2>3. \A x \in CutOf(b)' : dir[x] # Nothing
      BY <1>4, <1>7, <1>8, <2>1 DEF BuildIsSound
    <2> QED
      BY <1>3, <2>2, <2>3 DEF BuildIsSound
  <1> QED
    BY <1>3, <1>4, <1>5, <1>6, <1>9, BuildMoves

LEMMA RemovalEndsInv ==
  ASSUME FilesInv, NEW b \in BuildIds, RemovalEnds(b)
  PROVE  FilesInv'
  <1> DEFINE next == [build[b] EXCEPT !.at = "done"]
  <1>1. /\ build[b].at = "clear" /\ build[b] \in Builds
        /\ build \in [BuildIds -> Builds]
        /\ UNCHANGED <<now, secret, asking, links, cache, upload, staged, cut>>
    BY BuildsAreSound DEF RemovalEnds, FilesInv, TypeOK
  <1>2. build' = [build EXCEPT ![b] = next]
    BY <1>1 DEF RemovalEnds
  <1>3. next \in Builds /\ next.at = "done"
    BY <1>1 DEF Builds
  <1> HIDE DEF next
  <1>4. BuildIsSound(next, staged[b], CutOf(b))
    BY <1>1, <1>3, BuildsAreSound DEF BuildIsSound
  <1> QED
    BY <1>1, <1>2, <1>3, <1>4, BuildAdvances

LEMMA BuildBeginInv ==
  ASSUME FilesInv, NEW b \in BuildIds, BuildBegin(b)
  PROVE  FilesInv'
  <1>1. PICK needs \in SUBSET Hashes :
          build' = [build EXCEPT ![b] = [NoBuild EXCEPT !.at = "next",
                      !.todo = needs, !.needs = needs]]
    BY DEF BuildBegin
  <1> DEFINE next == [NoBuild EXCEPT !.at = "next", !.todo = needs, !.needs = needs]
  <1>2. /\ next \in Builds
        /\ next.at = "next" /\ next.todo = needs /\ next.needs = needs
    BY NoBuildType DEF NoBuild, Builds
  <1>3. build[b].at = "absent"
    BY DEF BuildBegin, NoBuild
  <1>4. BuildIsSound(next, staged[b], CutOf(b))
    BY <1>2, <1>3, BuildsAreSound DEF BuildIsSound
  <1> HIDE DEF next
  <1> QED
    BY <1>1, <1>2, <1>4, BuildAdvances DEF BuildBegin, next

LEMMA NextHashInv ==
  ASSUME FilesInv, NEW b \in BuildIds, NextHash(b)
  PROVE  FilesInv'
  <1>1. /\ build[b].at = "next"
        /\ UNCHANGED <<now, secret, asking, links, cache, upload>>
    BY DEF NextHash
  <1>2. PICK h \in build[b].todo :
          \/ /\ staged[b][h] # Nothing
             /\ build' = [build EXCEPT ![b].todo = @ \ {h}]
             /\ UNCHANGED <<staged, cut>>
          \/ /\ staged[b][h] = Nothing /\ cache[h] # Nothing
             /\ build' = [build EXCEPT ![b].at = "extract", ![b].hash = h,
                                       ![b].file = cache[h]]
             /\ UNCHANGED <<staged, cut>>
          \/ /\ staged[b][h] = Nothing /\ cache[h] = Nothing
             /\ BuildOver(b)
    BY DEF NextHash
  <1>3. /\ build[b] \in Builds /\ h \in Hashes /\ cache[h] \in Copies
        /\ build \in [BuildIds -> Builds]
    BY BuildsAreSound DEF Builds, FilesInv, TypeOK
  <1>4. CASE /\ staged[b][h] # Nothing
             /\ build' = [build EXCEPT ![b].todo = @ \ {h}]
             /\ UNCHANGED <<staged, cut>>
    <2> DEFINE next == [build[b] EXCEPT !.todo = @ \ {h}]
    <2>1. build' = [build EXCEPT ![b] = next]
      BY <1>3, <1>4
    <2>2. /\ next \in Builds /\ next.at = "next"
          /\ next.todo = build[b].todo \ {h} /\ next.needs = build[b].needs
      BY <1>1, <1>3 DEF Builds
    <2> HIDE DEF next
    <2>3. BuildIsSound(next, staged[b], CutOf(b))
      BY <1>1, <1>4, <2>2, BuildsAreSound DEF BuildIsSound
    <2> QED
      BY <1>1, <1>4, <2>1, <2>2, <2>3, BuildAdvances
  <1>5. CASE /\ staged[b][h] = Nothing /\ cache[h] # Nothing
             /\ build' = [build EXCEPT ![b].at = "extract", ![b].hash = h,
                                       ![b].file = cache[h]]
             /\ UNCHANGED <<staged, cut>>
    <2> DEFINE next == [build[b] EXCEPT !.at = "extract", !.hash = h,
                                        !.file = cache[h]]
    <2>1. build' = [build EXCEPT ![b] = next]
      BY <1>3, <1>5
    <2>2. /\ next \in Builds /\ next.at = "extract" /\ next.hash = h
          /\ next.file = cache[h]
          /\ next.todo = build[b].todo /\ next.needs = build[b].needs
      BY <1>3 DEF Builds
    <2> HIDE DEF next
    <2>3. Whole(cache[h])
      BY <1>3, <1>5 DEF FilesInv, CachedIsWhole
    <2>4. Partial(staged[b][h], cache[h].from)
      BY <1>5, FilesAssumption DEF Partial, Nothing
    <2>5. BuildIsSound(next, staged[b], CutOf(b))
      BY <1>1, <1>2, <1>3, <2>2, <2>3, <2>4, BuildsAreSound DEF BuildIsSound
    <2> QED
      BY <1>1, <1>5, <2>1, <2>2, <2>5, BuildAdvances
  <1> QED
    BY <1>1, <1>2, <1>4, <1>5, BuildOverInv

LEMMA ExtractInv ==
  ASSUME FilesInv, NEW b \in BuildIds, Extract(b)
  PROVE  FilesInv'
  <1>1. PICK h : h = build[b].hash
    OBVIOUS
  <1>2. PICK copy : copy = Extended(staged[b][h], build[b].file.from)
    OBVIOUS
  <1>3. PICK c \in Contents : build[b].file.from = {c}
    BY BuildsAreSound DEF Extract, BuildIsSound, Whole
  <1>4. /\ build[b].at = "extract" /\ h \in Hashes /\ h \in build[b].todo
        /\ build[b].file.chunks = Chunks
        /\ Partial(staged[b][h], {c}) /\ staged[b][h] \in Copies
    BY <1>1, <1>3, BuildsAreSound DEF Extract, BuildIsSound, Whole
  <1>5. /\ copy \in Copies /\ copy # Nothing
        /\ copy.chunks = Chunks => Whole(copy)
        /\ copy.chunks # Chunks => Partial(copy, {c})
    BY <1>2, <1>3, <1>4, ExtendedCopy
  <1>6. PICK dir : dir = [staged[b] EXCEPT ![h] = copy]
    OBVIOUS
  <1>7. /\ dir \in [Hashes -> Copies] /\ dir[h] = copy
        /\ \A x \in Hashes \ {h} : dir[x] = staged[b][x]
    BY <1>4, <1>5, <1>6, BuildsAreSound
  <1>8. /\ staged' = [staged EXCEPT ![b] = dir]
        /\ UNCHANGED <<now, secret, asking, links, cache, upload, cut>>
    BY <1>1, <1>2, <1>6 DEF Extract, FilesInv, TypeOK
  <1>9. /\ cut' \subseteq BuildIds \X Hashes
        /\ \A x \in BuildIds : CutOf(x)' = CutOf(x)
        /\ build[b] \in Builds /\ build \in [BuildIds -> Builds]
    BY <1>8, BuildsAreSound DEF CutOf, FilesInv, TypeOK
  <1>10. /\ \A x \in CutOf(b) : dir[x] # Nothing
         /\ secret = 0 => CutOf(b) = {}
    <2>1. CutOf(b) \subseteq Hashes
      BY DEF CutOf
    <2> QED
      BY <1>4, <1>5, <1>7, <2>1, BuildsAreSound DEF BuildIsSound
  <1>11. CASE copy.chunks = Chunks
    <2> DEFINE next == [build[b] EXCEPT !.at = "next", !.hash = NoHash,
                                        !.todo = @ \ {h}, !.file = Nothing]
    <2>1. build' = [build EXCEPT ![b] = next]
      BY <1>1, <1>2, <1>4, <1>9, <1>11 DEF Extract
    <2>2. /\ next \in Builds /\ next.at = "next"
          /\ next.todo = build[b].todo \ {h} /\ next.needs = build[b].needs
      BY <1>9, NothingType DEF Builds
    <2> HIDE DEF next
    <2>3. BuildIsSound(build[b], staged[b], CutOf(b))
      BY BuildsAreSound
    <2>4. \A x \in Hashes : dir[x] # Nothing => Whole(dir[x]) \/ x \in CutOf(b)
      BY <1>1, <1>4, <1>5, <1>7, <1>11, <2>3 DEF BuildIsSound
    <2>5. \A x \in next.needs \ next.todo : dir[x] # Nothing
      BY <1>4, <1>5, <1>7, <1>9, <2>2, <2>3 DEF BuildIsSound, Builds
    <2>6. BuildIsSound(next, dir, CutOf(b)')
      BY <1>9, <1>10, <2>2, <2>4, <2>5 DEF BuildIsSound
    <2> QED
      BY <1>7, <1>8, <1>9, <2>1, <2>2, <2>6, BuildMoves
  <1>12. CASE copy.chunks # Chunks
    <2>1. build' = [build EXCEPT ![b] = build[b]]
      BY <1>1, <1>2, <1>4, <1>9, <1>12 DEF Extract
    <2>2. BuildIsSound(build[b], staged[b], CutOf(b))
      BY BuildsAreSound
    <2>3. \A x \in Hashes : dir[x] # Nothing =>
            Whole(dir[x]) \/ x \in CutOf(b) \/ x = h
      BY <1>1, <1>7, <2>2 DEF BuildIsSound
    <2>4. \A x \in build[b].needs \ build[b].todo : dir[x] # Nothing
      BY <1>4, <1>7, <1>9, <2>2 DEF BuildIsSound, Builds
    <2>5. Partial(dir[h], build[b].file.from) /\ Whole(build[b].file)
      BY <1>3, <1>4, <1>5, <1>7, <1>12, <2>2 DEF BuildIsSound
    <2>6. BuildIsSound(build[b], dir, CutOf(b)')
      BY <1>1, <1>4, <1>9, <1>10, <2>3, <2>4, <2>5 DEF BuildIsSound
    <2> QED
      BY <1>7, <1>8, <1>9, <2>1, <2>6, BuildMoves
  <1> QED
    BY <1>11, <1>12

LEMMA RunDockerInv ==
  ASSUME FilesInv, NEW b \in BuildIds, RunDocker(b)
  PROVE  FilesInv'
  <1> DEFINE next == [build[b] EXCEPT !.at = "docker"]
  <1>1. /\ build[b] \in Builds /\ build \in [BuildIds -> Builds]
        /\ build[b].at = "next" /\ build[b].todo = {}
        /\ UNCHANGED <<now, secret, asking, links, cache, upload, staged, cut>>
    BY BuildsAreSound DEF RunDocker, FilesInv, TypeOK
  <1>2. build' = [build EXCEPT ![b] = next]
    BY <1>1 DEF RunDocker
  <1>3. /\ next \in Builds /\ next.at = "docker"
        /\ next.todo = {} /\ next.needs = build[b].needs
    BY <1>1 DEF Builds
  <1> HIDE DEF next
  <1>4. BuildIsSound(next, staged[b], CutOf(b))
    BY <1>1, <1>3, BuildsAreSound DEF BuildIsSound
  <1> QED
    BY <1>1, <1>2, <1>3, <1>4, BuildAdvances

LEMMA BuildInv ==
  ASSUME FilesInv, NEW b \in BuildIds,
         \/ BuildBegin(b) \/ NextHash(b) \/ Extract(b) \/ RunDocker(b)
         \/ BuildEnds(b) \/ Unlink(b) \/ RemovalEnds(b)
  PROVE  FilesInv'
  <1>1. BuildEnds(b) => FilesInv'
    BY BuildOverInv DEF BuildEnds
  <1> QED
    BY <1>1, BuildBeginInv, NextHashInv, ExtractInv, RunDockerInv, UnlinkInv,
       RemovalEndsInv

(* No executor is left, and what one was extracting counts as cut.          *)
LEMMA RestartInv == FilesInv /\ Restart => FilesInv'
  <1> SUFFICES ASSUME FilesInv, Restart PROVE FilesInv'
    OBVIOUS
  <1>1. /\ secret < MaxCrashes /\ secret' = secret + 1
        /\ upload' = [u \in Uploaders |-> NoUpload]
        /\ build' = [b \in BuildIds |-> NoBuild]
        /\ asking' = {}
        /\ UNCHANGED <<now, links, cache, staged>>
    BY DEF Restart
  <1>2. \A b \in BuildIds, h \in Hashes :
          <<b, h>> \in cut' <=>
            <<b, h>> \in cut \/ (build[b].hash = h /\ staged[b][h] # Nothing)
    BY DEF Restart, Half
  <1>3. cut' \subseteq BuildIds \X Hashes
    BY DEF Restart, Half, FilesInv, TypeOK
  <1>4. secret' \in 0..MaxCrashes
    BY <1>1, FilesAssumption DEF FilesInv, TypeOK
  <1>5. TypeOK'
    BY <1>1, <1>3, <1>4, NoUploadType, NoBuildType DEF FilesInv, TypeOK
  <1>6. PartsAreOwn' /\ ExtractsWhole' /\ DoneIsStaged'
    BY <1>1 DEF PartsAreOwn, ExtractsWhole, DoneIsStaged, NoUpload, NoBuild
  <1>7. StagedIsWhole' /\ CutIsLeft'
    <2>1. secret' # 0
      BY <1>1 DEF FilesInv, TypeOK
    <2> QED
      BY <1>1, <1>2, <2>1 DEF FilesInv, StagedIsWhole, CutIsLeft
  <1>8. CachedIsWhole' /\ LinksAreSigned'
    BY <1>1 DEF FilesInv, CachedIsWhole, LinksAreSigned
  <1> QED
    BY <1>5, <1>6, <1>7, <1>8 DEF FilesInv

LEMMA FilesStep == FilesInv /\ [Next]_vars => FilesInv'
  <1> SUFFICES ASSUME FilesInv, [Next]_vars PROVE FilesInv'
    OBVIOUS
  <1>1. ASSUME NEW u \in Uploaders,
               PutBegin(u) \/ Write(u) \/ Rename(u) \/ PutFails(u)
        PROVE  FilesInv'
    BY <1>1, UploadInv
  <1>2. ASSUME NEW b \in BuildIds,
               \/ BuildBegin(b) \/ NextHash(b) \/ Extract(b) \/ RunDocker(b)
               \/ BuildEnds(b) \/ Unlink(b) \/ RemovalEnds(b)
        PROVE  FilesInv'
    BY <1>2, BuildInv
  <1>3. CASE UNCHANGED vars
    BY <1>3 DEF vars, FilesInv, TypeOK, CachedIsWhole, PartsAreOwn,
       ExtractsWhole, StagedIsWhole, CutIsLeft, DoneIsStaged, LinksAreSigned
  <1> QED
    BY <1>1, <1>2, <1>3, FindMissingInv, SignLinkInv, TickInv, RestartInv DEF Next

LEMMA FilesInvariant == Spec => []FilesInv
  BY FilesInit, FilesStep, PTL DEF Spec

-----------------------------------------------------------------------------
(* Every reachable state is one of the handlers', signer's and executors'.  *)
THEOREM FilesTypeCorrect == Spec => []TypeOK
  <1>1. FilesInv => TypeOK
    BY DEF FilesInv
  <1> QED
    BY <1>1, FilesInvariant, PTL

(* A blob of the cache is the whole of one upload, however many Puts of one *)
(* hash race, break off or die with the process (Put and its .part file).   *)
THEOREM CacheHoldsWholeBlobs == Spec => []CachedIsWhole
  <1>1. FilesInv => CachedIsWhole
    BY DEF FilesInv
  <1> QED
    BY <1>1, FilesInvariant, PTL

(* docker build is given one whole upload for every hash it needs, however  *)
(* often the blob is replaced meanwhile; except where an earlier process    *)
(* left the directory of the hash half extracted or half removed, and there *)
(* is such a one only after a restart (PrepareContext, extractTar, the      *)
(* deferred RemoveAll of Execute).                                          *)
THEOREM DockerReadsOneUpload == Spec => []ContextIsOneUpload
  <1>1. FilesInv => ContextIsOneUpload
    <2> SUFFICES ASSUME FilesInv, NEW b \in BuildIds, build[b].at = "docker",
                        NEW h \in build[b].needs
                 PROVE  Whole(staged[b][h]) \/ (<<b, h>> \in cut /\ secret > 0)
      BY DEF ContextIsOneUpload
    <2>1. h \in Hashes /\ secret \in Nat
      BY BuildsAreSound DEF Builds, FilesInv, TypeOK
    <2>2. staged[b][h] # Nothing
      BY DEF FilesInv, DoneIsStaged
    <2>3. Whole(staged[b][h]) \/ <<b, h>> \in cut
      BY <2>1, <2>2 DEF FilesInv, StagedIsWhole
    <2>4. <<b, h>> \in cut => secret # 0
      BY <2>1 DEF FilesInv, CutIsLeft
    <2> QED
      BY <2>1, <2>3, <2>4
  <1> QED
    BY <1>1, FilesInvariant, PTL

(* A link serves its TTL and less than one second more, and only its hash   *)
(* and its process, though the signer counts whole seconds (Sign, Verify).  *)
THEOREM LinksLiveTheirTTL == Spec => []LinkLifetime
  <1>1. FilesInv => LinkLifetime
    <2> SUFFICES ASSUME FilesInv, NEW link \in links, NEW h \in Hashes
                 PROVE  /\ Verifies(link, h) =>
                             /\ h = link.hash /\ link.secret = secret
                             /\ now < link.signed + TTL + 2
                        /\ link.secret = secret /\ now <= link.signed + TTL =>
                             Verifies(link, link.hash)
      BY DEF LinkLifetime
    <2>1. now \in Nat /\ link.signed \in Nat /\ TTL \in Nat
      BY FilesAssumption DEF FilesInv, TypeOK, Links
    <2>2. link.expiry = (link.signed + TTL) \div 2
      BY DEF FilesInv, LinksAreSigned, Unix
    <2>3. now \div 2 <= (link.signed + TTL) \div 2 => now < link.signed + TTL + 2
      BY <2>1
    <2>4. now <= link.signed + TTL => now \div 2 <= (link.signed + TTL) \div 2
      BY <2>1
    <2> QED
      BY <2>2, <2>3, <2>4 DEF Verifies, Unix
  <1> QED
    BY <1>1, FilesInvariant, PTL

-----------------------------------------------------------------------------
(***************************************************************************)
(* FileUploads implements BlobStore.  A Put is one step of it, the Rename; *)
(* a hash is taken when PrepareContext opens the blob, so the chunks that  *)
(* are extracted afterwards, and the renames in between, are stutters.     *)
(***************************************************************************)

BlobsStep == [Blobs!Next]_(Blobs!vars)

(* What is renamed is what the client has sent, and who is idle sends       *)
(* nothing.                                                                 *)
UploadsTidy ==
  \A u \in Uploaders :
    /\ upload[u].at = "idle" => upload[u] = NoUpload
    /\ upload[u].at = "rename" => upload[u].part.from = upload[u].content

(* A build goes through hashes it needs, one at a time.                     *)
TidyBuild(r) ==
  /\ r.todo \subseteq r.needs
  /\ r.at # "extract" => r.hash = NoHash
  /\ r.at \in {"next", "extract", "docker"} <=> r.needs # {}

Tidy == UploadsTidy /\ \A b \in BuildIds : TidyBuild(build[b])

LEMMA ShownFacts ==
  ASSUME NEW copy
  PROVE  /\ Whole(copy) => Shown(copy) = copy.from /\ Shown(copy) # {}
         /\ ~Whole(copy) => Shown(copy) = {}
  BY DEF Shown, Whole

LEMMA NothingShown == ~Whole(Nothing) /\ Shown(Nothing) = {}
  BY DEF Shown, Whole, Nothing

(* The steps that only links and uploads see.                               *)
LEMMA BuildsUnseen ==
  ASSUME Tidy, UNCHANGED <<build, staged, cut>>
  PROVE  /\ \A b \in BuildIds : TidyBuild(build'[b])
         /\ UNCHANGED <<Wanted, Holding, Reading, cut>>
  BY DEF Tidy, Taken, Wanted, Holding, Reading

LEMMA FindMissingBlobs ==
  ASSUME FilesInv, Tidy, FindMissing
  PROVE  Tidy' /\ BlobsStep
  <1>1. PICK h \in Hashes : cache[h] = Nothing /\ asking' = asking \cup {h}
    BY DEF FindMissing
  <1>2. UNCHANGED <<now, secret, links, cache, upload, build, staged, cut>>
    BY DEF FindMissing
  <1>3. Stored[h] = {} /\ UNCHANGED <<secret, Invited, Sending, Stored>>
    BY <1>1, <1>2, NothingShown DEF Stored, Sending, Invited
  <1>4. Blobs!Ask(h)
    BY <1>1, <1>2, <1>3, BuildsUnseen DEF Blobs!Ask
  <1>5. Tidy'
    BY <1>2, BuildsUnseen DEF Tidy, UploadsTidy
  <1> QED
    BY <1>4, <1>5 DEF BlobsStep, Blobs!Next

LEMMA SignLinkBlobs ==
  ASSUME FilesInv, Tidy, SignLink
  PROVE  Tidy' /\ BlobsStep
  <1>1. PICK h \in asking : /\ links' = links \cup {Sign(h)}
                            /\ asking' \in {asking, asking \ {h}}
    BY DEF SignLink
  <1>2. UNCHANGED <<now, secret, cache, upload, build, staged, cut>>
    BY DEF SignLink
  <1>3. Invited' = Invited \cup {<<h, secret>>}
    <2>1. Sign(h).hash = h /\ Sign(h).secret = secret
      BY DEF Sign
    <2>2. \A pair : pair \in Invited' <=> pair \in Invited \/ pair = <<h, secret>>
      BY <1>1, <2>1 DEF Invited
    <2> QED
      BY <2>2
  <1>4. h \in Hashes /\ UNCHANGED <<secret, Sending, Stored>>
    BY <1>1, <1>2 DEF Stored, Sending, FilesInv, TypeOK
  <1>5. Blobs!Invite(h)
    BY <1>1, <1>2, <1>3, <1>4, BuildsUnseen DEF Blobs!Invite
  <1>6. Tidy'
    BY <1>2, BuildsUnseen DEF Tidy, UploadsTidy
  <1> QED
    BY <1>4, <1>5, <1>6 DEF BlobsStep, Blobs!Next

LEMMA TickBlobs ==
  ASSUME FilesInv, Tidy, Tick
  PROVE  Tidy' /\ BlobsStep
  <1>1. UNCHANGED <<secret, asking, links, cache, upload, build, staged, cut>>
    BY DEF Tick
  <1>2. UNCHANGED <<secret, asking, Invited, Sending, Stored>>
    BY <1>1 DEF Invited, Sending, Stored
  <1>3. Tidy'
    BY <1>1, BuildsUnseen DEF Tidy, UploadsTidy
  <1> QED
    BY <1>1, <1>2, <1>3, BuildsUnseen DEF BlobsStep, Blobs!vars

(* What the upload of u sends is its own affair.                            *)
LEMMA SendingOfOne ==
  ASSUME FilesInv, NEW u \in Uploaders, NEW next,
         upload' = [upload EXCEPT ![u] = next]
  PROVE  Sending' = [Sending EXCEPT ![u] = {next.hash} \X next.content]
  BY DEF FilesInv, TypeOK, Sending

LEMMA NobodySends == {NoUpload.hash} \X NoUpload.content = {}
  BY DEF NoUpload

LEMMA PutBeginBlobs ==
  ASSUME FilesInv, Tidy, NEW u \in Uploaders, PutBegin(u)
  PROVE  Tidy' /\ BlobsStep
  <1>1. PICK link \in links, h \in Hashes, c \in Contents :
          /\ Verifies(link, h)
          /\ upload' = [upload EXCEPT ![u] =
               [at |-> "write", hash |-> h, content |-> {c}, part |-> Nothing]]
    BY DEF PutBegin
  <1> DEFINE next == [at |-> "write", hash |-> h, content |-> {c}, part |-> Nothing]
  <1>2. upload[u] = NoUpload
    BY DEF PutBegin, Tidy, UploadsTidy
  <1>3. UNCHANGED <<now, secret, asking, links, cache, build, staged, cut>>
    BY DEF PutBegin
  <1>4. Sending[u] = {}
    BY <1>2, NobodySends DEF Sending
  <1>5. Sending' = [Sending EXCEPT ![u] = {<<h, c>>}]
    <2>1. Sending' = [Sending EXCEPT ![u] = {next.hash} \X next.content]
      BY <1>1, SendingOfOne
    <2>2. {next.hash} \X next.content = {<<h, c>>}
      OBVIOUS
    <2> QED
      BY <2>1, <2>2
  <1>6. <<h, secret>> \in Invited
    BY <1>1 DEF Verifies, Invited
  <1>7. UNCHANGED <<secret, asking, Invited, Stored>>
    BY <1>3 DEF Invited, Stored
  <1>8. Blobs!Send(u, h, c)
    BY <1>3, <1>4, <1>5, <1>6, <1>7, BuildsUnseen DEF Blobs!Send
  <1>9. Tidy'
    BY <1>1, <1>3, BuildsUnseen DEF Tidy, UploadsTidy, FilesInv, TypeOK
  <1> QED
    BY <1>8, <1>9 DEF BlobsStep, Blobs!Next

LEMMA WriteBlobs ==
  ASSUME FilesInv, Tidy, NEW u \in Uploaders, Write(u)
  PROVE  Tidy' /\ BlobsStep
  <1> DEFINE mine == upload[u]
             step == IF Received(u).chunks = Chunks THEN "rename" ELSE "write"
             next == [mine EXCEPT !.part = Received(u), !.at = step]
  <1>1. /\ mine \in Uploads /\ mine.part \in Copies /\ mine.at = "write"
        /\ UNCHANGED <<now, secret, asking, links, cache, build, staged, cut>>
    BY DEF Write, FilesInv, TypeOK, Uploads
  <1>2. upload' = [upload EXCEPT ![u] = next]
    BY DEF Write, FilesInv, TypeOK, Uploads
  <1>3. /\ next.part = Received(u) /\ next.at = step
        /\ next.hash = mine.hash /\ next.content = mine.content
    BY <1>1 DEF Uploads
  <1>4. Received(u).from = mine.content
    <2>1. PICK c \in Contents : mine.content = {c}
      BY <1>1 DEF FilesInv, PartsAreOwn
    <2>2. Partial(mine.part, {c})
      BY <1>1, <2>1 DEF FilesInv, PartsAreOwn
    <2>3. Received(u) = Extended(mine.part, {c})
      BY <2>1 DEF Received
    <2> QED
      BY <1>1, <2>1, <2>2, <2>3, ExtendedCopy
  <1> HIDE DEF next, mine
  <1>5. Sending' = Sending
    <2>1. Sending' = [Sending EXCEPT ![u] = {mine.hash} \X mine.content]
      BY <1>2, <1>3, SendingOfOne
    <2> QED
      BY <2>1 DEF Sending, mine
  <1>6. UNCHANGED <<secret, asking, Invited, Stored, Wanted, Holding, Reading, cut>>
    BY <1>1, BuildsUnseen DEF Invited, Stored
  <1>7. UploadsTidy'
    BY <1>2, <1>3, <1>4 DEF Tidy, UploadsTidy, FilesInv, TypeOK
  <1>8. Tidy'
    BY <1>1, <1>7, BuildsUnseen DEF Tidy
  <1> QED
    BY <1>5, <1>6, <1>8 DEF BlobsStep, Blobs!vars

(* An upload that is over leaves nothing behind.                            *)
LEMMA OverIsTidy ==
  ASSUME FilesInv, Tidy, NEW u \in Uploaders,
         upload' = [upload EXCEPT ![u] = NoUpload],
         UNCHANGED <<build, staged, cut>>
  PROVE  /\ Tidy'
         /\ Sending' = [Sending EXCEPT ![u] = {}]
  <1>1. Sending' = [Sending EXCEPT ![u] = {}]
    BY SendingOfOne, NobodySends
  <1>2. UploadsTidy'
    BY DEF Tidy, UploadsTidy, FilesInv, TypeOK, NoUpload
  <1> QED
    BY <1>1, <1>2, BuildsUnseen DEF Tidy

LEMMA RenameBlobs ==
  ASSUME FilesInv, Tidy, NEW u \in Uploaders, Rename(u)
  PROVE  Tidy' /\ BlobsStep
  <1> DEFINE mine == upload[u]
  <1>1. /\ mine \in Uploads /\ mine.hash \in Hashes
        /\ Whole(mine.part) /\ mine.part.from = mine.content
    BY DEF Rename, FilesInv, TypeOK, PartsAreOwn, Tidy, UploadsTidy
  <1>2. /\ cache' = [cache EXCEPT ![mine.hash] = mine.part]
        /\ upload' = [upload EXCEPT ![u] = NoUpload]
        /\ UNCHANGED <<now, secret, asking, links, build, staged, cut>>
    BY DEF Rename
  <1>3. PICK c \in Contents : mine.content = {c}
    BY <1>1 DEF Whole
  <1>4. Sending[u] = {<<mine.hash, c>>}
    BY <1>3 DEF Sending
  <1>5. Stored' = [Stored EXCEPT ![mine.hash] = {c}]
    <2>1. Shown(mine.part) = {c}
      BY <1>1, <1>3, ShownFacts
    <2>2. cache \in [Hashes -> Copies]
      BY DEF FilesInv, TypeOK
    <2> HIDE DEF mine
    <2>3. \A h \in Hashes : Shown(cache'[h]) = [Stored EXCEPT ![mine.hash] = {c}][h]
      BY <1>1, <1>2, <2>1, <2>2 DEF Stored
    <2>4. Stored' = [h \in Hashes |-> Shown(cache'[h])]
      BY DEF Stored, Shown, Whole
    <2> QED
      BY <2>3, <2>4 DEF Stored
  <1>6. UNCHANGED <<secret, asking, Invited, Wanted, Holding, Reading, cut>>
    BY <1>2, BuildsUnseen DEF Invited
  <1>7. Blobs!Publish(u, mine.hash, c)
    BY <1>2, <1>4, <1>5, <1>6, OverIsTidy DEF Blobs!Publish
  <1> QED
    BY <1>1, <1>2, <1>7, OverIsTidy DEF BlobsStep, Blobs!Next

LEMMA PutFailsBlobs ==
  ASSUME FilesInv, Tidy, NEW u \in Uploaders, PutFails(u)
  PROVE  Tidy' /\ BlobsStep
  <1>1. /\ upload' = [upload EXCEPT ![u] = NoUpload]
        /\ UNCHANGED <<now, secret, asking, links, cache, build, staged, cut>>
    BY DEF PutFails
  <1>2. UNCHANGED <<secret, asking, Invited, Stored, Wanted, Holding, Reading, cut>>
    BY <1>1, BuildsUnseen DEF Invited, Stored
  <1>3. Blobs!GiveUp(u)
    BY <1>1, <1>2, OverIsTidy DEF Blobs!GiveUp
  <1> QED
    BY <1>1, <1>3, OverIsTidy DEF BlobsStep, Blobs!Next

-----------------------------------------------------------------------------
(* What a build with the record r and the directory dir has taken.          *)
TakenOf(r, dir, h) ==
  Shown(IF r.at = "extract" /\ r.hash = h THEN r.file ELSE dir[h])

AllTaken(r, dir) == [h \in Hashes |-> TakenOf(r, dir, h)]

LEMMA HoldingIs ==
  /\ Holding = [b \in BuildIds |-> AllTaken(build[b], staged[b])]
  /\ Holding' = [b \in BuildIds |-> AllTaken(build'[b], staged'[b])]
  BY DEF Holding, Taken, TakenOf, AllTaken, Shown, Whole

(* The build of b moves on, in its own directory.                           *)
Moves(b, next, dir) ==
  /\ build' = [build EXCEPT ![b] = next]
  /\ staged' = [staged EXCEPT ![b] = dir]
  /\ TidyBuild(next)
  /\ UNCHANGED <<secret, asking, links, cache, upload>>

LEMMA BuildSteps ==
  ASSUME FilesInv, Tidy, NEW b \in BuildIds, NEW next, NEW dir,
         Moves(b, next, dir)
  PROVE  /\ Tidy'
         /\ UNCHANGED <<secret, asking, Invited, Sending, Stored>>
         /\ Wanted' = [Wanted EXCEPT ![b] = next.needs]
         /\ Holding' = [Holding EXCEPT ![b] = AllTaken(next, dir)]
         /\ Reading' = IF next.at = "docker" THEN Reading \cup {b}
                                             ELSE Reading \ {b}
  <1>1. build \in [BuildIds -> Builds] /\ staged \in [BuildIds -> [Hashes -> Copies]]
    BY DEF FilesInv, TypeOK
  <1>2. Tidy'
    BY <1>1 DEF Moves, Tidy, UploadsTidy
  <1>3. UNCHANGED <<secret, asking, Invited, Sending, Stored>>
    BY DEF Moves, Invited, Sending, Stored
  <1>4. Wanted' = [Wanted EXCEPT ![b] = next.needs]
    BY <1>1 DEF Moves, Wanted
  <1>5. Holding' = [Holding EXCEPT ![b] = AllTaken(next, dir)]
    BY <1>1, HoldingIs DEF Moves
  <1>6. Reading' = IF next.at = "docker" THEN Reading \cup {b} ELSE Reading \ {b}
    BY <1>1 DEF Moves, Reading
  <1> QED
    BY <1>2, <1>3, <1>4, <1>5, <1>6

(* The build moves on and holds what it held: nobody sees it.               *)
LEMMA UnseenStep ==
  ASSUME FilesInv, Tidy, NEW b \in BuildIds, NEW next, NEW dir,
         Moves(b, next, dir), next.needs = build[b].needs, UNCHANGED cut,
         next.at # "docker", build[b].at # "docker",
         \A h \in Hashes : TakenOf(next, dir, h) = TakenOf(build[b], staged[b], h)
  PROVE  Tidy' /\ BlobsStep
  <1>1. Holding' = Holding
    <2>1. Holding[b] = AllTaken(next, dir)
      BY HoldingIs DEF AllTaken
    <2>2. Holding' = [Holding EXCEPT ![b] = AllTaken(next, dir)]
      BY BuildSteps
    <2> QED
      BY <2>1, <2>2, HoldingIs
  <1>2. Wanted' = Wanted /\ Reading' = Reading
    <2>1. Wanted' = [Wanted EXCEPT ![b] = build[b].needs]
      BY BuildSteps
    <2>2. Reading' = Reading \ {b}
      BY BuildSteps
    <2> QED
      BY <2>1, <2>2 DEF Wanted, Reading
  <1> QED
    BY <1>1, <1>2, BuildSteps DEF BlobsStep, Blobs!vars

(* With a build that breaks off goes what it was extracting, and nothing    *)
(* else: what there is of it in the directory is less than a whole upload.  *)
LEMMA BreaksOff ==
  ASSUME FilesInv, Tidy, NEW ended \in SUBSET BuildIds, UNCHANGED staged,
         \A b \in BuildIds \ ended : build'[b] = build[b],
         \A b \in ended : build'[b].at # "extract",
         cut' = cut \cup UNION {Half(b) : b \in ended}
  PROVE  Blobs!Breaks(ended)
  <1> DEFINE lost == {pair \in ended \X Hashes :
                        /\ build[pair[1]].at = "extract"
                        /\ build[pair[1]].hash = pair[2]}
  <1>1. lost \subseteq {pair \in ended \X Hashes :
                          pair[2] \in Wanted[pair[1]] /\ pair[1] \notin Reading}
    <2> SUFFICES ASSUME NEW b \in ended, NEW h \in Hashes,
                        build[b].at = "extract", build[b].hash = h
                 PROVE  h \in Wanted[b] /\ b \notin Reading
      OBVIOUS
    <2>1. h \in build[b].todo /\ TidyBuild(build[b])
      BY DEF FilesInv, ExtractsWhole, Tidy
    <2> QED
      BY <2>1 DEF Wanted, Reading, TidyBuild
  <1>2. cut \subseteq cut' /\ cut' \subseteq cut \cup lost
    <2> SUFFICES ASSUME NEW b \in ended, NEW h \in Hashes, build[b].hash = h
                 PROVE  build[b].at = "extract"
      BY DEF Half
    <2> QED
      BY FilesAssumption DEF Tidy, TidyBuild
  <1>3. ASSUME NEW b \in BuildIds, NEW h \in Hashes
        PROVE  Holding'[b][h] = IF <<b, h>> \in lost THEN {} ELSE Holding[b][h]
    <2>1. Holding[b][h] = TakenOf(build[b], staged[b], h)
      BY HoldingIs DEF AllTaken
    <2>2. Holding'[b][h] = TakenOf(build'[b], staged[b], h)
      BY HoldingIs DEF AllTaken
    <2>3. CASE <<b, h>> \in lost
      <3>1. Partial(staged[b][h], build[b].file.from)
        BY <2>3 DEF FilesInv, ExtractsWhole
      <3>2. staged[b][h].chunks \in Nat
        BY DEF FilesInv, TypeOK, Copies
      <3>3. ~Whole(staged[b][h])
        BY <3>1, <3>2, FilesAssumption DEF Partial, Whole
      <3>4. Holding'[b][h] = Shown(staged[b][h])
        BY <2>2, <2>3 DEF TakenOf
      <3> QED
        BY <2>3, <3>3, <3>4, ShownFacts
    <2>4. CASE <<b, h>> \notin lost
      BY <2>1, <2>2, <2>4 DEF TakenOf
    <2> QED
      BY <2>3, <2>4
  <1>4. Holding' = [b \in BuildIds |-> [h \in Hashes |->
                      IF <<b, h>> \in lost THEN {} ELSE Holding[b][h]]]
    BY <1>3, HoldingIs DEF AllTaken
  <1> HIDE DEF lost
  <1> QED
    BY <1>1, <1>2, <1>4 DEF Blobs!Breaks

LEMMA BuildOverBlobs ==
  ASSUME FilesInv, Tidy, NEW b \in BuildIds, BuildOver(b),
         UNCHANGED <<now, secret, asking, links, cache, upload>>
  PROVE  Tidy' /\ BlobsStep
  <1> DEFINE next == [NoBuild EXCEPT !.at = "clear"]
  <1>1. /\ next.at = "clear" /\ next.todo = {} /\ next.needs = {}
        /\ next.hash = NoHash
    BY DEF NoBuild
  <1>2. PICK dir : dir = staged[b] /\ staged' = [staged EXCEPT ![b] = dir]
    BY DEF BuildOver, FilesInv, TypeOK
  <1>3. /\ build' = [build EXCEPT ![b] = next] /\ UNCHANGED staged
        /\ cut' = cut \cup Half(b) /\ build \in [BuildIds -> Builds]
    BY DEF BuildOver, FilesInv, TypeOK
  <1> HIDE DEF next
  <1>4. TidyBuild(next)
    BY <1>1 DEF TidyBuild
  <1>5. Moves(b, next, dir)
    BY <1>1, <1>2, <1>3, <1>4 DEF Moves
  <1>6. /\ Tidy' /\ UNCHANGED <<secret, asking, Invited, Sending, Stored>>
        /\ Wanted' = [Wanted EXCEPT ![b] = {}]
        /\ Reading' = Reading \ {b}
    <2>1. next.needs = {} /\ ~(next.at = "docker")
      BY <1>1
    <2> QED
      BY <1>5, <2>1, BuildSteps
  <1>7. Blobs!Breaks({b})
    <2>1. cut' = cut \cup UNION {Half(x) : x \in {b}}
      BY <1>3
    <2>2. /\ \A x \in BuildIds \ {b} : build'[x] = build[x]
          /\ \A x \in {b} : build'[x].at # "extract"
      BY <1>1, <1>3
    <2> QED
      BY <1>3, <2>1, <2>2, BreaksOff
  <1>8. Blobs!Finish(b)
    BY <1>6, <1>7 DEF Blobs!Finish
  <1> QED
    BY <1>6, <1>8 DEF BlobsStep, Blobs!Next

(* What is left of a directory is not what was taken any more.              *)
LEMMA UnlinkBlobs ==
  ASSUME FilesInv, Tidy, NEW b \in BuildIds, Unlink(b)
  PROVE  Tidy' /\ BlobsStep
  <1>1. PICK h \in Hashes :
          /\ staged' = [staged EXCEPT ![b][h] = Without(staged[b][h])]
          /\ cut' = IF Without(staged[b][h]) = Nothing THEN cut \ {<<b, h>>}
                                                        ELSE cut \cup {<<b, h>>}
    BY DEF Unlink
  <1>2. PICK dir : dir = [staged[b] EXCEPT ![h] = Without(staged[b][h])]
    OBVIOUS
  <1>3. PICK next : next = build[b]
    OBVIOUS
  <1>4. /\ next.at = "clear" /\ TidyBuild(next) /\ next.needs = {}
        /\ UNCHANGED <<now, secret, asking, links, cache, upload, build>>
    BY <1>3 DEF Unlink, Tidy, TidyBuild
  <1>5. /\ staged' = [staged EXCEPT ![b] = dir]
        /\ build' = [build EXCEPT ![b] = next]
    BY <1>1, <1>2, <1>3, <1>4 DEF FilesInv, TypeOK
  <1>6. /\ staged[b] \in [Hashes -> Copies]
        /\ dir = [staged[b] EXCEPT ![h] = Without(staged[b][h])]
    BY <1>2 DEF FilesInv, TypeOK
  <1>7. Moves(b, next, dir)
    BY <1>4, <1>5 DEF Moves
  <1>8. /\ Tidy' /\ UNCHANGED <<secret, asking, Invited, Sending, Stored>>
        /\ Wanted' = [Wanted EXCEPT ![b] = next.needs]
        /\ Holding' = [Holding EXCEPT ![b] = AllTaken(next, dir)]
        /\ Reading' = Reading \ {b}
    <2>1. ~(next.at = "docker")
      BY <1>4
    <2> QED
      BY <1>7, <2>1, BuildSteps
  <1>9. /\ UNCHANGED <<Wanted, Reading>> /\ Wanted[b] = {}
    BY <1>3, <1>4, <1>8 DEF Wanted, Reading
  <1>10. ~Whole(Without(staged[b][h]))
    <2>1. PICK copy \in Copies : copy = staged[b][h]
      BY <1>6
    <2>2. CASE copy.chunks <= 1
      BY <2>1, <2>2, NothingShown DEF Without
    <2>3. CASE ~(copy.chunks <= 1)
      <3>1. copy.chunks \in 0..Chunks
        BY DEF Copies
      <3>2. Without(copy).chunks = copy.chunks - 1
        BY <2>3 DEF Without, Copies
      <3> QED
        BY <2>1, <3>1, <3>2, FilesAssumption DEF Whole
    <2> QED
      BY <2>2, <2>3
  <1>11. AllTaken(next, dir) = [Holding[b] EXCEPT ![h] = {}]
    <2>1. \A x \in Hashes : TakenOf(next, dir, x) =
            IF x = h THEN {} ELSE TakenOf(build[b], staged[b], x)
      BY <1>3, <1>4, <1>6, <1>10, ShownFacts DEF TakenOf
    <2> QED
      BY <2>1, HoldingIs DEF AllTaken
  <1>12. Holding' = [Holding EXCEPT ![b][h] = {}]
    BY <1>8, <1>11, HoldingIs
  <1>13. Blobs!Discard(b, h)
    BY <1>1, <1>8, <1>9, <1>12 DEF Blobs!Discard
  <1> QED
    BY <1>8, <1>13 DEF BlobsStep, Blobs!Next

LEMMA RemovalEndsBlobs ==
  ASSUME FilesInv, Tidy, NEW b \in BuildIds, RemovalEnds(b)
  PROVE  Tidy' /\ BlobsStep
  <1> DEFINE next == [build[b] EXCEPT !.at = "done"]
  <1>1. /\ build[b] \in Builds /\ build \in [BuildIds -> Builds]
        /\ build[b].at = "clear" /\ TidyBuild(build[b])
        /\ UNCHANGED <<now, secret, asking, links, cache, upload, staged, cut>>
    BY BuildsAreSound DEF RemovalEnds, FilesInv, TypeOK, Tidy
  <1>2. build' = [build EXCEPT ![b] = next]
    BY <1>1 DEF RemovalEnds
  <1>3. /\ next.at = "done" /\ next.hash = build[b].hash
        /\ next.todo = build[b].todo /\ next.needs = build[b].needs
    BY <1>1 DEF Builds
  <1> HIDE DEF next
  <1>4. TidyBuild(next)
    BY <1>1, <1>3 DEF TidyBuild
  <1>5. PICK dir : dir = staged[b] /\ staged' = [staged EXCEPT ![b] = dir]
    BY <1>1 DEF FilesInv, TypeOK
  <1>6. \A x \in Hashes : TakenOf(next, dir, x) = TakenOf(build[b], staged[b], x)
    BY <1>1, <1>3, <1>5 DEF TakenOf
  <1>7. Moves(b, next, dir)
    BY <1>1, <1>2, <1>4, <1>5 DEF Moves
  <1> QED
    BY <1>1, <1>3, <1>6, <1>7, UnseenStep

LEMMA BuildBeginBlobs ==
  ASSUME FilesInv, Tidy, NEW b \in BuildIds, BuildBegin(b)
  PROVE  Tidy' /\ BlobsStep
  <1>1. PICK needs \in (SUBSET Hashes) \ {{}} :
          build' = [build EXCEPT ![b] = [NoBuild EXCEPT !.at = "next",
                      !.todo = needs, !.needs = needs]]
    BY DEF BuildBegin
  <1> DEFINE next == [NoBuild EXCEPT !.at = "next", !.todo = needs, !.needs = needs]
  <1>2. /\ next.at = "next" /\ next.todo = needs /\ next.needs = needs
        /\ next.hash = NoHash
    BY DEF NoBuild
  <1>3. /\ build[b].at = "absent" /\ build[b].needs = {}
        /\ UNCHANGED <<now, secret, asking, links, cache, upload, staged, cut>>
    BY DEF BuildBegin, NoBuild
  <1> HIDE DEF next
  <1>4. TidyBuild(next)
    BY <1>1, <1>2 DEF TidyBuild
  <1>5. PICK dir : dir = staged[b] /\ staged' = [staged EXCEPT ![b] = dir]
    BY <1>3 DEF FilesInv, TypeOK
  <1>6. build' = [build EXCEPT ![b] = next]
    BY <1>1 DEF next
  <1>7. /\ Tidy' /\ UNCHANGED <<secret, asking, Invited, Sending, Stored>>
        /\ Wanted' = [Wanted EXCEPT ![b] = needs]
        /\ Holding' = [Holding EXCEPT ![b] = AllTaken(next, dir)]
        /\ Reading' = Reading \ {b}
    <2>1. Moves(b, next, dir)
      BY <1>2, <1>3, <1>4, <1>5, <1>6 DEF Moves
    <2> QED
      BY <1>2, <1>3, <1>4, <1>5, <1>6, <2>1, BuildSteps
  <1>8. Holding' = Holding
    <2>1. Holding[b] = AllTaken(next, dir)
      BY <1>2, <1>3, <1>5, HoldingIs DEF TakenOf, AllTaken
    <2> QED
      BY <1>7, <2>1, HoldingIs
  <1>9. Reading' = Reading /\ Wanted[b] = {}
    BY <1>3, <1>7 DEF Reading, Wanted
  <1>10. Blobs!Want(b, needs)
    BY <1>1, <1>3, <1>7, <1>8, <1>9 DEF Blobs!Want
  <1> QED
    BY <1>7, <1>10 DEF BlobsStep, Blobs!Next

LEMMA NextHashBlobs ==
  ASSUME FilesInv, Tidy, NEW b \in BuildIds, NextHash(b)
  PROVE  Tidy' /\ BlobsStep
  <1>1. /\ build[b].at = "next"
        /\ UNCHANGED <<now, secret, asking, links, cache, upload>>
    BY DEF NextHash
  <1>2. PICK h \in build[b].todo :
          \/ /\ staged[b][h] # Nothing
             /\ build' = [build EXCEPT ![b].todo = @ \ {h}]
             /\ UNCHANGED <<staged, cut>>
          \/ /\ staged[b][h] = Nothing /\ cache[h] # Nothing
             /\ build' = [build EXCEPT ![b].at = "extract", ![b].hash = h,
                                       ![b].file = cache[h]]
             /\ UNCHANGED <<staged, cut>>
          \/ /\ staged[b][h] = Nothing /\ cache[h] = Nothing
             /\ BuildOver(b)
    BY DEF NextHash
  <1>3. /\ build[b] \in Builds /\ h \in Hashes
        /\ build \in [BuildIds -> Builds]
        /\ TidyBuild(build[b])
    BY BuildsAreSound DEF Builds, FilesInv, TypeOK, Tidy
  <1>4. PICK dir : dir = staged[b] /\ (UNCHANGED staged =>
                     staged' = [staged EXCEPT ![b] = dir])
    BY DEF FilesInv, TypeOK
  <1>5. CASE /\ staged[b][h] # Nothing
             /\ build' = [build EXCEPT ![b].todo = @ \ {h}]
             /\ UNCHANGED <<staged, cut>>
    <2> DEFINE next == [build[b] EXCEPT !.todo = @ \ {h}]
    <2>1. build' = [build EXCEPT ![b] = next]
      BY <1>3, <1>5
    <2>2. /\ next.at = "next" /\ next.hash = build[b].hash
          /\ next.todo = build[b].todo \ {h} /\ next.needs = build[b].needs
      BY <1>1, <1>3 DEF Builds
    <2> HIDE DEF next
    <2>3. TidyBuild(next)
      BY <1>1, <1>3, <2>2 DEF TidyBuild
    <2>4. \A x \in Hashes : TakenOf(next, dir, x) = TakenOf(build[b], staged[b], x)
      BY <1>1, <1>4, <2>2 DEF TakenOf
    <2> QED
      <3>1. Moves(b, next, dir)
        BY <1>1, <1>4, <1>5, <2>1, <2>2, <2>3, <2>4 DEF Moves
      <3> QED
        BY <1>1, <1>4, <1>5, <2>1, <2>2, <2>3, <2>4, <3>1, UnseenStep
  <1>6. CASE /\ staged[b][h] = Nothing /\ cache[h] # Nothing
             /\ build' = [build EXCEPT ![b].at = "extract", ![b].hash = h,
                                       ![b].file = cache[h]]
             /\ UNCHANGED <<staged, cut>>
    <2> DEFINE next == [build[b] EXCEPT !.at = "extract", !.hash = h,
                                        !.file = cache[h]]
    <2>1. build' = [build EXCEPT ![b] = next]
      BY <1>3, <1>6
    <2>2. /\ next.at = "extract" /\ next.hash = h /\ next.file = cache[h]
          /\ next.todo = build[b].todo /\ next.needs = build[b].needs
      BY <1>3 DEF Builds
    <2> HIDE DEF next
    <2>3. TidyBuild(next)
      BY <1>1, <1>3, <2>2 DEF TidyBuild
    <2>4. Stored[h] = Shown(cache[h]) /\ Stored[h] # {}
      BY <1>3, <1>6, ShownFacts DEF Stored, FilesInv, CachedIsWhole
    <2>5. Holding[b] = AllTaken(build[b], staged[b])
      BY HoldingIs
    <2>6. Holding[b][h] = {}
      BY <1>1, <1>3, <1>6, <2>5, NothingShown DEF AllTaken, TakenOf
    <2>7. AllTaken(next, dir) = [Holding[b] EXCEPT ![h] = Stored[h]]
      <3>1. \A x \in Hashes : TakenOf(next, dir, x) =
              IF x = h THEN Stored[h] ELSE TakenOf(build[b], staged[b], x)
        BY <1>1, <1>4, <2>2, <2>4 DEF TakenOf
      <3> QED
        BY <1>3, <2>5, <3>1 DEF AllTaken
    <2>8. /\ Tidy' /\ UNCHANGED <<secret, asking, Invited, Sending, Stored>>
          /\ Wanted' = [Wanted EXCEPT ![b] = next.needs]
          /\ Holding' = [Holding EXCEPT ![b] = AllTaken(next, dir)]
          /\ Reading' = Reading \ {b}
      <3>1. Moves(b, next, dir)
        BY <1>1, <1>4, <1>6, <2>1, <2>2, <2>3 DEF Moves
      <3> QED
        BY <1>1, <1>4, <1>6, <2>1, <2>2, <2>3, <3>1, BuildSteps
    <2>9. /\ UNCHANGED <<Wanted, Reading, cut>>
          /\ h \in Wanted[b] /\ <<b, h>> \notin cut
      BY <1>1, <1>3, <1>6, <2>2, <2>8
         DEF Wanted, Reading, TidyBuild, FilesInv, CutIsLeft
    <2>10. Holding' = [Holding EXCEPT ![b][h] = Stored[h]]
      BY <2>7, <2>8, HoldingIs
    <2>11. Blobs!Take(b, h)
      BY <2>4, <2>6, <2>8, <2>9, <2>10 DEF Blobs!Take
    <2> QED
      BY <1>3, <2>8, <2>11 DEF BlobsStep, Blobs!Next
  <1> QED
    BY <1>1, <1>2, <1>5, <1>6, BuildOverBlobs

LEMMA ExtractBlobs ==
  ASSUME FilesInv, Tidy, NEW b \in BuildIds, Extract(b)
  PROVE  Tidy' /\ BlobsStep
  <1>1. PICK h : h = build[b].hash
    OBVIOUS
  <1>2. PICK copy : copy = Extended(staged[b][h], build[b].file.from)
    OBVIOUS
  <1>3. PICK c \in Contents : build[b].file.from = {c}
    BY BuildsAreSound DEF Extract, BuildIsSound, Whole
  <1>4. /\ build[b].at = "extract" /\ h \in Hashes
        /\ build[b].file.chunks = Chunks /\ Whole(build[b].file)
        /\ Partial(staged[b][h], {c}) /\ staged[b][h] \in Copies
    BY <1>1, <1>3, BuildsAreSound DEF Extract, BuildIsSound, Whole
  <1>5. /\ copy.from = {c}
        /\ copy.chunks = Chunks => Whole(copy)
    BY <1>2, <1>3, <1>4, ExtendedCopy
  <1>6. PICK dir : dir = [staged[b] EXCEPT ![h] = copy]
    OBVIOUS
  <1>7. /\ dir[h] = copy
        /\ \A x \in Hashes \ {h} : dir[x] = staged[b][x]
    BY <1>4, <1>6, BuildsAreSound
  <1>8. /\ staged' = [staged EXCEPT ![b] = dir]
        /\ UNCHANGED <<now, secret, asking, links, cache, upload, cut>>
    BY <1>1, <1>2, <1>6 DEF Extract, FilesInv, TypeOK
  <1>9. /\ build[b] \in Builds /\ build \in [BuildIds -> Builds]
        /\ TidyBuild(build[b])
    BY BuildsAreSound DEF FilesInv, TypeOK, Tidy
  <1>10. CASE copy.chunks = Chunks
    <2> DEFINE next == [build[b] EXCEPT !.at = "next", !.hash = NoHash,
                                        !.todo = @ \ {h}, !.file = Nothing]
    <2>1. build' = [build EXCEPT ![b] = next]
      BY <1>1, <1>2, <1>4, <1>9, <1>10 DEF Extract
    <2>2. /\ next.at = "next" /\ next.hash = NoHash
          /\ next.todo = build[b].todo \ {h} /\ next.needs = build[b].needs
      BY <1>9 DEF Builds
    <2> HIDE DEF next
    <2>3. TidyBuild(next)
      BY <1>4, <1>9, <2>2 DEF TidyBuild
    <2>4. Shown(copy) = {c} /\ Shown(build[b].file) = {c}
      BY <1>3, <1>4, <1>5, <1>10, ShownFacts
    <2>5. \A x \in Hashes : TakenOf(next, dir, x) = TakenOf(build[b], staged[b], x)
      BY <1>1, <1>4, <1>7, <2>2, <2>4 DEF TakenOf
    <2> QED
      <3>1. Moves(b, next, dir)
        BY <1>4, <1>8, <2>1, <2>2, <2>3, <2>5 DEF Moves
      <3> QED
        BY <1>4, <1>8, <2>1, <2>2, <2>3, <2>5, <3>1, UnseenStep
  <1>11. CASE copy.chunks # Chunks
    <2>1. build' = [build EXCEPT ![b] = build[b]]
      BY <1>1, <1>2, <1>4, <1>9, <1>11 DEF Extract
    <2>2. PICK next : next = build[b]
      OBVIOUS
    <2>3. \A x \in Hashes : TakenOf(next, dir, x) = TakenOf(build[b], staged[b], x)
      BY <1>1, <1>4, <1>7, <2>2 DEF TakenOf
    <2> QED
      <3>1. Moves(b, next, dir)
        BY <1>4, <1>8, <1>9, <2>1, <2>2, <2>3 DEF Moves
      <3> QED
        BY <1>4, <1>8, <1>9, <2>1, <2>2, <2>3, <3>1, UnseenStep
  <1> QED
    BY <1>10, <1>11

LEMMA RunDockerBlobs ==
  ASSUME FilesInv, Tidy, NEW b \in BuildIds, RunDocker(b)
  PROVE  Tidy' /\ BlobsStep
  <1> DEFINE next == [build[b] EXCEPT !.at = "docker"]
  <1>1. /\ build[b] \in Builds /\ build \in [BuildIds -> Builds]
        /\ build[b].at = "next" /\ build[b].todo = {} /\ TidyBuild(build[b])
        /\ UNCHANGED <<now, secret, asking, links, cache, upload, staged, cut>>
    BY BuildsAreSound DEF RunDocker, FilesInv, TypeOK, Tidy
  <1>2. build' = [build EXCEPT ![b] = next]
    BY <1>1 DEF RunDocker
  <1>3. /\ next.at = "docker" /\ next.hash = build[b].hash
        /\ next.todo = {} /\ next.needs = build[b].needs
    BY <1>1 DEF Builds
  <1> HIDE DEF next
  <1>4. TidyBuild(next)
    BY <1>1, <1>3 DEF TidyBuild
  <1>5. PICK dir : dir = staged[b] /\ staged' = [staged EXCEPT ![b] = dir]
    BY <1>1 DEF FilesInv, TypeOK
  <1>6. /\ Tidy' /\ UNCHANGED <<secret, asking, Invited, Sending, Stored>>
        /\ Wanted' = [Wanted EXCEPT ![b] = next.needs]
        /\ Holding' = [Holding EXCEPT ![b] = AllTaken(next, dir)]
        /\ Reading' = Reading \cup {b}
    <2>1. Moves(b, next, dir)
      BY <1>1, <1>2, <1>3, <1>4, <1>5 DEF Moves
    <2> QED
      BY <1>1, <1>2, <1>3, <1>4, <1>5, <2>1, BuildSteps
  <1>7. Holding[b] = AllTaken(build[b], staged[b])
    BY HoldingIs
  <1>8. Holding' = Holding
    <2>1. Holding[b] = AllTaken(next, dir)
      BY <1>1, <1>3, <1>5, <1>7 DEF TakenOf, AllTaken
    <2> QED
      BY <1>6, <2>1, HoldingIs
  <1>9. Wanted' = Wanted /\ Wanted[b] = build[b].needs /\ Wanted[b] # {}
    BY <1>1, <1>3, <1>6 DEF Wanted, TidyBuild
  <1>10. ASSUME NEW h \in Wanted[b] PROVE Holding[b][h] # {} \/ <<b, h>> \in cut
    <2>1. h \in Hashes /\ staged[b][h] # Nothing
      BY <1>1, <1>9 DEF Builds, FilesInv, DoneIsStaged
    <2>2. Whole(staged[b][h]) \/ <<b, h>> \in cut
      BY <1>1, <2>1 DEF FilesInv, StagedIsWhole
    <2>3. Holding[b][h] = Shown(staged[b][h])
      BY <1>1, <1>7, <2>1 DEF AllTaken, TakenOf
    <2> QED
      BY <2>2, <2>3, ShownFacts
  <1>11. Blobs!Read(b)
    BY <1>1, <1>6, <1>8, <1>9, <1>10 DEF Blobs!Read
  <1> QED
    BY <1>6, <1>11 DEF BlobsStep, Blobs!Next

LEMMA BuildBlobs ==
  ASSUME FilesInv, Tidy, NEW b \in BuildIds,
         \/ BuildBegin(b) \/ NextHash(b) \/ Extract(b) \/ RunDocker(b)
         \/ BuildEnds(b) \/ Unlink(b) \/ RemovalEnds(b)
  PROVE  Tidy' /\ BlobsStep
  <1>1. BuildEnds(b) => Tidy' /\ BlobsStep
    BY BuildOverBlobs DEF BuildEnds
  <1> QED
    BY <1>1, BuildBeginBlobs, NextHashBlobs, ExtractBlobs, RunDockerBlobs,
       UnlinkBlobs, RemovalEndsBlobs

LEMMA RestartBlobs ==
  ASSUME FilesInv, Tidy, Restart
  PROVE  Tidy' /\ BlobsStep
  <1>1. /\ secret' = secret + 1 /\ asking' = {}
        /\ upload' = [u \in Uploaders |-> NoUpload]
        /\ build' = [b \in BuildIds |-> NoBuild]
        /\ cut' = cut \cup UNION {Half(b) : b \in BuildIds}
        /\ UNCHANGED <<now, links, cache, staged>>
    BY DEF Restart
  <1>2. Blobs!Breaks(BuildIds)
    BY <1>1, BreaksOff DEF NoBuild
  <1>3. Sending' = [u \in Uploaders |-> {}]
    BY <1>1, NobodySends DEF Sending
  <1>4. Wanted' = [b \in BuildIds |-> {}] /\ Reading' = {}
    BY <1>1 DEF Wanted, Reading, NoBuild
  <1>5. UNCHANGED <<Invited, Stored>>
    BY <1>1 DEF Invited, Stored
  <1>6. Blobs!Die
    BY <1>1, <1>2, <1>3, <1>4, <1>5 DEF Blobs!Die
  <1>7. Tidy'
    BY <1>1 DEF Tidy, UploadsTidy, TidyBuild, NoUpload, NoBuild
  <1> QED
    BY <1>6, <1>7 DEF BlobsStep, Blobs!Next

LEMMA BlobsInit == Init => Tidy /\ Blobs!Init
  <1> SUFFICES ASSUME Init PROVE Tidy /\ Blobs!Init
    OBVIOUS
  <1>1. Tidy
    BY DEF Init, Tidy, UploadsTidy, TidyBuild, NoUpload, NoBuild
  <1>2. Invited = {} /\ Sending = [u \in Uploaders |-> {}]
    BY NobodySends DEF Init, Invited, Sending
  <1>3. Stored = [h \in Hashes |-> {}]
    BY NothingShown DEF Init, Stored
  <1>4. Wanted = [b \in BuildIds |-> {}] /\ Reading = {}
    BY DEF Init, Wanted, Reading, NoBuild
  <1>5. Holding = [b \in BuildIds |-> Blobs!Untaken]
    <2>1. ASSUME NEW b \in BuildIds
          PROVE  AllTaken(build[b], staged[b]) = Blobs!Untaken
      BY NothingShown DEF Init, NoBuild, AllTaken, TakenOf, Blobs!Untaken
    <2> QED
      BY <2>1, HoldingIs
  <1> QED
    BY <1>1, <1>2, <1>3, <1>4, <1>5 DEF Init, Blobs!Init

LEMMA BlobsNext == FilesInv /\ Tidy /\ [Next]_vars => Tidy' /\ BlobsStep
  <1> SUFFICES ASSUME FilesInv, Tidy, [Next]_vars PROVE Tidy' /\ BlobsStep
    OBVIOUS
  <1>1. ASSUME NEW u \in Uploaders,
               PutBegin(u) \/ Write(u) \/ Rename(u) \/ PutFails(u)
        PROVE  Tidy' /\ BlobsStep
    BY <1>1, PutBeginBlobs, WriteBlobs, RenameBlobs, PutFailsBlobs
  <1>2. ASSUME NEW b \in BuildIds,
               \/ BuildBegin(b) \/ NextHash(b) \/ Extract(b) \/ RunDocker(b)
               \/ BuildEnds(b) \/ Unlink(b) \/ RemovalEnds(b)
        PROVE  Tidy' /\ BlobsStep
    BY <1>2, BuildBlobs
  <1>3. CASE UNCHANGED vars
    <2>1. UNCHANGED <<now, secret, asking, links, cache, upload, build, staged, cut>>
      BY <1>3 DEF vars
    <2>2. UNCHANGED <<secret, asking, Invited, Sending, Stored, Wanted, Holding, Reading, cut>>
      BY <2>1, BuildsUnseen DEF Invited, Sending, Stored
    <2>3. Tidy'
      BY <2>1, BuildsUnseen DEF Tidy, UploadsTidy
    <2> QED
      BY <2>2, <2>3 DEF BlobsStep, Blobs!vars
  <1> QED
    BY <1>1, <1>2, <1>3, FindMissingBlobs, SignLinkBlobs, TickBlobs, RestartBlobs
       DEF Next

(* The .part files, renames, open files, extractions and removals, with     *)
(* uploads and builds that race, break off and die with the process, are a  *)
(* store in which a blob appears and is taken in one instant each, and what *)
(* is left half way is marked (Put, PrepareContext, extractTar, Execute).   *)
THEOREM UploadsImplementBlobStore == Spec => BlobsImplemented
  <1>1. Init => Blobs!Init /\ Tidy
    BY BlobsInit
  <1>2. FilesInv /\ Tidy /\ [Next]_vars => Tidy' /\ [Blobs!Next]_(Blobs!vars)
    BY BlobsNext DEF BlobsStep
  <1> QED
    BY <1>1, <1>2, FilesInvariant, PTL DEF Spec, BlobsImplemented, Blobs!Spec
=============================================================================
