----------------------------- MODULE FileUploads -----------------------------
(***************************************************************************)
(* The files of COPY steps: the link handler and the upload handler        *)
(* (internal/api/control/files.go), the signer of upload links and the     *)
(* cache of blobs (internal/template/filecache), and the extraction of     *)
(* blobs into a build's directory (builder/staging.go, executor.go).       *)
(*                                                                         *)
(* A blob is a number of chunks: what a stream of bytes carries up to some *)
(* point.  The hash is the client's word and nobody compares it with the   *)
(* bytes, so two uploads of one hash may differ.  Time is in half seconds, *)
(* because the signer truncates to seconds.                                *)
(***************************************************************************)
EXTENDS Naturals, FiniteSets

CONSTANTS
  Hashes,      \* hashes of the files of COPY steps
  Contents,    \* what clients may send under a hash
  Chunks,      \* the size of every blob
  Uploaders,   \* upload requests that may run at once
  BuildIds,    \* builds; the directory of a build is named by its id
  NoHash,      \* no hash
  TTL,         \* the lifetime of a link, in half seconds
  MaxLinks,    \* bound: how many links are signed
  MaxTime,     \* bound: how long the system is looked at, in half seconds
  MaxCrashes   \* bound: how often the edvabe process dies

ASSUME FilesAssumption ==
  /\ NoHash \notin Hashes
  /\ Chunks \in Nat \ {0}
  /\ TTL \in Nat \ {0}
  /\ MaxLinks \in Nat /\ MaxTime \in Nat /\ MaxCrashes \in Nat

VARIABLES
  now,      \* the clock
  secret,   \* Signer.secret: how many processes there were before this one
  asking,   \* hashes that link requests have found missing and sign next
  links,    \* links in the hands of clients
  cache,    \* <root>/<hash>.tar
  upload,   \* per uploader: its Put and the .part file it writes
  build,    \* per build id: its executor
  staged,   \* <buildDir>/ctx/<hash>
  cut       \* history: <<build, hash>> left in the middle of an extraction or
            \* of a removal

vars == <<now, secret, asking, links, cache, upload, build, staged, cut>>

(* A file or a directory that chunks are copied into; from: whose chunks.   *)
Copies == [from : SUBSET Contents, chunks : 0..Chunks]
Nothing == [from |-> {}, chunks |-> 0]
Extended(copy, source) ==
  [from |-> copy.from \cup source, chunks |-> copy.chunks + 1]
Whole(copy) == copy.chunks = Chunks /\ \E c \in Contents : copy.from = {c}

Links == [hash : Hashes, secret : 0..MaxCrashes,
          expiry : 0..(MaxTime + TTL), signed : 0..MaxTime]

NoUpload == [at |-> "idle", hash |-> NoHash, content |-> {}, part |-> Nothing]
Uploads == [at : {"idle", "write", "rename"}, hash : Hashes \cup {NoHash},
            content : SUBSET Contents, part : Copies]

NoBuild == [at |-> "absent", todo |-> {}, needs |-> {}, hash |-> NoHash,
            file |-> Nothing]
Builds == [at : {"absent", "next", "extract", "docker", "clear", "done"},
           todo : SUBSET Hashes, needs : SUBSET Hashes,
           hash : Hashes \cup {NoHash}, file : Copies]

TypeOK ==
  /\ now \in 0..MaxTime
  /\ secret \in 0..MaxCrashes
  /\ asking \subseteq Hashes
  /\ links \subseteq Links
  /\ cache \in [Hashes -> Copies]
  /\ upload \in [Uploaders -> Uploads]
  /\ build \in [BuildIds -> Builds]
  /\ staged \in [BuildIds -> [Hashes -> Copies]]
  /\ cut \subseteq BuildIds \X Hashes

Init ==
  /\ now = 0 /\ secret = 0 /\ asking = {} /\ links = {}
  /\ cache = [h \in Hashes |-> Nothing]
  /\ upload = [u \in Uploaders |-> NoUpload]
  /\ build = [b \in BuildIds |-> NoBuild]
  /\ staged = [b \in BuildIds |-> [h \in Hashes |-> Nothing]]
  /\ cut = {}

-----------------------------------------------------------------------------
(* Links.                                                                   *)

Unix(time) == time \div 2

Sign(h) == [hash |-> h, secret |-> secret, expiry |-> Unix(now + TTL),
            signed |-> now]

(* Mutant: a link is dead in the second it expires. *)
VerifiesBefore(link, h) ==
  link.secret = secret /\ link.hash = h /\ Unix(now) < link.expiry

Verifies(link, h) ==
  link.secret = secret /\ link.hash = h /\ Unix(now) <= link.expiry

(* GET /templates/{id}/files/{hash}: Has, and if the blob is not there a    *)
(* link, although it may be there by then.  How many requests ask for one   *)
(* hash is left open.                                                       *)
FindMissing ==
  /\ \E h \in Hashes :
       cache[h] = Nothing /\ asking' = asking \cup {h}
  /\ UNCHANGED <<now, secret, links, cache, upload, build, staged, cut>>

SignLink ==
  /\ Cardinality(links) < MaxLinks
  /\ \E h \in asking :
       links' = links \cup {Sign(h)} /\ asking' \in {asking, asking \ {h}}
  /\ UNCHANGED <<now, secret, cache, upload, build, staged, cut>>

-----------------------------------------------------------------------------
(* PUT /_upload/{hash}.                                                     *)

(* Put of a blob that is present changes nothing and is left out. *)
PutBegin(u) ==
  /\ upload[u].at = "idle"
  /\ \E link \in links : \E h \in Hashes : \E content \in Contents :
       /\ Verifies(link, h)
       /\ cache[h] = Nothing
       /\ upload' = [upload EXCEPT ![u] =
            [at |-> "write", hash |-> h, content |-> {content}, part |-> Nothing]]
  /\ UNCHANGED <<now, secret, asking, links, cache, build, staged, cut>>

Received(u) == Extended(upload[u].part, upload[u].content)

(* Mutants: the blob is written in its place; the end of the stream is      *)
(* noticed one chunk too late.                                              *)
WriteInPlace(u) ==
  /\ upload[u].at = "write"
  /\ upload' = [upload EXCEPT ![u].part = Received(u),
       ![u].at = IF Received(u).chunks = Chunks THEN "rename" ELSE "write"]
  /\ cache' = [cache EXCEPT ![upload[u].hash] = Received(u)]
  /\ UNCHANGED <<now, secret, asking, links, build, staged, cut>>
WritePastEnd(u) ==
  /\ upload[u].at = "write"
  /\ upload' = [upload EXCEPT ![u].part = Received(u),
       ![u].at = IF Received(u).chunks > Chunks THEN "rename" ELSE "write"]
  /\ UNCHANGED <<now, secret, asking, links, cache, build, staged, cut>>

Write(u) ==
  /\ upload[u].at = "write"
  /\ upload' = [upload EXCEPT ![u].part = Received(u),
       ![u].at = IF Received(u).chunks = Chunks THEN "rename" ELSE "write"]
  /\ UNCHANGED <<now, secret, asking, links, cache, build, staged, cut>>

(* The .part file takes the place of what another Put may have put there. *)
Rename(u) ==
  /\ upload[u].at = "rename"
  /\ cache' = [cache EXCEPT ![upload[u].hash] = upload[u].part]
  /\ upload' = [upload EXCEPT ![u] = NoUpload]
  /\ UNCHANGED <<now, secret, asking, links, build, staged, cut>>

(* Mutant: the removal is of the blob, not of the .part file. *)
PutFailsBlob(u) ==
  /\ upload[u].at # "idle"
  /\ upload' = [upload EXCEPT ![u] = NoUpload]
  /\ cache' = [cache EXCEPT ![upload[u].hash] = Nothing]
  /\ UNCHANGED <<now, secret, asking, links, build, staged, cut>>

(* The client goes away, or the disk refuses: the .part file is removed. *)
PutFails(u) ==
  /\ upload[u].at # "idle"
  /\ upload' = [upload EXCEPT ![u] = NoUpload]
  /\ UNCHANGED <<now, secret, asking, links, cache, build, staged, cut>>

-----------------------------------------------------------------------------
(* A build's context.                                                       *)

(* A build runs once per process; its directory may be there already. *)
BuildBegin(b) ==
  /\ build[b] = NoBuild
  /\ \E needs \in (SUBSET Hashes) \ {{}} :
       build' = [build EXCEPT ![b] = [NoBuild EXCEPT !.at = "next",
                   !.todo = needs, !.needs = needs]]
  /\ UNCHANGED <<now, secret, asking, links, cache, upload, staged, cut>>

(* What an extraction of b that breaks off leaves half done. *)
Half(b) == {pair \in {b} \X Hashes :
              build[b].hash = pair[2] /\ staged[b][pair[2]] # Nothing}

(* The executor is about to return: its deferred RemoveAll comes first. *)
BuildOver(b) ==
  /\ build' = [build EXCEPT ![b] = [NoBuild EXCEPT !.at = "clear"]]
  /\ cut' = cut \cup Half(b)
  /\ UNCHANGED staged

(* PrepareContext goes on to a hash: a directory with something in it is    *)
(* taken for extracted, a blob that is missing ends the build.              *)
NextHash(b) ==
  /\ build[b].at = "next"
  /\ \E h \in build[b].todo :
       \/ /\ staged[b][h] # Nothing
          /\ build' = [build EXCEPT ![b].todo = @ \ {h}]
          /\ UNCHANGED <<staged, cut>>
       \/ /\ staged[b][h] = Nothing /\ cache[h] # Nothing
          /\ build' = [build EXCEPT ![b].at = "extract", ![b].hash = h,
                                    ![b].file = cache[h]]
          /\ UNCHANGED <<staged, cut>>
       \/ /\ staged[b][h] = Nothing /\ cache[h] = Nothing
          /\ BuildOver(b)
  /\ UNCHANGED <<now, secret, asking, links, cache, upload>>

(* Mutant: every chunk is read from the path, not from the open file. *)
ExtractReopened(b) ==
  LET h == build[b].hash
      copy == Extended(staged[b][h], cache[h].from)
  IN  /\ build[b].at = "extract"
      /\ staged' = [staged EXCEPT ![b][h] = copy]
      /\ build' = IF copy.chunks = build[b].file.chunks
                    THEN [build EXCEPT ![b].at = "next", ![b].hash = NoHash,
                                       ![b].todo = @ \ {h}, ![b].file = Nothing]
                    ELSE build
      /\ UNCHANGED <<now, secret, asking, links, cache, upload, cut>>

(* extractTar reads the file it has opened, whatever is renamed over it. *)
Extract(b) ==
  LET h == build[b].hash
      copy == Extended(staged[b][h], build[b].file.from)
  IN  /\ build[b].at = "extract"
      /\ staged' = [staged EXCEPT ![b][h] = copy]
      /\ build' = IF copy.chunks = build[b].file.chunks
                    THEN [build EXCEPT ![b].at = "next", ![b].hash = NoHash,
                                       ![b].todo = @ \ {h}, ![b].file = Nothing]
                    ELSE build
      /\ UNCHANGED <<now, secret, asking, links, cache, upload, cut>>

(* All hashes are there: docker build reads the context. *)
RunDocker(b) ==
  /\ build[b].at = "next" /\ build[b].todo = {}
  /\ build' = [build EXCEPT ![b].at = "docker"]
  /\ UNCHANGED <<now, secret, asking, links, cache, upload, staged, cut>>

(* docker build returns, or any step before it fails. *)
BuildEnds(b) ==
  /\ build[b].at \in {"next", "extract", "docker"}
  /\ BuildOver(b)
  /\ UNCHANGED <<now, secret, asking, links, cache, upload>>

Without(copy) ==
  IF copy.chunks <= 1 THEN Nothing ELSE [copy EXCEPT !.chunks = @ - 1]

(* RemoveAll goes from file to file. *)
Unlink(b) ==
  /\ build[b].at = "clear"
  /\ \E h \in Hashes :
       LET rest == Without(staged[b][h])
       IN  /\ staged[b][h] # Nothing
           /\ staged' = [staged EXCEPT ![b][h] = rest]
           /\ cut' = IF rest = Nothing THEN cut \ {<<b, h>>} ELSE cut \cup {<<b, h>>}
  /\ UNCHANGED <<now, secret, asking, links, cache, upload, build>>

(* Its error is dropped: it may have left anything. *)
RemovalEnds(b) ==
  /\ build[b].at = "clear"
  /\ build' = [build EXCEPT ![b].at = "done"]
  /\ UNCHANGED <<now, secret, asking, links, cache, upload, staged, cut>>

-----------------------------------------------------------------------------
Tick ==
  /\ now < MaxTime
  /\ now' = now + 1
  /\ UNCHANGED <<secret, asking, links, cache, upload, build, staged, cut>>

(* The process dies and starts again with another secret and no builds in   *)
(* its map; the blobs and the build directories stay.                       *)
Restart ==
  /\ secret < MaxCrashes
  /\ secret' = secret + 1
  /\ asking' = {}
  /\ upload' = [u \in Uploaders |-> NoUpload]
  /\ build' = [b \in BuildIds |-> NoBuild]
  /\ cut' = cut \cup UNION {Half(b) : b \in BuildIds}
  /\ UNCHANGED <<now, links, cache, staged>>

Next ==
  \/ FindMissing \/ SignLink
  \/ \E u \in Uploaders : PutBegin(u) \/ Write(u) \/ Rename(u) \/ PutFails(u)
  \/ \E b \in BuildIds :
       \/ BuildBegin(b) \/ NextHash(b) \/ Extract(b) \/ RunDocker(b)
       \/ BuildEnds(b) \/ Unlink(b) \/ RemovalEnds(b)
  \/ Tick
  \/ Restart

Spec == Init /\ [][Next]_vars

-----------------------------------------------------------------------------
(* A reader of the cache never sees a half-written blob, whatever uploads   *)
(* race, break off or are cut by a crash (filecache.go:15: "Writes are      *)
(* atomic via a .part sidecar that's renamed into place").                  *)
CachedIsWhole == \A h \in Hashes : cache[h] # Nothing => Whole(cache[h])

(* docker build finds for every hash the files of exactly one upload, all   *)
(* of them, also when another upload of the hash is renamed into place      *)
(* while they are extracted.  Not so for a build of an earlier process that *)
(* is started again: a directory in which an extraction or a removal has    *)
(* stopped half way is taken for extracted (staging.go:41), and only that.  *)
ContextIsOneUpload ==
  \A b \in BuildIds : build[b].at = "docker" =>
    \A h \in build[b].needs :
      Whole(staged[b][h]) \/ (<<b, h>> \in cut /\ secret > 0)

(* A link works for its hash as long as the process lives and for its TTL,  *)
(* truncated seconds or not, and no longer than one second more (Sign,      *)
(* Verify, signer.go:72 and 87).                                            *)
LinkLifetime ==
  \A link \in links : \A h \in Hashes :
    /\ Verifies(link, h) => /\ h = link.hash /\ link.secret = secret
                            /\ now < link.signed + TTL + 2
    /\ link.secret = secret /\ now <= link.signed + TTL => Verifies(link, link.hash)

-----------------------------------------------------------------------------
(* What a copy shows of an upload. *)
Shown(copy) == IF Whole(copy) THEN copy.from ELSE {}

(* A hash is taken when the blob is opened: what is renamed over it, while  *)
(* it is extracted, is not looked at.                                       *)
Taken(b, h) ==
  Shown(IF build[b].at = "extract" /\ build[b].hash = h THEN build[b].file
                                                        ELSE staged[b][h])

Invited == {<<link.hash, link.secret>> : link \in links}
Sending == [u \in Uploaders |-> {upload[u].hash} \X upload[u].content]
Stored  == [h \in Hashes |-> Shown(cache[h])]
Wanted  == [b \in BuildIds |-> build[b].needs]
Holding == [b \in BuildIds |-> [h \in Hashes |-> Taken(b, h)]]
Reading == {b \in BuildIds : build[b].at = "docker"}

Blobs == INSTANCE BlobStore WITH
  process <- secret, asking <- asking, invited <- Invited, sending <- Sending, stored <- Stored,
  wanted <- Wanted, taken <- Holding, reading <- Reading, spoilt <- cut

(* Links, uploads in pieces, renames, open files, extractions and restarts  *)
(* together are a store in which a blob appears, and is taken by a build,   *)
(* in one instant each: no race of two uploads and builds and no crash      *)
(* shows a mixture or a part, or takes a blob back (Put, filecache.go:92;   *)
(* PrepareContext, staging.go:29).                                          *)
BlobsImplemented == Blobs!Spec
=============================================================================
