# edvabe in TLA+

edvabe runs E2B sandboxes as local Docker containers: one Go process with an
HTTP API, an in-memory registry of sandboxes, a template store in a JSON file,
a build manager and a reverse proxy to the agents in the containers.  This
directory models the parts of it that keep state, checks them with TLC on small
instances, and proves their safety properties for every value of the constants with
TLAPS.
Paths below are relative to the repository.

1. [Inventory](#1-inventory)
2. [Modules and the code](#2-modules-and-the-code)
3. [Runs](#3-runs)
4. [Fairness and deadlock](#4-fairness-and-deadlock)
5. [Proofs](#5-proofs)
6. [Where the code departs from its own text](#6-where-the-code-departs-from-its-own-text)
7. [What is not modelled](#7-what-is-not-modelled)
8. [Plan](#8-plan)

## 1. Inventory

### Sandbox manager (`internal/sandbox`)
*State.* A map id -> Sandbox (`State` running/paused, `PauseMode` frozen/stopped,
`ExpiresAt`, `PausedAt`, `OnTimeout`) under one mutex.
*Operations.* `Create`, `Destroy`, `SetTimeout`, `Connect`, `Resume`, `Pause`,
`Stop`, `Snapshot`, `Get`/`List`; the reaper `EnforceTimeouts` called every tick by
`Run`; `Rehydrate` at start-up from the containers that are there.
*Interactions.* Handlers call it with the request's context; it calls the runtime
(Docker) and the agent provider (envd).
*Hard.* The mutex is never held across a call.  Every operation decides under the
lock, calls, and commits under the lock again without looking at what has changed;
the reaper does the same for whole lists of sandboxes.  Calls fail, take effect and
fail, or are cancelled because the client hung up.  The registry is lost in a crash,
the containers are not.
*Correct when.* No registry entry without a container and no container nobody
answers for; a destroyed sandbox stays destroyed; nothing is removed before it is
due and everything due is removed in the end; what the registry says of a sandbox
at rest is what its container is.

### Docker runtime (`internal/runtime/docker`)
*State.* `endpoints`, a cache sandbox -> agent address; everything else is the daemon's.
*Operations.* `Create` (create, start, inspect, with `forceRemove`), `Destroy`,
`Pause`, `Unpause`, `Stop`, `Start`, `ListManaged`, `AgentEndpoint`, `BuildImage`,
`Commit`, `Stats`.
*Hard.* Addresses are taken back by the daemon on stop and given to others; the
cache is refreshed only by `Create`, `Start` and `ListManaged`.
*Correct when.* A request for a sandbox that runs goes to its own container, and no
endpoint outlives its sandbox.

### Sandbox proxy (`internal/api/proxy.go`, `dispatch.go`, `parsehost.go`)
Stateless.  A request looks the sandbox up, resolves its endpoint and dials it: three
reads at three moments.

### Agent provider (`internal/agent/upstream`)
Stateless calls of envd: `Ping`, `InitAgent`, `WaitReady` with a deadline; image
building at start-up.

### Template store (`internal/template/store.go`)
*State.* Templates with their builds, and an index of aliases, in memory; one JSON
file, rewritten by every change through a temporary file and a rename.
*Operations.* `Create`, `Delete`, `UpdateMeta`, `AppendBuild`, `UpdateBuild`,
`SeedBuiltIn`, `ResolveAlias`, `Get`, `List`, loading at start-up.
*Hard.* A flush may fail after memory was changed; three operations take the change
back, three keep it.  The alias index is derived and must agree with the records
after every failure and every restart.
*Correct when.* Aliases and templates name each other; what was acknowledged
survives a crash; a rolled-back change leaves no trace.

### Template resolver (`internal/template/resolver.go`, `resolveTemplate` in `api/control`)
*State.* None of its own.  A name or id is looked up in the store's index, and the
record says which image and which start and ready commands a sandbox gets.
*Hard.* The record is written by `startBuild` before there is an image, by the build's
end, and by the seeding at start-up; the commands come with a request, the image with a
`docker build` that ends later, and builds of one template overlap.
*Correct when.* A template with a ready build opens as what was built, by id and by
name; a build that was started alone and became ready leaves its image with the
commands it brought.

### Build manager (`internal/template/builder/manager.go`, `ringbuf.go`, `executor.go`)
*State.* A map build id -> running build (status, log ring), memory only.
*Operations.* `Enqueue` (spawns a goroutine), the goroutine itself, `Status`, `Logs`.
The end of a build is reported to the store by a callback that runs under the
manager's lock.
*Hard.* Readers poll status and log under two locks while the goroutine writes both;
the log overwrites its oldest entries.
*Correct when.* Whoever sees a build finished can read its whole log and its outcome
in the store; a build called ready has an image; every build ends; the cursor of a
reader neither repeats nor loses an entry other than an evicted one.

### File cache, upload signer and staging (`internal/template/filecache`, `api/control/files.go`, `builder/staging.go`)
*State.* Blobs `<root>/<hash>.tar`, written to `.part` files and renamed; a secret per
process; a directory per build.
*Operations.* Link (`Has`, `Sign`), upload (`Verify`, `Put`), `PrepareContext`.
*Hard.* Two uploads of a hash race, streams break off, blobs are replaced while they
are read, and a crash leaves directories half extracted or half removed.
*Correct when.* Readers see whole blobs; a build's context is one upload per hash;
links live as long as they say.

### Control plane handlers (`internal/api/control`)
Goroutines that call the above; several cut one request into several locked
sections (`createTemplate`, `startBuild`, `getBuildStatus`).  Listing and pagination
are pure.  The stub lists of keys, tokens and volumes have no rules.

### Others
Dashboard, DNS server, doctor, image builders, no-op runtime and
the command line: see [section 7](#7-what-is-not-modelled).

### How they interact

    clients --HTTP--> handlers --> sandbox manager --> Docker runtime --> daemon
                          |            ^   |  agent provider --> envd     |
                          |         reaper |                              |
                          |                +---- Rehydrate at start ------+
                          +--> template store <--OnComplete-- build manager --> docker build
                          +--> file cache ------- blobs ------^
    SDK data plane --> proxy --> registry, endpoint cache --> envd in the container

## 2. Modules and the code

| Module | Models |
|---|---|
| `ContainerRuntime` | container status and whether envd has had its `/init`; which verb the daemon admits in which status (external, from how `destroy.go`, `create.go`, `list.go` call it) |
| `SandboxManager` | `manager.go` over that runtime, one action per locked section and one per call |
| `SandboxManagerProperties` | its properties and the inductive invariant `Ownership` |
| `SandboxLifecycle` | the abstract specification of a sandbox id, which `SandboxManager` implements |
| `SandboxManagerProofs` | types and `Ownership`, and what follows from it |
| `SandboxAgreementProofs` | what the registry says, who leaves it, and what holds while no call fails |
| `SandboxLifecycleProofs` | the refinement |
| `AgentEndpoints`, `AgentEndpointsProofs` | addresses, `Runtime.endpoints`, the proxy's three reads |
| `Templates`, `TemplateStore` | records and what the resolver makes of them; the store with its flushes and lookups |
| `RingBuffer` | `ringbuf.go` as operators on a record |
| `BuildManager` | the map of builds, the goroutine of a build, images |
| `TemplateBuilds` | composes store and build manager with the handlers, as `serve` wires them; crash and restart |
| `TemplateBuildsProperties` | what they promise together |
| `TemplateCatalog` | the abstract catalog of templates and builds, which `TemplateBuilds` implements |
| `TemplateBuildsProofs`, `BuildLogsProofs` | the proofs: store, builds and images; readers of logs, with the ring's own theorems |
| `TemplateCatalogProofs` | the refinement |
| `FileUploads`, `FileUploadsProofs` | links, uploads, the blob cache, extraction into build directories |
| `BlobStore` | the abstract store of blobs, which `FileUploads` implements |
| `MC*` | symmetry sets of the instances; the `.cfg` files give the constants |

### SandboxManager
`pc[c]` is the call or locked section the request of handler `c` is about to perform,
`target[c]` its sandbox, `live[c]` whether its context is still good.  A request is a
`...Begin` action (the locked head, with its early returns as guards), one action per
runtime or agent call, and a locked tail (`Register`, `SetRunning`, `SetFrozen`,
`SetStopped`).  Early returns that change nothing are not steps, a request that cannot
go on simply does not begin.

A call (`Call`, `LastCall`, `AgentCall`) has three outcomes: it succeeds; it is refused
(wrong status, cancelled context, or `Faults`); it takes effect and still returns an
error (`Faults`, or the client hangs up meanwhile).  `LastCall` is a call after whose
failure nobody looks at the container again, which is how `strays` arise.

The reaper is one more process: `Collect` is the locked section of `EnforceTimeouts`
that fills `toKill`, `toPause`, `toDemote` and `toGC`; the other `Sweep...` actions empty
the lists in the order of the code, with `stage` and `item` for the sandbox between a
call and its commit.  Map iteration leaves the order inside a list open, and so does
the model.

Time is relative: `ttl[s]` is `ExpiresAt - now`, `age[s]` is `now - PausedAt`, both cut off
where the code stops telling values apart.  `ttl = 0` is "not after now".  A sweep
reads the clock once; `sweepAge` is how old that reading is at its commits.

`Crash` loses memory and keeps containers, `Rehydrate` adopts what `ListManaged` reports,
with the state, pause mode and deadline `sandboxFromManaged` gives it.

`strays`, `contended` and `destroyed` are history: they exist for the properties and guard
nothing.  `contended` collects ids on which two actors were at work at once or a call
failed; `destroyed` the ids whose `Destroy` returned nil.

### SandboxLifecycle
What is left of a sandbox when its inside is hidden: an id is `unborn`, `requested`,
`present` (it has a container) or `gone`, in this order; it may be `served` only while it
is present, and goes only when it is not served.  The mapping (`Lifecycle` in
`SandboxManagerProperties`) reads the phase off `minted`, the container and the pending
`ContainerCreate`, `served` is the registry and `acknowledged` is `destroyed`.  Pausing,
failing calls and the reaper's bookkeeping are stutters; a restart withdraws everything
and serves again what it adopts.

### AgentEndpoints
The manager appears only as the caller that registers, marks and unregisters; what
matters is when the daemon takes an address back and when the cache hears of it.
`Boot`, `Inspect`, `Cache`, `Register` are the steps of `Create` and of `Start` with
`resumeStopped`; `Halt`/`SetStopped` of `Stop`; `DestroyBegin`, `Remove`, `Uncache` of
`Destroy`.  The proxy is `LookUp`, `Resolve`, `Dial`.  An id whose container is gone may be
used again: it stands for the next fresh id.  Pausing keeps the address and is left
out.  A removal that took effect and returned an error leaves its endpoint cached:
`contended` records it and `NoDeadEndpoint` excepts it.

### Templates and builds
Every store operation holds its lock throughout and is one step with a Boolean `ok`
for its flush.  `FlushOrUndo` and `FlushOrKeep` are the two ways the code answers a
failed flush.  A handler is cut where it leaves a lock: `CreateTemplate`,
`ResolveExisting`, `RecordBuild` for `createTemplate`; `StartBuild`, `SetImageTag`, `Enqueue`
for `startBuild`; `PollStatus`, `PollLogs` for the two reads of a poll.  A log entry is its
own absolute index, so "which entries" can be compared with "which were written".
A reader's `over` says that the status it read was terminal and that the log it then read
had no limit: the answer after which a client may stop polling.

A build's id comes with the path, and no id is refused: `StartBuild` takes any, whether it was
recorded for this template, for another or for none (`AnyBuild` bounds that).  What a client
made up counts as handed out.  A name a client chooses may be the id of another template it
knows, and then `Lookup` finds that one first.

A record's `image` is which tag `ImageTag` holds (the base image's or the template's own),
and `commands` which build's request brought `StartCmd` and `ReadyCmd`, each by itself:
`CommandsAfter` is the assignment in `startBuild`, which sets a command that the request
brings and leaves one that it does not bring as it was, whether or not the build is then
accepted.  `images[t]` is the build whose `docker build` tagged the template's image last;
a build may tag it and still fail, when the stream of its output breaks (`DockerFails`).
A build forgets the parent it was given when its executor returns (`Returns`).  `Lookup` is
the index, by id first and then by alias; `ResolvedImage` is the fallback chain of
`resolver.go`.
`issued`, `deleted` and `brought` are history.  `brought` says, per template and command,
which start brought it last, if that start was `Alone`: no other build of the template under
way, this one not started before, the record written.  It guards nothing: commands of builds
that overlapped, failed or were started again stay where the code leaves them.

### TemplateCatalog
One catalog that changes by one whole operation at a time: a template of a new id and
name, a build of a new id, the removal of a template, the outcome of a build, a build id
that a client makes up and nobody is handed any more.  It can close
and open again, and then a lookup finds what is listed.  The mapping (`Catalog` in
`TemplateBuildsProperties`) takes what is listed, recorded and ended from the file
(`NamesIn`, `BuildsIn`, `OutcomesIn` of `disk`) and what a lookup finds from the index of
aliases.  A flush that fails is then no operation at all, whether the code takes memory back
or keeps the change; a kept change (`UpdateMeta`, `UpdateBuild`) shows when the next flush
takes it along, which is why an outcome may be recorded late, with any step, but never
taken back.  A crash closes the catalog, loading and seeding open it.

### FileUploads
A blob is a number of chunks and whose chunks they are, because nobody compares the
bytes with the hash: two uploads of a hash may differ.  `Put` is stat, the writing of
the `.part` file chunk by chunk, and the rename.  Extraction reads the file it opened.
A link is two steps, `Has` (`FindMissing`, whose answer `asking` keeps) and `Sign` (`SignLink`):
a blob may appear in between.  A build that is over removes its directory with
`os.RemoveAll`, file by file (`Unlink`), and the removal ends where it likes, since its error is
dropped (`RemovalEnds`), or where a crash cuts it.
The clock runs in half seconds because `Sign` and `Verify` truncate to seconds.  `cut` is
history: the directories in which an extraction or a removal has stopped half way.

### BlobStore
A hash shows nothing or one whole upload, sent by somebody the running process has
invited, and a build takes each hash it wants in one instant.  In the mapping (end of
`FileUploads`) the instants are the rename of `Put` and the opening of the blob by the
executor; stat, chunks, links that age and the copying of an extraction are stutters.  Who
asked for a blob while it was missing may be invited to send it when it is there.  The end
of a build and a crash take away from it only the hash it was extracting, what a build has
taken is then discarded hash by hash or by half, and `spoilt` says where a half is left: of
these alone a later build may read less than it takes.

## 3. Runs

| Run (`.cfg`) | Asks | Instance |
|---|---|---|
| `requests` (`MCRequests`) | do any three concurrent requests, the reaper and a restart leak, remove early, resurrect or misreport a sandbox? | 1 sandbox, 3 callers, all operations, both OnTimeout modes, 1 crash, no failing calls |
| `restarts` (`MCRestarts`) | the same with every failure and a restart; is `Ownership` an invariant; does the manager implement `SandboxLifecycle`? | 1 sandbox, 2 callers, `Faults`, `Disconnects`, 1 crash |
| `reaper` (`MCReaper`) | does everything due happen in the end? | 1 sandbox, 2 callers, no failures, fair |
| `frozen_cap` (`MCFrozenCap`) | does the number of frozen sandboxes come back under the cap? | 2 sandboxes, cap 1, age-based demotion off, fair |
| `endpoints` (`MCEndpoints`) | is a request to a sandbox at rest sent home, and no endpoint left behind? | 2 sandboxes, 2 addresses, 2 callers, 1 client, failures, 1 crash |
| `templates` (`MCTemplates`) | do aliases, memory, file, images, commands and outcomes agree under concurrent handlers and failing flushes; are image and commands of a build that was started alone its own? | 2 templates, 2 builds, 2 names, 1 command, 2 callers, failing flushes |
| `build_logs` (`MCBuildLogs`) | do store, handlers and restarts implement `TemplateCatalog`; what does a template resolve to; is the log delivered; do builds end? | 2 templates, a name that is a template's id, 1 build of any template, 1 caller, 1 reader, ring of 2, 1 crash, failing flushes, fair |
| `uploads` (`MCUploads`) | do readers see whole blobs and builds whole contexts; how long do links live; is it all a `BlobStore`? | 2 hashes, 2 contents, 2 uploaders, 1 build, 2 links, 1 crash |
| `hang_up`, `stale_demotion`, `stale_pause`, `seeded_parent` | does the code keep four statements of its comments? It does not: see [section 6](#6-where-the-code-departs-from-its-own-text) | the smallest instance that shows it |

What the properties of the passing runs say:

* `RegisteredHasContainer`, `NoLeak`, `Accounted`, `DestroyIsFinal`: who owns a container.
  `NoLeak` is for systems whose calls do not fail: there only a crash can leave a
  container without an owner, and only one whose `Create` it cut off before
  `ContainerStart`, which `ListManaged` filters out (list.go:20).  With failures `Accounted`
  says that every unowned container is one whose removal, creation or adoption returned
  an error.
* `QuiescentAgreement`: running means thawed and initialised, frozen means
  docker-paused, stopped means exited, for sandboxes at rest that never had two
  actors or a failure.  It holds across restarts.  The `PauseMode` of such a sandbox is
  empty whenever it is running, at rest or not.
* `OnlyDueRemovals` (OnTimeoutKill), `DestroySucceeds`: a renewal that was acknowledged
  protects a sandbox, and of all who want to remove it one wins.
* `CalmPauseSurvives`: an OnTimeoutPause sandbox that never had two actors or a failure is
  frozen at its deadline and never removed for it.  With `QuiescentAgreement` it bounds the
  two code bugs of section 6 about pauses: they need a second actor or a failing call.
* `LifecycleImplemented`: no interleaving, failure or restart reuses an id, brings a
  container back or takes it away while its id is served.
* `ExpiredReaped`, `FrozenDemoted`, `CapRestored`, `Reclaimed`: liveness.
* `RoutedHome`, `NoDeadEndpoint`: routing.
* `AliasesAgree`, `AcknowledgedIsDurable`, `FailedWritesLeaveNoTrace`,
  `TerminalIsPersisted`, `ReadyHasImage`, `FinishedStays`: store, file and builds.
* `CatalogImplemented`: no failed flush and no restart half applies a change, lets a name
  and the file disagree, takes an outcome back or hands an id out again.
* `ReadyResolves`: a template with a ready build of its own is found, and resolves to a tag
  that exists, while builds fail, overlap and are started again and flushes fail.  The builtin
  template is the builtin image again after a restart, and a name that is another
  template's id finds that one.
* `CommandsFitImage`: when the latest start of a build was alone and the build became ready, the
  commands it brought and the image are that build's, whatever was mixed up before.  It does
  not speak of commands that start did not bring, of a build that failed, or of builds that
  overlapped: there the code lets commands and image come from different builds.
* `LogDelivered`, `TerminalPollIsWhole`, `BuildsFinish`: following a build.
* `CachedIsWhole`, `ContextIsOneUpload`, `LinkLifetime`: files.  `BlobsImplemented`: no race
  of uploads and builds and no crash shows a mixture or a part of uploads, or takes a blob
  back.

Each property has a mutated definition (next to the definition it replaces, marked
"Mutant") that is a plausible bug and that the same run refutes.

### Bounds

* *One sandbox* in most manager runs: no action reads one sandbox's entry to change
  another's, except the cap, whose run has two.  What can go wrong goes wrong between
  actors, so the runs spend their states on callers.
* *Three callers* without failures, two with: three is the least at which one request
  can be overtaken by a complete other one while a third, and the reaper, interfere.
* *Sandbox ids* are minted once each, so a run ends a sandbox's life and does not begin
  another; `Sandboxes` bounds that number.
* *`Timeouts`* contains 0 (expired at once) and a value that outlives a tick;
  *`DefaultTimeout`* is 1.  *`MaxAge`* is where `age` saturates; it is at least
  `FreezeDuration` and `StoppedGCAfter`, beyond which the code no longer tells ages apart.
  *`FreezeDuration`* 1 and *`StoppedGCAfter`* 2 differ so that demotion and collection do not
  coincide; 0 stands for a negative duration, which disables.
* *`MaxCrashes`* is 1: a second restart starts from a state of the same kind.  It is 0 in
  `templates`, whose properties the proofs extend to restarts.
* *`AnyBuild`* is TRUE in `build_logs` and `seeded_parent`; in `templates`, where two callers and
  two builds are spent on overlaps, builds are started on the template they were recorded for,
  and the proofs extend its properties to any id.  *`Commands`* is one command: each is
  assigned by itself.
* *`First`*: `build_logs` checks temporal properties, which rule symmetry out; that the first
  template minted is `First` (`MCFairSpec`) is a choice of names and loses nothing.
* *`MaxLines`* docker lines after the announcing line, *`LogCapacity`* 2: a build writes up
  to four entries, so the ring wraps, is read while it wraps, and evicts.
* *`Limits`* {0, 1}: no limit, and one that always cuts.
* *`TemplateIds`*, *`BuildIds`*: one of the template ids is the seeded template in every
  behaviour, so two of them leave one to be created; two builds allow two of one template.
* *`Addresses`* two for two sandboxes: one that stops can come back at another address
  and find its own taken.
* *`TTL`* 1 half second: expiry does not fall on a full second, where truncation bites;
  *`MaxTime`* 4 reaches past the last moment a link may verify that was signed in the first
  second; *`MaxLinks`* 2; *`Chunks`* 2: the least at which a blob, or a directory, can be half
  there.

## 4. Fairness and deadlock

`SandboxManager!FairSpec` is weakly fair to `Sweep` (the ticker of `Run` calls
`EnforceTimeouts` for ever and the sweep goes on when its calls return), `Tick` (time
passes), `Rehydrate` (serve starts by rehydrating) and `Finish(c)` (a request that has
begun goes on: calls return).  Nobody has to send a request.  The daemon's calls have no
deadline in the code, so that they return at all is an assumption.
`TemplateBuilds!FairSpec` (and `MCFairSpec`, the same from a chosen first id) is weakly fair
to `Runs(b)`: the goroutine of a build is
scheduled, and docker build and flushes return.  `DockerLine` is bounded by `MaxLines`, so
fairness to the disjunction does not let a build log for ever.

The sandbox manager never deadlocks: time and the reaper go on.  `CHECK_DEADLOCK FALSE`
is said of `TemplateBuilds`, where template and build ids run out and everything may have
been deleted, of `AgentEndpoints`, where removals that failed may hold every address, and
of `FileUploads`, where time, links and crashes are bounded.

## 5. Proofs

`tlapm M.tla` for each module `M` below.  The proofs assume what the modules declare of
their constants and nothing else: that "nothing" values are not ids
(`SandboxAssumption`, `NoTemplateAssumption`, `PoolAssumption`, `BuildIdsAssumption`), that
the builtin template's name is a name (`StoreAssumption`), that durations,
limits, capacities and bounds are naturals (`PolicyAssumption`, `LimitsAssumption`,
`LogCapacityAssumption`, `FilesAssumption`, `CrashesAssumption`) and that the switches for
failures and for starts of any build are Boolean (`EnvironmentAssumption`, `StoreAssumption`,
`StartsAssumption`).  So they hold for any number of sandboxes, callers, templates, names,
commands, builds, readers, uploads and crashes, also when names are ids and clients make
build ids up.

| Module | Theorem | States |
|---|---|---|
| `SandboxManagerProofs` | `TypeCorrect` | `Spec => []TypeOK` |
| | `OwnershipHolds` | `Spec => []Ownership` |
| | `RegistryIsBacked` | `Spec => []RegisteredHasContainer` |
| | `DestroyStays` | `Spec => []DestroyIsFinal` |
| | `NothingForgotten` | `Spec => []Accounted` |
| `SandboxAgreementProofs` | `RegistryAgrees` | `Spec => []QuiescentAgreement` |
| | `OnlyDueAreRemoved` | `Spec => OnlyDueRemovals` |
| | `CalmPausesSurvive` | `Spec => CalmPauseSurvives` |
| | `NothingLeaks` | while no call fails `Spec => []NoLeak` |
| | `DestroysSucceed` | while no call fails `Spec => DestroySucceeds` |
| `SandboxLifecycleProofs` | `ManagerImplementsLifecycle` | `Spec => LifecycleImplemented` |
| `AgentEndpointsProofs` | `EndpointsTypeCorrect` | `Spec => []TypeOK` |
| | `RequestsReachTheirSandbox` | `Spec => []RoutedHome` |
| | `GoneSandboxesAreForgotten` | `Spec => []NoDeadEndpoint` |
| `FileUploadsProofs` | `FilesTypeCorrect` | `Spec => []TypeOK` |
| | `CacheHoldsWholeBlobs` | `Spec => []CachedIsWhole` |
| | `DockerReadsOneUpload` | `Spec => []ContextIsOneUpload` |
| | `LinksLiveTheirTTL` | `Spec => []LinkLifetime` |
| | `UploadsImplementBlobStore` | `Spec => BlobsImplemented` |
| `TemplateBuildsProofs` | `CoreTypeCorrect` | types of all but the readers |
| | `NamesFindTheirTemplate` | `Spec => []AliasesAgree` |
| | `AnswersSurviveCrashes` | `Spec => []AcknowledgedIsDurable` |
| | `RollbacksAreComplete` | `Spec => []FailedWritesLeaveNoTrace` |
| | `OutcomesReachTheStore` | `Spec => []TerminalIsPersisted` |
| | `ReadyBuildsHaveAnImage` | `Spec => []ReadyHasImage` |
| | `ReadyTemplatesResolve` | `Spec => []ReadyResolves` |
| | `CommandsMatchImages` | `Spec => []CommandsFitImage` |
| | `FinishedBuildsStay` | `Spec => FinishedStays` |
| `TemplateCatalogProofs` | `BuildsImplementCatalog` | `Spec => CatalogImplemented` |
| `BuildLogsProofs` | `AppendKeepsEntries` | a full or filling ring keeps its last entries where `Read` looks |
| | `ReadIsConsecutive` | a read returns consecutive entries from the cursor or from the oldest |
| | `TemplatesTypeCorrect` | `Spec => []TypeOK` |
| | `ReadersMissNothing` | `Spec => []LogDelivered` |
| | `LastPollIsComplete` | `Spec => []TerminalPollIsWhole` |

### Ownership
None of the last three theorems of `SandboxManagerProofs` is inductive.  A container
disappears in `DestroyContainer` after the entry has gone, so `RegisteredHasContainer`
needs that whoever is about to remove has taken the entry out first
(`RemoversUnregister`) and that nobody puts it back: only `Register` adds entries, and its
sandbox must be nobody else's (`CreatorIsAlone`) and must have been booted
(`CreatorHasContainer`).  That the creator is alone holds because its id was fresh, which
needs that everything that knows an id knows a minted one (`OnlyMinted`).  A crash
forgets everyone at once, and for `Rehydrate` to start clean a process that is down must
be idle (`DownIsIdle`).  `Ownership` is the conjunction of these with the three
properties, and run `restarts` checks it as an invariant.

The proof groups the steps by their effect on ownership instead of going through
thirty actions one conjunct at a time: `BeginOwnership` (a request begins),
`AdvanceOwnership` (a request goes on; only its own container may come or go),
`FreshOwnership`, `RegisterOwnership`, `SweepOwnership` (the reaper), `QuietOwnership`
(nothing that matters changes).  Each action is then an instance of one of them.  The
refinement follows from `Ownership` alone: the lemmas of `SandboxLifecycleProofs` say which
abstract step each kind of step maps to.

### Agreement
`QuiescentAgreement` speaks of the moments between operations, so its invariant has to
say what holds within them.  `CalmInv` does: a sandbox that is not contended has at most
one actor, who finds at each of its calls what its last call has left (`RequestFinds`,
`ReaperFinds`), and when it has none, entry and container agree (`Rests`).  Whatever
breaks this puts the sandbox into `contended` in the same step: a second actor, a call
that fails, a crash in between.  The reaper needs that one sweep has one thing to do
about a sandbox (`ListsApart`).

`CalmInv` also says what `CalmPauseSurvives` needs: a calm sandbox is never one whose pause
has failed, so the fallback that deletes (manager.go:767) is not about it.  That its
`PauseMode` is empty while it runs (`ModesFit`) rests on the reaper finding it paused when it
commits a demotion, which is the very check the code does not make.

`OnlyDueRemovals` needs that the reaper pauses, and after a failed pause destroys, only
what asked for OnTimeoutPause (`PausesWereAsked`).

`NothingLeaks` and `DestroysSucceed` are about systems whose calls do not fail and whose
clients do not hang up (`Reliable`); the process may die as often as it likes.  There every
call finds the container it is about (`Undisturbed`), so no removal is refused and no live
step adds to `strays` (`StraysKept`).  What a restart leaves there is a container that was
created and not started (`RehydrateStrays`), which nothing in memory refers to; whatever
nothing refers to is left alone (`AbandonedKept`), so it stays what it is (`StraysUnstarted`).

### Endpoints, files, templates
`EndpointsInv`: a sandbox nobody interferes with has one operation, which knows between
its steps what the daemon has given it, and the cache says nothing or the truth of a
sandbox that runs.  `FilesInv`: a `.part` file holds one client's bytes, an executor
extracts a whole blob, and a directory is whole, being filled by its own build, being removed
when its build is over, or one in which either has stopped half way (`cut`); and what is
in `cut` while the first process runs belongs to a build that is over (`CutIsLeft`), which no
build of that process reads.  The refinement of `BlobStore` adds `Tidy`: what is renamed is what its client has
sent, an uploader that is idle holds nothing, and a build goes through the hashes it needs
one at a time.

`TemplatesInv` says that ids come from the store (`OnlyMinted`), that a dead process holds
nothing (`NothingWhileDown`), that a build's status fits the step its goroutine is at
(`StepsFitStatus`), and of memory and file separately (`MemoryInv`, `DiskInv`) that names
are distinct, the index agrees, what was answered is there, and each record is sound:
what it calls ready has tagged an image.  The file's part is what a restart starts from.
`CommandsFitImage` speaks of the past, so its invariant follows `brought` from the start on:
what an alone start brought is in the record until a later start of the template resets
`brought`, nothing else of the template is enqueued or built meanwhile, and when the build
has succeeded the image is its own (`LoneStarts`); what is enqueued or built has its template's
tag set before (`TaggedBefore`), which is why a ready build's template never resolves to the
base image.

The refinement of `TemplateCatalog` needs little more: at all times memory and file name
the same templates and builds, memory being ahead by outcomes only (`SameCatalog`), and
recorded builds have ids that were handed out (`RecordedAreMinted`).  So a roll-back after a
failed flush restores what the file says, and a later flush adds nothing but outcomes.

`LogsInv` composes: each log is a ring that holds its last entries where `Read` looks
(`Tracks`), each reader has got or skipped exactly what its cursor says (`Delivered`), and a
reader that was told a build is over was told the truth (`SoundPoll`), after which the log
has no line to come.

Only model-checked: liveness under fairness (`ExpiredReaped`, `FrozenDemoted`, `CapRestored`,
`Reclaimed`, `BuildsFinish`), which the prover does not reach, and the four statements of
section 6, which are false.  Every safety property of a passing run and every refinement is
a theorem.

## 6. Where the code departs from its own text

| Run | The text | What happens |
|---|---|---|
| `hang_up` | manager.go:277, "On any mid-flight failure the container is force-removed so nothing leaks to the runtime." | the clean-up uses the request's context; when the client hung up, that context is why `Create` failed, and the removal fails with it |
| `stale_demotion` | sandbox.go:69, "PauseMode is the substate when State == StatePaused. Empty otherwise." | a sweep commits `PauseStopped` over a `Connect` that has set the sandbox running while `rt.Stop` was under way; the entry says running, the container has exited |
| `stale_pause` | sandbox.go:45, "OnTimeoutPause freezes it via runtime.Pause and leaves it in the registry for a later /connect to resume." | a client's `Pause` reaches the daemon first; the sweep takes the daemon's refusal for a broken sandbox and destroys it |
| `seeded_parent` | builds.go:108, "The parent must have at least one ready build; otherwise the child build has nothing to FROM." | the seeded template counts as ready, and the child is told to start from `edvabe/user-<id>:latest`, which no build has tagged |

Met on the way and not turned into a run: `Stop` leaves the cached endpoint of a sandbox
whose address the daemon has taken back, and the proxy does not ask for the state
(endpoint.go:20); `Put` says it drops its `.part` file when a rename fails and another
upload has won, and keeps it (filecache.go:131); `Enqueue` says that a poll right after it
sees "building" (manager.go:132) and may show "waiting"; a build directory that a crash
left half extracted counts as extracted (staging.go:41), and so does one whose removal was
cut by a crash or failed (executor.go:67), the exception that `ContextIsOneUpload` names;
`Sign` says that its token authorizes a single upload (signer.go:70), but a link can be used
again until it expires: the same comment calls verification stateless, and a `Put` of a
hash that is there is read to its end and discarded.

About templates: "the most recent successful one wins" (template.go:38) is true of the
build that ended last, not of the one that was started or recorded last; `startBuild`'s
comment (builds.go:70) lets the store's status go from waiting to building, and nothing
writes that; a second start of a build is answered 409 after its commands have replaced
those of the first (builds.go:127); a start without commands keeps the old ones, so
commands of one build may lie over the image of another, also when the build that brought
them failed or was overtaken by an overlapping one: `CommandsFitImage` says of which starts
this is not so; docker may tag the image and the build still end in an error, when the
stream of its output breaks (runtime/docker/build.go:56); once the seeded template is rebuilt by a user, it resolves to the
user's tag from the start of the build on, which does not exist until the build succeeds,
or at all when it fails, until a restart seeds it again (builds.go:136); `startBuild`
says that the store "must know about the build ID already" (builds.go:71) and does not ask:
any id is built, and an outcome the store has no record for is dropped; nothing keeps a
template's name from being another template's id, which a lookup then prefers.  Both are
modelled.

## 7. What is not modelled

* `Snapshot`, `Commit`, `Stats`: they change nothing the models speak of.
* `Cancel` and `Wait` of the build manager: nothing under `src/` calls them.
* Translation of build steps to a Dockerfile, JSON shapes, host and path parsing:
  pure conversions that no property is about.
* Listing and pagination: filter, sort and cut of one snapshot of the registry, with an
  offset for a token; there is no state to be wrong about, and no promise between pages.
* The store's status "building", which nothing writes.
* Metadata, tokens, resource limits, labels other than those that are read back.
* Dashboard (its actions are callers of the manager like the control plane), DNS
  server, doctor, stub endpoints, image builders, no-op runtime, flags and signals.
* Containers that exit or are removed by themselves, behind the manager's back: nothing in
  the code watches for them, and the registry keeps saying what it said.
* A docker build that goes on in the daemon when the process that asked for it has died:
  daemons end a build with its client, and the models let it end with the process.
* Handlers reading a sandbox's fields outside the lock: only responses depend on them.
* The file system below the rename: `Put` and flush do not fsync, and a power failure is
  not a crash of the process.

## 8. Plan

Order of work: the sandbox manager first, because everything else hangs on it; then the
template store with the builds; then routing and files; then the resolver, the abstract
lifecycle and the proofs; then the abstract catalog and blob store.  Those are done.  What would add most from here:

1. *Composition of manager and endpoints*: `AgentEndpoints` has its own small manager; a
   refinement mapping from a joint module would show that it is the same one.
2. *Routing of stopped sandboxes* and *interrupted extractions* as runs of their own: both
   are exceptions of a property today.
3. *Answers*: what a client was told while the reaper collected its sandbox, or of an outcome
   whose flush failed before a crash; today the properties speak of registry, containers and
   file only.
