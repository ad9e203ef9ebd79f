---------------------------- MODULE BuildManager ----------------------------
(***************************************************************************)
(* internal/template/builder: Manager with its map of builds, the goroutine*)
(* of each build and the executor it runs.  Manager.mu guards the map and  *)
(* the status, the log has a lock of its own, so a reader may come between *)
(* any two steps of the goroutine.                                         *)
(*                                                                         *)
(* The entry appended to a log is its absolute index: what a reader gets   *)
(* back shows which entries they were.                                     *)
(***************************************************************************)
EXTENDS RingBuffer, Templates

CONSTANTS
  NoTemplate,    \* no parent template
  MaxLines       \* bound: log lines of docker build

ASSUME NoTemplateAssumption == NoTemplate \notin TemplateIds

VARIABLES
  builds,   \* Manager.builds: a record for each build id in the map
  images    \* which build tagged edvabe/user-<template>:latest last

buildVars == <<builds, images>>

(* What the goroutine of a build does next. *)
RunSteps == {"spawned", "announce", "prepare", "docker", "succeeded", "failed",
             "done"}

BuildRecords ==
  [template : TemplateIds,
   parent   : TemplateIds \cup {NoTemplate},
   status   : BuildStatus,
   step     : RunSteps,
   log      : Logs]

BuildTypeOK ==
  /\ DOMAIN builds \subseteq BuildIds
  /\ \A b \in DOMAIN builds : builds[b] \in BuildRecords
  /\ images \in [TemplateIds -> BuildIds \cup {NoBuild}]

BuildInit ==
  /\ builds = Empty
  /\ images = [t \in TemplateIds |-> NoBuild]

-----------------------------------------------------------------------------
(* Mutant: a build id in the map is taken again. *)
EnqueuedAgain(b, t, parent) ==
  /\ builds' = With(builds, b, [template |-> t, parent |-> parent,
                                status |-> "waiting", step |-> "spawned",
                                log |-> EmptyLog])
  /\ UNCHANGED images

(* A build id that is in the map already is refused. *)
Enqueued(b, t, parent) ==
  /\ b \notin DOMAIN builds
  /\ builds' = With(builds, b, [template |-> t, parent |-> parent,
                                status |-> "waiting", step |-> "spawned",
                                log |-> EmptyLog])
  /\ UNCHANGED images

(* The executor of b, at the step named at, returns; the parent it was      *)
(* given, which the map does not keep, goes with its call.                  *)
Returns(b, at, step) ==
  /\ b \in DOMAIN builds
  /\ builds[b].step = at
  /\ builds' = [builds EXCEPT ![b].step = step, ![b].parent = NoTemplate]

WithLine(log) == Appended(log, log.written)

AdvanceWithLine(b, at, step) ==
  /\ b \in DOMAIN builds
  /\ builds[b].step = at
  /\ builds' = [builds EXCEPT ![b].step = step, ![b].log = WithLine(@)]

BuildStarts(b) ==
  /\ b \in DOMAIN builds
  /\ builds[b].step = "spawned"
  /\ builds' = [builds EXCEPT ![b].step = "announce", ![b].status = "building"]
  /\ UNCHANGED images

BuildAnnounced(b) ==
  AdvanceWithLine(b, "announce", "prepare") /\ UNCHANGED images

(* Mutant: an error before docker is asked ends the goroutine unreported. *)
PrepareErrorLost(b) ==
  /\ \/ AdvanceWithLine(b, "prepare", "docker")
     \/ Returns(b, "prepare", "done")
  /\ UNCHANGED images

(* Translate, PrepareContext and the Dockerfile: on an error docker is not  *)
(* asked.                                                                   *)
BuildPrepared(b) ==
  /\ \/ AdvanceWithLine(b, "prepare", "docker")
     \/ Returns(b, "prepare", "failed")
  /\ UNCHANGED images

DockerLine(b) ==
  /\ b \in DOMAIN builds
  /\ builds[b].log.written < MaxLines + 2
  /\ AdvanceWithLine(b, "docker", "docker")
  /\ UNCHANGED images

(* Mutants: the build succeeds and the image is not tagged; success shows   *)
(* before the last line is in the log.                                      *)
SucceedsUntagged(b) ==
  Returns(b, "docker", "succeeded") /\ UNCHANGED images
SucceedsEarly(b) ==
  /\ b \in DOMAIN builds
  /\ builds[b].step = "docker"
  /\ builds' = [builds EXCEPT ![b].step = "succeeded", ![b].status = "ready"]
  /\ images' = [images EXCEPT ![builds[b].template] = b]

(* docker build tags the result; FROM needs an image, and a parent's tag    *)
(* exists on this host only.                                                *)
Tags(b) ==
  /\ builds[b].parent \in
       {NoTemplate} \cup {t \in TemplateIds : images[t] # NoBuild}
  /\ images' = [images EXCEPT ![builds[b].template] = b]

DockerSucceeds(b) == Returns(b, "docker", "succeeded") /\ Tags(b)

(* The stream of its output may break after the image is tagged. *)
DockerFails(b) == Returns(b, "docker", "failed") /\ (UNCHANGED images \/ Tags(b))

(* The locked section at the end of run, onComplete apart. *)
Completed(b, at, status) ==
  /\ b \in DOMAIN builds
  /\ builds[b].step = at
  /\ builds' = [builds EXCEPT ![b].step = "done", ![b].status = status,
                              ![b].log = WithLine(@)]
  /\ UNCHANGED images

(* What the goroutine of b does on its own. *)
RunStep(b) ==
  \/ BuildStarts(b) \/ BuildAnnounced(b) \/ BuildPrepared(b)
  \/ DockerLine(b) \/ DockerSucceeds(b) \/ DockerFails(b)
=============================================================================
