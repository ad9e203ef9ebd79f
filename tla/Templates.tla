------------------------------ MODULE Templates ------------------------------
(***************************************************************************)
(* internal/template/template.go: what a template record holds.            *)
(***************************************************************************)
EXTENDS Naturals

CONSTANTS
  TemplateIds,   \* the template ids NewTemplateID can mint in one behaviour
  BuildIds,      \* the build ids NewBuildID can mint for clients
  Names,         \* template names, which double as aliases and may look like ids
  Commands,      \* StartCmd and ReadyCmd
  SeedBuild,     \* the build recorded for a seeded template
  NoBuild        \* no build

ASSUME BuildIdsAssumption ==
  SeedBuild \notin BuildIds /\ NoBuild \notin BuildIds \cup {SeedBuild}

BuildStatus == {"waiting", "building", "ready", "error"}

IsTerminal(status) == status \in {"ready", "error"}

(* ImageTag: none yet, the builtin image, or edvabe/user-<id>:latest.       *)
(* commands: the build each command came with; NoBuild when there is none.  *)
(* builds: the status of the builds that are recorded.                      *)
TemplateRecords ==
  [alias    : Names,
   image    : {"none", "builtin", "user"},
   commands : [Commands -> BuildIds \cup {SeedBuild, NoBuild}],
   builds   : [BuildIds \cup {SeedBuild} -> BuildStatus \cup {"unrecorded"}]]

NoBuilds == [b \in BuildIds \cup {SeedBuild} |-> "unrecorded"]

Recorded(template, b) == template.builds[b] # "unrecorded"

IsReady(template, b) == template.builds[b] = "ready"

(* LatestReady # nil: a build of the template became ready. *)
HasReady(template) == \E b \in BuildIds \cup {SeedBuild} : IsReady(template, b)

(* What the resolver and Manager.resolveTemplate make of the image tag. *)
ResolvedImage(template) ==
  IF template.image # "none" THEN template.image
  ELSE IF HasReady(template) THEN "user" ELSE "base"

(* A Go map: nothing, and m with the key k set to v. *)
Empty == [k \in {} |-> k]
With(m, k, v) == [x \in DOMAIN m \cup {k} |-> IF x = k THEN v ELSE m[x]]
=============================================================================
