-------------------------- MODULE ContainerRuntime --------------------------
(***************************************************************************)
(* The container runtime behind internal/runtime/docker: one container per *)
(* sandbox, named after the sandbox id, and envd, the agent inside it.     *)
(* The Docker daemon itself is not under src/; which verb it admits in     *)
(* which container status is taken from how docker/destroy.go, create.go   *)
(* and list.go call it.  A verb takes effect in one step.                  *)
(***************************************************************************)
CONSTANTS
  Sandboxes   \* the sandbox ids NewSandboxID can mint in one behaviour

VARIABLES
  container,  \* container[s]: status the daemon reports, "absent" if none
  agent       \* agent[s]: envd has had its /init since the container booted

runtimeVars == <<container, agent>>

ContainerStatus == {"absent", "created", "running", "paused", "exited"}

(* The statuses in which the daemon carries a verb out. *)
Admits == [create  |-> {"absent"},
           start   |-> {"created", "running", "exited"},
           pause   |-> {"running"},
           unpause |-> {"paused"},
           stop    |-> {"running", "paused", "exited"},
           remove  |-> {"created", "running", "paused", "exited"}]

(* The status a verb leaves behind. *)
Leaves == [create  |-> "created",
           start   |-> "running",
           pause   |-> "paused",
           unpause |-> "running",
           stop    |-> "exited",
           remove  |-> "absent"]

Verbs == DOMAIN Admits

RuntimeTypeOK ==
  /\ container \in [Sandboxes -> ContainerStatus]
  /\ agent \in [Sandboxes -> BOOLEAN]

RuntimeInit ==
  /\ container = [s \in Sandboxes |-> "absent"]
  /\ agent = [s \in Sandboxes |-> FALSE]

(* The daemon carries verb out on the container of s. Processes, envd with *)
(* them, survive pause and unpause and die with stop and remove.           *)
Performs(verb, s) ==
  /\ container[s] \in Admits[verb]
  /\ container' = [container EXCEPT ![s] = Leaves[verb]]
  /\ agent' = [agent EXCEPT ![s] = @ /\ verb \notin {"stop", "remove"}]

(* Agent Ping and InitAgent go to envd over the container's network. *)
AgentInitialised(s) ==
  /\ container[s] = "running"
  /\ agent' = [agent EXCEPT ![s] = TRUE]
  /\ UNCHANGED container

(* What ListManaged reports: containers in a status normalizeState knows. *)
Managed == {s \in Sandboxes : container[s] \in {"running", "paused", "exited"}}
=============================================================================
