--------------------------- MODULE AgentEndpoints ---------------------------
(***************************************************************************)
(* Where requests for a sandbox are sent: the addresses the daemon gives   *)
(* containers, Runtime.endpoints (internal/runtime/docker) that remembers  *)
(* them, and the proxy (internal/api/proxy.go) that looks a sandbox up,    *)
(* resolves its endpoint and dials it.                                     *)
(*                                                                         *)
(* The sandbox manager appears as the caller of the runtime: it registers  *)
(* a sandbox after Create, marks it stopped or running after Stop or       *)
(* Start, and unregisters it before Destroy.  Pause and Unpause keep a     *)
(* container's address and are left out.                                   *)
(***************************************************************************)
EXTENDS Naturals, FiniteSets

CONSTANTS
  Sandboxes,    \* sandbox ids; one that is gone may stand for a new id
  Addresses,    \* the pool the daemon assigns from
  NoAddress,    \* no address, no endpoint
  NoSandbox,    \* no operation, no request
  Callers,      \* goroutines that operate on sandboxes
  Clients,      \* requests through the proxy
  Faults,       \* TRUE: calls of the daemon and the agent may fail
  MaxCrashes    \* bound: how often the edvabe process dies

ASSUME PoolAssumption ==
  NoAddress \notin Addresses /\ NoSandbox \notin Sandboxes
ASSUME EnvironmentAssumption == Faults \in BOOLEAN /\ MaxCrashes \in Nat

VARIABLES
  container,   \* status of a sandbox's container
  address,     \* the address it holds
  endpoints,   \* Runtime.endpoints
  registry,    \* Manager.sandboxes
  running,     \* the registry says StateRunning
  op,          \* per caller: its operation
  proxied,     \* per client: its request
  crashes,
  contended    \* history: ids with two operations at once, or with a removal
               \* that took effect and returned an error

daemonVars == <<container, address>>
managerVars == <<registry, running>>
vars == <<daemonVars, endpoints, managerVars, op, proxied, crashes, contended>>

NoOp == [at |-> "idle", sandbox |-> NoSandbox, fresh |-> FALSE, host |-> NoAddress]
NoHop == [at |-> "idle", sandbox |-> NoSandbox, target |-> NoAddress,
          calm |-> FALSE]

Steps == {"idle", "boot", "inspect", "cache", "register", "forceRemove", "halt",
          "setStopped", "remove", "uncache"}
Ops == [at : Steps, sandbox : Sandboxes \cup {NoSandbox}, fresh : BOOLEAN,
        host : Addresses \cup {NoAddress}]
Hops == [at : {"idle", "resolve", "dial"}, sandbox : Sandboxes \cup {NoSandbox},
         target : Addresses \cup {NoAddress}, calm : BOOLEAN]

TypeOK ==
  /\ container \in [Sandboxes -> {"absent", "running", "exited"}]
  /\ address \in [Sandboxes -> Addresses \cup {NoAddress}]
  /\ \A s \in Sandboxes : container[s] = "running" <=> address[s] \in Addresses
  /\ endpoints \in [Sandboxes -> Addresses \cup {NoAddress}]
  /\ registry \subseteq Sandboxes
  /\ running \subseteq Sandboxes
  /\ op \in [Callers -> Ops]
  /\ \A c \in Callers : /\ op[c].at = "idle" <=> op[c].sandbox = NoSandbox
                        /\ op[c].at = "cache" => op[c].host \in Addresses
  /\ proxied \in [Clients -> Hops]
  /\ \A p \in Clients : /\ proxied[p].at = "idle" <=> proxied[p].sandbox = NoSandbox
                        /\ proxied[p].at = "dial" => proxied[p].target \in Addresses
  /\ crashes \in 0..MaxCrashes
  /\ contended \subseteq Sandboxes

Init ==
  /\ container = [s \in Sandboxes |-> "absent"]
  /\ address = [s \in Sandboxes |-> NoAddress]
  /\ endpoints = [s \in Sandboxes |-> NoAddress]
  /\ registry = {} /\ running = {}
  /\ op = [c \in Callers |-> NoOp]
  /\ proxied = [p \in Clients |-> NoHop]
  /\ crashes = 0
  /\ contended = {}

-----------------------------------------------------------------------------
Operated(s) == \E c \in Callers : op[c].sandbox = s

(* Requests for s that are under way may now meet a change. *)
Disturb(s) ==
  proxied' = [p \in Clients |-> IF proxied[p].sandbox = s
                                  THEN [proxied[p] EXCEPT !.calm = FALSE]
                                  ELSE proxied[p]]

(* c begins an operation on s at a step; fresh: it is Create. *)
Begin(c, s, step, fresh) ==
  /\ op[c] = NoOp
  /\ op' = [op EXCEPT ![c] = [at |-> step, sandbox |-> s, fresh |-> fresh,
                              host |-> NoAddress]]
  /\ contended' = IF Operated(s) THEN contended \cup {s} ELSE contended
  /\ Disturb(s)
  /\ UNCHANGED <<daemonVars, endpoints, running, crashes>>

GoesOn(c, step) == op' = [op EXCEPT ![c].at = step]
Ends(c) == op' = [op EXCEPT ![c] = NoOp]

(* A call of c returns an error: step follows, or the operation is over.    *)
Fails(c, step) == IF step = "idle" THEN Ends(c) ELSE GoesOn(c, step)

(* The daemon's verbs on s. *)
Boots(s) ==
  /\ container' = [container EXCEPT ![s] = "running"]
  /\ \E a \in Addresses :
       /\ IF container[s] = "running" THEN a = address[s]
                                      ELSE \A x \in Sandboxes : address[x] # a
       /\ address' = [address EXCEPT ![s] = a]

Leaves(s, status) ==
  /\ container' = [container EXCEPT ![s] = status]
  /\ address' = [address EXCEPT ![s] = NoAddress]

-----------------------------------------------------------------------------
(* Runtime.Create and Runtime.Start share their steps.                      *)

CreateBegin(c) ==
  \E s \in Sandboxes :
    /\ container[s] = "absent" /\ ~Operated(s) /\ s \notin contended
    /\ Begin(c, s, "boot", TRUE)
    /\ UNCHANGED registry

StartBegin(c) ==
  \E s \in registry \ running :
    Begin(c, s, "boot", FALSE) /\ UNCHANGED registry

(* ContainerCreate for a new sandbox, ContainerStart. *)
Boot(c) ==
  LET s == op[c].sandbox
  IN  /\ op[c].at = "boot"
      /\ \/ /\ op[c].fresh \/ container[s] # "absent"
            /\ Boots(s)
            /\ \/ GoesOn(c, "inspect")
               \/ Faults /\ Fails(c, IF op[c].fresh THEN "forceRemove" ELSE "idle")
         \/ /\ Faults \/ (~op[c].fresh /\ container[s] = "absent")
            /\ Fails(c, "idle")
            /\ UNCHANGED daemonVars
      /\ UNCHANGED <<endpoints, managerVars, proxied, crashes, contended>>

(* Mutant: a container without an address is no error. *)
InspectAnything(c) ==
  LET s == op[c].sandbox
  IN  /\ op[c].at = "inspect"
      /\ op' = [op EXCEPT ![c].at = "cache", ![c].host = address[s]]
      /\ UNCHANGED <<daemonVars, endpoints, managerVars, proxied, crashes, contended>>

(* ContainerInspect and extractBridgeIP; only Create cleans up. *)
Inspect(c) ==
  LET s == op[c].sandbox
  IN  /\ op[c].at = "inspect"
      /\ \/ /\ address[s] # NoAddress
            /\ op' = [op EXCEPT ![c].at = "cache", ![c].host = address[s]]
         \/ /\ Faults \/ address[s] = NoAddress
            /\ Fails(c, IF op[c].fresh THEN "forceRemove" ELSE "idle")
      /\ UNCHANGED <<daemonVars, endpoints, managerVars, proxied, crashes, contended>>

(* Mutant: Start leaves an endpoint that is there already. *)
CacheOnce(c) ==
  LET s == op[c].sandbox
  IN  /\ op[c].at = "cache"
      /\ endpoints' = [endpoints EXCEPT ![s] = IF @ = NoAddress THEN op[c].host
                                                               ELSE @]
      /\ GoesOn(c, "register")
      /\ UNCHANGED <<daemonVars, managerVars, proxied, crashes, contended>>

Cache(c) ==
  /\ op[c].at = "cache"
  /\ endpoints' = [endpoints EXCEPT ![op[c].sandbox] = op[c].host]
  /\ GoesOn(c, "register")
  /\ UNCHANGED <<daemonVars, managerVars, proxied, crashes, contended>>

(* The agent answers and the manager commits; or it does not, and Create    *)
(* destroys the container.                                                  *)
Register(c) ==
  LET s == op[c].sandbox
  IN  /\ op[c].at = "register"
      /\ \/ /\ registry' = IF op[c].fresh THEN registry \cup {s} ELSE registry
            /\ running' = running \cup {s}
            /\ Ends(c)
         \/ /\ Faults \/ container[s] # "running"
            /\ Fails(c, IF op[c].fresh THEN "remove" ELSE "idle")
            /\ UNCHANGED managerVars
      /\ UNCHANGED <<daemonVars, endpoints, proxied, crashes, contended>>

-----------------------------------------------------------------------------
(* Stop, and the reaper's demotion.                                         *)

StopBegin(c) ==
  \E s \in registry \cap running :
    Begin(c, s, "halt", FALSE) /\ UNCHANGED registry

Halt(c) ==
  LET s == op[c].sandbox
  IN  /\ op[c].at = "halt"
      /\ \/ /\ container[s] # "absent"
            /\ Leaves(s, "exited")
            /\ GoesOn(c, "setStopped") \/ (Faults /\ Fails(c, "idle"))
         \/ /\ Faults \/ container[s] = "absent"
            /\ Fails(c, "idle")
            /\ UNCHANGED daemonVars
      /\ UNCHANGED <<endpoints, managerVars, proxied, crashes, contended>>

SetStopped(c) ==
  /\ op[c].at = "setStopped"
  /\ running' = running \ {op[c].sandbox}
  /\ Ends(c)
  /\ UNCHANGED <<daemonVars, endpoints, registry, proxied, crashes, contended>>

(* Destroy, and the reaper's removals.                                      *)

DestroyBegin(c) ==
  \E s \in registry :
    /\ Begin(c, s, "remove", FALSE)
    /\ registry' = registry \ {s}

(* The daemon removes the container, or says it did not. *)
Remove(c) ==
  LET s == op[c].sandbox
  IN  /\ op[c].at \in {"remove", "forceRemove"}
      /\ \/ /\ container[s] # "absent"
            /\ Leaves(s, "absent")
            /\ \/ /\ IF op[c].at = "remove" THEN GoesOn(c, "uncache") ELSE Ends(c)
                  /\ UNCHANGED contended
               \/ /\ Faults
                  /\ Ends(c)
                  /\ contended' = contended \cup {s}
         \/ /\ Faults \/ container[s] = "absent"
            /\ Fails(c, "idle")
            /\ UNCHANGED <<daemonVars, contended>>
      /\ UNCHANGED <<endpoints, managerVars, proxied, crashes>>

(* Mutant: Destroy forgets the cache. *)
UncacheSkipped(c) ==
  /\ op[c].at = "uncache"
  /\ Ends(c)
  /\ UNCHANGED <<daemonVars, endpoints, managerVars, proxied, crashes, contended>>

Uncache(c) ==
  /\ op[c].at = "uncache"
  /\ endpoints' = [endpoints EXCEPT ![op[c].sandbox] = NoAddress]
  /\ Ends(c)
  /\ UNCHANGED <<daemonVars, managerVars, proxied, crashes, contended>>

-----------------------------------------------------------------------------
(* The proxy.                                                               *)

(* lookup.Get; calm: the sandbox runs and nobody operates on it. *)
LookUp(p) ==
  /\ proxied[p].at = "idle"
  /\ \E s \in registry :
       proxied' = [proxied EXCEPT ![p] =
         [at |-> "resolve", sandbox |-> s, target |-> NoAddress,
          calm |-> /\ s \in running /\ container[s] = "running"
                   /\ ~Operated(s) /\ s \notin contended]]
  /\ UNCHANGED <<daemonVars, endpoints, managerVars, op, crashes, contended>>

(* AgentEndpoint: the cache, or else an inspect; no address answers 500. *)
Resolve(p) ==
  LET s == proxied[p].sandbox
      host == IF endpoints[s] # NoAddress THEN endpoints[s] ELSE address[s]
  IN  /\ proxied[p].at = "resolve"
      /\ proxied' = [proxied EXCEPT ![p] =
           IF host = NoAddress THEN NoHop
                               ELSE [@ EXCEPT !.at = "dial", !.target = host]]
      /\ UNCHANGED <<daemonVars, endpoints, managerVars, op, crashes, contended>>

(* The request goes to whoever holds the address, or fails with 502. *)
Dial(p) ==
  /\ proxied[p].at = "dial"
  /\ proxied' = [proxied EXCEPT ![p] = NoHop]
  /\ UNCHANGED <<daemonVars, endpoints, managerVars, op, crashes, contended>>

-----------------------------------------------------------------------------
(* The process dies and starts again: ListManaged fills the cache for the   *)
(* containers that hold an address, Rehydrate the registry.                 *)
Restart ==
  /\ crashes < MaxCrashes
  /\ crashes' = crashes + 1
  /\ registry' = {s \in Sandboxes : container[s] # "absent"}
  /\ running' = {s \in Sandboxes : container[s] = "running"}
  /\ endpoints' = address
  /\ op' = [c \in Callers |-> NoOp]
  /\ proxied' = [p \in Clients |-> NoHop]
  /\ UNCHANGED <<daemonVars, contended>>

Operation(c) ==
  \/ CreateBegin(c) \/ StartBegin(c) \/ Boot(c) \/ Inspect(c) \/ Cache(c)
  \/ Register(c) \/ StopBegin(c) \/ Halt(c) \/ SetStopped(c)
  \/ DestroyBegin(c) \/ Remove(c) \/ Uncache(c)

Next ==
  \/ \E c \in Callers : Operation(c)
  \/ \E p \in Clients : LookUp(p) \/ Resolve(p) \/ Dial(p)
  \/ Restart

Spec == Init /\ [][Next]_vars

-----------------------------------------------------------------------------
(* A request for a sandbox that runs, and that nobody operates on between   *)
(* lookup and dial, is sent to that sandbox's own container, however often  *)
(* it was stopped, moved to another address and started before              *)
(* (destroy.go:62, "Docker may assign a new bridge IP after restart").      *)
RoutedHome ==
  \A p \in Clients :
    proxied[p].at = "dial" /\ proxied[p].calm =>
      proxied[p].target = address[proxied[p].sandbox]

(* Nothing is remembered of a sandbox that is gone: neither a create that   *)
(* failed at any of its steps nor a destroy leaves an endpoint in the cache *)
(* (destroy.go:21; Manager.Create destroys what it gives up).               *)
NoDeadEndpoint ==
  \A s \in Sandboxes \ contended :
    container[s] = "absent" /\ ~Operated(s) => endpoints[s] = NoAddress
=============================================================================
