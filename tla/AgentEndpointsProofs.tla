------------------------ MODULE AgentEndpointsProofs ------------------------
(***************************************************************************)
(* Requests reach the container they are for, and the cache of endpoints   *)
(* forgets what is gone, for any number of sandboxes, addresses, callers,  *)
(* requests and crashes.                                                   *)
(***************************************************************************)
EXTENDS AgentEndpoints, TLAPS

(* A sandbox that is not contended has one operation at most.               *)
Alone ==
  \A c, d \in Callers :
    op[c].sandbox = op[d].sandbox /\ op[c].at # "idle"
      /\ op[c].sandbox \notin contended => c = d

(* What an operation knows of its sandbox between two of its steps, when no *)
(* other operates on it.                                                    *)
OperationIsSound(o, status, at, remembered, runs) ==
  /\ o.at \in {"inspect", "cache", "register"} => status = "running"
  /\ o.at = "cache" => o.host = at
  /\ o.at = "register" => remembered = at
  /\ o.at = "forceRemove" \/ (o.fresh /\ o.at \in {"boot", "inspect", "cache"})
       => remembered = NoAddress
  /\ ~o.fresh /\ o.at \in {"boot", "inspect", "cache"} => ~runs

OperationsAreSound ==
  \A c \in Callers :
    LET s == op[c].sandbox
    IN  op[c].at # "idle" /\ s \notin contended =>
          OperationIsSound(op[c], container[s], address[s], endpoints[s], s \in running)

(* The cache says nothing, or the truth, of a sandbox that runs; and nothing *)
(* of one that is gone, but for a Destroy about to forget it.               *)
CacheIsSound ==
  \A s \in Sandboxes \ contended :
    /\ container[s] = "absent" /\ endpoints[s] # NoAddress =>
         \E c \in Callers : op[c].sandbox = s /\ op[c].at = "uncache"
    /\ container[s] = "running" /\ s \in running =>
         endpoints[s] \in {NoAddress, address[s]}

(* A request that met no change so far.                                     *)
CalmIsSound ==
  \A p \in Clients :
    LET s == proxied[p].sandbox
    IN  proxied[p].at # "idle" /\ proxied[p].calm =>
          /\ s \in Sandboxes \ contended /\ s \in running
          /\ container[s] = "running" /\ ~Operated(s)
          /\ proxied[p].at = "dial" => proxied[p].target = address[s]

EndpointsInv ==
  /\ TypeOK
  /\ Alone
  /\ OperationsAreSound
  /\ CacheIsSound
  /\ CalmIsSound

-----------------------------------------------------------------------------
LEMMA NoOpType == NoOp \in Ops /\ NoOp.at = "idle" /\ NoOp.sandbox = NoSandbox
  BY DEF NoOp, Ops, Steps

LEMMA NoHopType == NoHop \in Hops /\ NoHop.at = "idle" /\ NoHop.sandbox = NoSandbox
  BY DEF NoHop, Hops

(* An operation that is not over has a sandbox, and no other has it.        *)
LEMMA OperationType ==
  ASSUME TypeOK, NEW c \in Callers
  PROVE  /\ op[c] \in Ops /\ op \in [Callers -> Ops]
         /\ op[c].at # "idle" => op[c].sandbox \in Sandboxes
         /\ op[c].at = "idle" => op[c].sandbox = NoSandbox
         /\ op[c].at = "cache" => op[c].host \in Addresses
  BY DEF TypeOK, Ops

LEMMA EndpointsInit == Init => EndpointsInv
  <1> SUFFICES ASSUME Init PROVE EndpointsInv
    OBVIOUS
  <1>1. TypeOK
    BY NoOpType, NoHopType, PoolAssumption, EnvironmentAssumption DEF Init, TypeOK
  <1>2. \A c \in Callers : op[c].at = "idle"
    BY NoOpType DEF Init
  <1>3. \A p \in Clients : proxied[p].at = "idle"
    BY NoHopType DEF Init
  <1>4. CacheIsSound
    BY PoolAssumption DEF Init, CacheIsSound
  <1> QED
    BY <1>1, <1>2, <1>3, <1>4 DEF EndpointsInv, Alone, OperationsAreSound, CalmIsSound

-----------------------------------------------------------------------------
(* Types.                                                                   *)

(* The operation of c becomes next, and no request is disturbed.            *)
LEMMA OperationTypeStep ==
  ASSUME TypeOK, NEW c \in Callers, NEW next \in Ops,
         op' = [op EXCEPT ![c] = next],
         next.at = "idle" <=> next.sandbox = NoSandbox,
         next.at = "cache" => next.host \in Addresses,
         container' \in [Sandboxes -> {"absent", "running", "exited"}],
         address' \in [Sandboxes -> Addresses \cup {NoAddress}],
         \A s \in Sandboxes : container'[s] = "running" <=> address'[s] \in Addresses,
         endpoints' \in [Sandboxes -> Addresses \cup {NoAddress}],
         registry' \subseteq Sandboxes, running' \subseteq Sandboxes,
         contended' \subseteq Sandboxes,
         proxied' \in [Clients -> Hops],
         \A p \in Clients : /\ proxied'[p].at = proxied[p].at
                            /\ proxied'[p].sandbox = proxied[p].sandbox
                            /\ proxied'[p].target = proxied[p].target,
         UNCHANGED crashes
  PROVE  TypeOK'
  BY DEF TypeOK

(* What Fails leaves of an operation. *)
LEMMA FailsTo ==
  ASSUME TypeOK, NEW c \in Callers, op[c].at # "idle",
         NEW step \in Steps \ {"cache"}, Fails(c, step)
  PROVE  \E next \in Ops :
           /\ op' = [op EXCEPT ![c] = next]
           /\ next.at = step
           /\ step = "idle" => next = NoOp
           /\ step # "idle" => next.sandbox = op[c].sandbox /\ next.fresh = op[c].fresh
  <1>1. CASE step = "idle"
    BY <1>1, NoOpType DEF Fails, Ends
  <1>2. CASE step # "idle"
    <2> DEFINE next == [op[c] EXCEPT !.at = step]
    <2>1. next \in Ops
      BY OperationType DEF Ops
    <2>2. op' = [op EXCEPT ![c] = next]
      BY <1>2, OperationType DEF Fails, GoesOn
    <2>3. next.at = step /\ next.sandbox = op[c].sandbox /\ next.fresh = op[c].fresh
      BY OperationType DEF Ops
    <2> QED
      BY <1>2, <2>1, <2>2, <2>3
  <1> QED
    BY <1>1, <1>2

(* What GoesOn leaves of an operation. *)
LEMMA GoesOnTo ==
  ASSUME TypeOK, NEW c \in Callers, op[c].at # "idle",
         NEW step \in Steps \ {"idle"}, GoesOn(c, step)
  PROVE  \E next \in Ops :
           /\ op' = [op EXCEPT ![c] = next]
           /\ next.at = step
           /\ next.sandbox = op[c].sandbox /\ next.fresh = op[c].fresh
           /\ next.host = op[c].host
  <1> DEFINE next == [op[c] EXCEPT !.at = step]
  <1>1. next \in Ops
    BY OperationType DEF Ops
  <1>2. op' = [op EXCEPT ![c] = next]
    BY OperationType DEF GoesOn
  <1>3. /\ next.at = step /\ next.sandbox = op[c].sandbox
        /\ next.fresh = op[c].fresh /\ next.host = op[c].host
    BY OperationType DEF Ops
  <1> QED
    BY <1>1, <1>2, <1>3

-----------------------------------------------------------------------------
(* The operation of c changes its own sandbox only, and next is sound there *)
(* if no other operates on it.                                              *)
OwnStep(c, next) ==
  LET s == op[c].sandbox
  IN  /\ op[c].at # "idle"
      /\ op' = [op EXCEPT ![c] = next]
      /\ next.at # "idle" => next.sandbox = s
      /\ next.at = "idle" => next.sandbox = NoSandbox
      /\ next.at = "cache" => next.host \in Addresses
      /\ container' \in [Sandboxes -> {"absent", "running", "exited"}]
      /\ address' \in [Sandboxes -> Addresses \cup {NoAddress}]
      /\ endpoints' \in [Sandboxes -> Addresses \cup {NoAddress}]
      /\ container'[s] = "running" <=> address'[s] \in Addresses
      /\ \A x \in Sandboxes \ {s} :
           /\ container'[x] = container[x] /\ address'[x] = address[x]
           /\ endpoints'[x] = endpoints[x]
           /\ x \in running' <=> x \in running
      /\ registry' \subseteq Sandboxes /\ running' \subseteq Sandboxes
      /\ contended \subseteq contended' /\ contended' \subseteq contended \cup {s}
      /\ UNCHANGED <<proxied, crashes>>
      /\ s \notin contended' =>
           /\ next.at # "idle" =>
                OperationIsSound(next, container'[s], address'[s], endpoints'[s],
                                 s \in running')
           /\ container'[s] = "absent" /\ endpoints'[s] # NoAddress =>
                next.at = "uncache"
           /\ container'[s] = "running" /\ s \in running' =>
                endpoints'[s] \in {NoAddress, address'[s]}

LEMMA OwnStepInv ==
  ASSUME EndpointsInv, NEW c \in Callers, NEW next \in Ops, OwnStep(c, next)
  PROVE  EndpointsInv'
  <1> DEFINE s == op[c].sandbox
  <1>1. TypeOK /\ Alone /\ OperationsAreSound /\ CacheIsSound /\ CalmIsSound
    BY DEF EndpointsInv
  <1>2. /\ s \in Sandboxes /\ op \in [Callers -> Ops]
        /\ \A d \in Callers \ {c} : op'[d] = op[d]
        /\ op'[c] = next
    BY <1>1, OperationType DEF OwnStep
  <1>3. \A x \in Sandboxes : container'[x] = "running" <=> address'[x] \in Addresses
    BY <1>1 DEF OwnStep, TypeOK
  <1>4. TypeOK'
    <2>1. next.at = "idle" <=> next.sandbox = NoSandbox
      BY <1>2, PoolAssumption DEF OwnStep
    <2>2. contended' \subseteq Sandboxes
      BY <1>1, <1>2 DEF OwnStep, TypeOK
    <2>3. proxied' \in [Clients -> Hops]
      BY <1>1 DEF OwnStep, TypeOK
    <2> QED
      BY <1>1, <1>3, <2>1, <2>2, <2>3, OperationTypeStep DEF OwnStep
  <1>5. Alone'
    <2> SUFFICES ASSUME NEW a \in Callers, NEW b \in Callers, a # b,
                        op'[a].sandbox = op'[b].sandbox, op'[a].at # "idle",
                        op'[a].sandbox \notin contended'
                 PROVE  FALSE
      BY DEF Alone
    <2>1. contended \subseteq contended'
      BY DEF OwnStep
    <2>2. CASE a = c
      BY <1>1, <1>2, <2>1, <2>2 DEF OwnStep, Alone
    <2>3. CASE b = c
      <3>1. op[a].at # "idle" /\ op[a].sandbox \in Sandboxes
        BY <1>1, <1>2, <2>3, OperationType
      <3>2. op[a].sandbox = s
        BY <1>2, <2>3, <3>1, PoolAssumption DEF OwnStep
      <3> QED
        BY <1>1, <1>2, <2>1, <2>3, <3>1, <3>2 DEF Alone
    <2>4. CASE a # c /\ b # c
      BY <1>1, <1>2, <2>1, <2>4 DEF Alone
    <2> QED
      BY <2>2, <2>3, <2>4
  <1>6. \A d \in Callers \ {c} :
          op[d].at # "idle" /\ op[d].sandbox = s => s \in contended'
    BY <1>1, <1>2 DEF Alone, OwnStep
  <1>7. OperationsAreSound'
    <2> SUFFICES ASSUME NEW d \in Callers, op'[d].at # "idle",
                        op'[d].sandbox \notin contended'
                 PROVE  LET x == op'[d].sandbox IN
                          OperationIsSound(op'[d], container'[x], address'[x],
                                           endpoints'[x], x \in running')
      BY DEF OperationsAreSound, OperationIsSound
    <2>1. CASE d = c
      BY <1>2, <2>1 DEF OwnStep
    <2>2. CASE d # c
      <3>1. op'[d] = op[d] /\ op[d].sandbox # s /\ op[d].sandbox \in Sandboxes
        BY <1>1, <1>2, <1>6, <2>2, OperationType
      <3>2. op[d].sandbox \notin contended
        BY <3>1 DEF OwnStep
      <3> QED
        BY <1>1, <2>2, <3>1, <3>2 DEF OperationsAreSound, OperationIsSound, OwnStep
    <2> QED
      BY <2>1, <2>2
  <1>8. CacheIsSound'
    <2> SUFFICES ASSUME NEW x \in Sandboxes \ contended'
                 PROVE  /\ container'[x] = "absent" /\ endpoints'[x] # NoAddress =>
                             \E d \in Callers :
                               op'[d].sandbox = x /\ op'[d].at = "uncache"
                        /\ container'[x] = "running" /\ x \in running' =>
                             endpoints'[x] \in {NoAddress, address'[x]}
      BY DEF CacheIsSound
    <2>1. CASE x = s
      BY <1>2, <2>1 DEF OwnStep
    <2>2. CASE x # s
      <3>1. x \notin contended
        BY DEF OwnStep
      <3>2. \A d \in Callers : op[d].sandbox = x => d # c
        BY <2>2
      <3> QED
        BY <1>1, <1>2, <2>2, <3>1, <3>2 DEF CacheIsSound, OwnStep
    <2> QED
      BY <2>1, <2>2
  <1>9. CalmIsSound'
    <2> SUFFICES ASSUME NEW p \in Clients, proxied'[p].at # "idle", proxied'[p].calm
                 PROVE  LET x == proxied'[p].sandbox IN
                          /\ x \in Sandboxes \ contended' /\ x \in running'
                          /\ container'[x] = "running"
                          /\ \A d \in Callers : op'[d].sandbox # x
                          /\ proxied'[p].at = "dial" => proxied'[p].target = address'[x]
      BY DEF CalmIsSound, Operated
    <2> DEFINE x == proxied[p].sandbox
    <2>1. /\ proxied'[p] = proxied[p]
          /\ x \in Sandboxes \ contended /\ x \in running
          /\ container[x] = "running" /\ ~Operated(x)
          /\ proxied[p].at = "dial" => proxied[p].target = address[x]
      BY <1>1 DEF OwnStep, CalmIsSound
    <2>2. x # s
      BY <1>2, <2>1 DEF Operated
    <2>3. \A d \in Callers : op'[d].sandbox # x
      BY <1>2, <2>1, <2>2, PoolAssumption DEF Operated, OwnStep
    <2> QED
      BY <2>1, <2>2, <2>3 DEF OwnStep
  <1> QED
    BY <1>4, <1>5, <1>7, <1>8, <1>9 DEF EndpointsInv

(* An operation begins: its sandbox is contended if there is another, and   *)
(* its requests are calm no more.                                           *)
LEMMA BeginInv ==
  ASSUME EndpointsInv, NEW c \in Callers, NEW s \in Sandboxes,
         NEW step \in {"boot", "halt", "remove"}, NEW fresh \in BOOLEAN,
         Begin(c, s, step, fresh), registry' \subseteq Sandboxes,
         step = "boot" /\ fresh /\ s \notin contended' => endpoints[s] = NoAddress,
         step = "boot" /\ ~fresh => s \notin running
  PROVE  EndpointsInv'
  <1> DEFINE next == [at |-> step, sandbox |-> s, fresh |-> fresh, host |-> NoAddress]
  <1>1. TypeOK /\ Alone /\ OperationsAreSound /\ CacheIsSound /\ CalmIsSound
    BY DEF EndpointsInv
  <1>2. /\ next \in Ops /\ next.at = step /\ next.sandbox = s /\ next.fresh = fresh
        /\ step # "idle" /\ step # "cache" /\ s # NoSandbox
    BY PoolAssumption DEF Ops, Steps
  <1>3. /\ op[c].at = "idle" /\ op[c].sandbox = NoSandbox
        /\ op' = [op EXCEPT ![c] = next]
        /\ contended' = IF Operated(s) THEN contended \cup {s} ELSE contended
        /\ UNCHANGED <<container, address, endpoints, running, crashes>>
    BY NoOpType DEF Begin, daemonVars
  <1>4. /\ op'[c] = next /\ \A d \in Callers \ {c} : op'[d] = op[d]
    BY <1>1, <1>3, OperationType
  <1> HIDE DEF next
  <1>5. \A p \in Clients :
          /\ proxied'[p].at = proxied[p].at
          /\ proxied'[p].sandbox = proxied[p].sandbox
          /\ proxied'[p].target = proxied[p].target
          /\ proxied'[p].calm => proxied[p].calm /\ proxied[p].sandbox # s
    BY <1>1 DEF Begin, Disturb, TypeOK, Hops
  <1>6. proxied' \in [Clients -> Hops]
    <2>1. \A p \in Clients : proxied[p] \in Hops
      BY <1>1 DEF TypeOK
    <2>2. \A hop \in Hops : [hop EXCEPT !.calm = FALSE] \in Hops
      BY DEF Hops
    <2> QED
      BY <2>1, <2>2 DEF Begin, Disturb
  <1>7. contended' \subseteq Sandboxes /\ contended \subseteq contended'
    BY <1>1, <1>3 DEF TypeOK
  <1>8. TypeOK'
    <2>1. \A x \in Sandboxes : container'[x] = "running" <=> address'[x] \in Addresses
      BY <1>1, <1>3 DEF TypeOK
    <2>2. /\ container' \in [Sandboxes -> {"absent", "running", "exited"}]
          /\ address' \in [Sandboxes -> Addresses \cup {NoAddress}]
          /\ endpoints' \in [Sandboxes -> Addresses \cup {NoAddress}]
          /\ running' \subseteq Sandboxes
      BY <1>1, <1>3 DEF TypeOK
    <2> QED
      BY <1>1, <1>2, <1>3, <1>5, <1>6, <1>7, <2>1, <2>2, OperationTypeStep
  <1>9. \A d \in Callers \ {c} : op[d].sandbox = s => s \in contended'
    BY <1>3 DEF Operated
  <1>10. Alone'
    BY <1>1, <1>2, <1>4, <1>7, <1>9 DEF Alone
  <1>11. OperationsAreSound'
    <2> SUFFICES ASSUME NEW d \in Callers, op'[d].at # "idle",
                        op'[d].sandbox \notin contended'
                 PROVE  LET x == op'[d].sandbox IN
                          OperationIsSound(op'[d], container'[x], address'[x],
                                           endpoints'[x], x \in running')
      BY DEF OperationsAreSound, OperationIsSound
    <2>1. CASE d = c
      BY <1>2, <1>3, <1>4, <2>1 DEF OperationIsSound
    <2>2. CASE d # c
      BY <1>1, <1>3, <1>4, <1>7, <2>2 DEF OperationsAreSound, OperationIsSound
    <2> QED
      BY <2>1, <2>2
  <1>12. CacheIsSound'
    <2> SUFFICES ASSUME NEW x \in Sandboxes \ contended'
                 PROVE  /\ container[x] = "absent" /\ endpoints[x] # NoAddress =>
                             \E d \in Callers :
                               op'[d].sandbox = x /\ op'[d].at = "uncache"
                        /\ container[x] = "running" /\ x \in running =>
                             endpoints[x] \in {NoAddress, address[x]}
      BY <1>3 DEF CacheIsSound
    <2>1. x \notin contended
      BY <1>7
    <2>2. \A d \in Callers : op[d].at = "uncache" => d # c
      BY <1>3
    <2> QED
      BY <1>1, <1>4, <2>1, <2>2 DEF CacheIsSound
  <1>13. CalmIsSound'
    <2> SUFFICES ASSUME NEW p \in Clients, proxied'[p].at # "idle", proxied'[p].calm
                 PROVE  LET x == proxied'[p].sandbox IN
                          /\ x \in Sandboxes \ contended' /\ x \in running
                          /\ container[x] = "running"
                          /\ \A d \in Callers : op'[d].sandbox # x
                          /\ proxied'[p].at = "dial" => proxied'[p].target = address[x]
      BY <1>3 DEF CalmIsSound, Operated
    <2> DEFINE x == proxied[p].sandbox
    <2>1. /\ proxied[p].at # "idle" /\ proxied[p].calm /\ x # s
          /\ proxied'[p].sandbox = x
      BY <1>5
    <2>2. /\ x \in Sandboxes \ contended /\ x \in running
          /\ container[x] = "running"
          /\ \A d \in Callers : op[d].sandbox # x
          /\ proxied[p].at = "dial" => proxied[p].target = address[x]
      BY <1>1, <2>1 DEF CalmIsSound, Operated
    <2>3. \A d \in Callers : op'[d].sandbox # x
      BY <1>2, <1>4, <2>1, <2>2
    <2> QED
      BY <1>3, <1>5, <2>1, <2>2, <2>3
  <1> QED
    BY <1>8, <1>10, <1>11, <1>12, <1>13 DEF EndpointsInv

LEMMA BeginningsInv ==
  ASSUME EndpointsInv, NEW c \in Callers,
         CreateBegin(c) \/ StartBegin(c) \/ StopBegin(c) \/ DestroyBegin(c)
  PROVE  EndpointsInv'
  <1>1. registry \subseteq Sandboxes
    BY DEF EndpointsInv, TypeOK
  <1>2. CASE CreateBegin(c)
    <2>1. PICK s \in Sandboxes :
            /\ container[s] = "absent" /\ ~Operated(s) /\ s \notin contended
            /\ Begin(c, s, "boot", TRUE) /\ UNCHANGED registry
      BY <1>2 DEF CreateBegin
    <2>2. endpoints[s] = NoAddress
      BY <2>1 DEF EndpointsInv, CacheIsSound, Operated
    <2> QED
      BY <1>1, <2>1, <2>2, BeginInv
  <1>3. CASE StartBegin(c)
    BY <1>1, <1>3, BeginInv DEF StartBegin
  <1>4. CASE StopBegin(c)
    BY <1>1, <1>4, BeginInv DEF StopBegin
  <1>5. CASE DestroyBegin(c)
    <2>1. PICK s \in registry :
            Begin(c, s, "remove", FALSE) /\ registry' = registry \ {s}
      BY <1>5 DEF DestroyBegin
    <2> QED
      BY <1>1, <2>1, BeginInv
  <1> QED
    BY <1>2, <1>3, <1>4, <1>5

-----------------------------------------------------------------------------
(* The steps of operations.                                                 *)

(* What the invariant says of the sandbox of c.                             *)
LEMMA OwnSandbox ==
  ASSUME EndpointsInv, NEW c \in Callers, op[c].at # "idle"
  PROVE  LET s == op[c].sandbox IN
         /\ TypeOK /\ s \in Sandboxes
         /\ container \in [Sandboxes -> {"absent", "running", "exited"}]
         /\ address \in [Sandboxes -> Addresses \cup {NoAddress}]
         /\ endpoints \in [Sandboxes -> Addresses \cup {NoAddress}]
         /\ container[s] = "running" <=> address[s] \in Addresses
         /\ registry \subseteq Sandboxes /\ running \subseteq Sandboxes
         /\ s \notin contended =>
              /\ OperationIsSound(op[c], container[s], address[s], endpoints[s],
                                  s \in running)
              /\ container[s] = "absent" /\ endpoints[s] # NoAddress =>
                   op[c].at = "uncache"
              /\ container[s] = "running" /\ s \in running =>
                   endpoints[s] \in {NoAddress, address[s]}
  <1> DEFINE s == op[c].sandbox
  <1>1. TypeOK /\ s \in Sandboxes
    BY OperationType DEF EndpointsInv
  <1>2. /\ container \in [Sandboxes -> {"absent", "running", "exited"}]
        /\ address \in [Sandboxes -> Addresses \cup {NoAddress}]
        /\ endpoints \in [Sandboxes -> Addresses \cup {NoAddress}]
        /\ container[s] = "running" <=> address[s] \in Addresses
        /\ registry \subseteq Sandboxes /\ running \subseteq Sandboxes
    BY <1>1 DEF TypeOK
  <1>3. s \notin contended =>
          OperationIsSound(op[c], container[s], address[s], endpoints[s], s \in running)
    BY DEF EndpointsInv, OperationsAreSound
  <1>4. s \notin contended =>
          /\ container[s] = "absent" /\ endpoints[s] # NoAddress =>
               op[c].at = "uncache"
          /\ container[s] = "running" /\ s \in running =>
               endpoints[s] \in {NoAddress, address[s]}
    BY <1>1 DEF EndpointsInv, CacheIsSound, Alone
  <1> QED
    BY <1>1, <1>2, <1>3, <1>4

(* The operation of c moves on, or ends, and touches nothing else.          *)
LEMMA QuietStepInv ==
  ASSUME EndpointsInv, NEW c \in Callers, op[c].at # "idle", NEW next \in Ops,
         op' = [op EXCEPT ![c] = next],
         next.at # "idle" => next.sandbox = op[c].sandbox,
         next.at = "idle" => next = NoOp,
         next.at = "cache" => next.host \in Addresses,
         op[c].at # "uncache",
         UNCHANGED <<daemonVars, endpoints, managerVars, proxied, crashes, contended>>,
         next.at # "idle" /\ op[c].sandbox \notin contended =>
           LET s == op[c].sandbox IN
             OperationIsSound(next, container[s], address[s], endpoints[s], s \in running)
  PROVE  EndpointsInv'
  <1>1. OwnStep(c, next)
    BY OwnSandbox, NoOpType DEF OwnStep, OperationIsSound, daemonVars, managerVars
  <1> QED
    BY <1>1, OwnStepInv

LEMMA InspectInv ==
  ASSUME EndpointsInv, NEW c \in Callers, Inspect(c)
  PROVE  EndpointsInv'
  <1> DEFINE s == op[c].sandbox
  <1>1. /\ op[c].at = "inspect" /\ op[c].at # "idle" /\ op[c].at # "uncache"
        /\ UNCHANGED <<daemonVars, endpoints, managerVars, proxied, crashes, contended>>
    BY DEF Inspect
  <1>2. TypeOK /\ s \in Sandboxes
    BY <1>1, OwnSandbox
  <1>3. CASE /\ address[s] # NoAddress
             /\ op' = [op EXCEPT ![c].at = "cache", ![c].host = address[s]]
    <2> DEFINE next == [op[c] EXCEPT !.at = "cache", !.host = address[s]]
    <2>1. op' = [op EXCEPT ![c] = next]
      BY <1>2, <1>3, OperationType
    <2>2. /\ next \in Ops /\ next.at = "cache" /\ next.host = address[s]
          /\ next.sandbox = s /\ next.fresh = op[c].fresh
          /\ address[s] \in Addresses
      BY <1>1, <1>2, <1>3, OperationType, OwnSandbox DEF Ops, Steps
    <2> HIDE DEF next
    <2>3. s \notin contended =>
            OperationIsSound(next, container[s], address[s], endpoints[s], s \in running)
      BY <1>1, <2>2, OwnSandbox DEF OperationIsSound
    <2> QED
      BY <1>1, <2>1, <2>2, <2>3, QuietStepInv
  <1>4. CASE Fails(c, IF op[c].fresh THEN "forceRemove" ELSE "idle")
    <2> DEFINE step == IF op[c].fresh THEN "forceRemove" ELSE "idle"
    <2>1. PICK next \in Ops :
            /\ op' = [op EXCEPT ![c] = next] /\ next.at = step
            /\ step = "idle" => next = NoOp
            /\ step # "idle" => next.sandbox = s /\ next.fresh = op[c].fresh
      BY <1>1, <1>2, <1>4, FailsTo DEF Steps
    <2>2. step # "idle" /\ s \notin contended =>
            OperationIsSound(next, container[s], address[s], endpoints[s], s \in running)
      BY <1>1, <2>1, OwnSandbox DEF OperationIsSound
    <2> QED
      BY <1>1, <2>1, <2>2, QuietStepInv
  <1> QED
    BY <1>1, <1>3, <1>4 DEF Inspect

LEMMA BootInv ==
  ASSUME EndpointsInv, NEW c \in Callers, Boot(c)
  PROVE  EndpointsInv'
  <1> DEFINE s == op[c].sandbox
  <1>1. /\ op[c].at = "boot" /\ op[c].at # "idle"
        /\ UNCHANGED <<endpoints, managerVars, proxied, crashes, contended>>
    BY DEF Boot
  <1>2. TypeOK /\ s \in Sandboxes
    BY <1>1, OwnSandbox
  <1>3. ASSUME Boots(s), NEW next \in Ops, op' = [op EXCEPT ![c] = next],
               next.at \in {"inspect", "forceRemove", "idle"},
               next.at = "forceRemove" => op[c].fresh,
               next.at = "idle" => next = NoOp /\ ~op[c].fresh,
               next.at # "idle" => next.sandbox = s /\ next.fresh = op[c].fresh
        PROVE  EndpointsInv'
    <2>1. PICK a \in Addresses : /\ address' = [address EXCEPT ![s] = a]
                                 /\ container[s] = "running" => a = address[s]
      BY <1>3 DEF Boots
    <2>2. container' = [container EXCEPT ![s] = "running"]
      BY <1>3 DEF Boots
    <2>3. /\ container' \in [Sandboxes -> {"absent", "running", "exited"}]
          /\ address' \in [Sandboxes -> Addresses \cup {NoAddress}]
          /\ container'[s] = "running" /\ address'[s] = a
          /\ \A x \in Sandboxes \ {s} : container'[x] = container[x]
                                        /\ address'[x] = address[x]
      BY <1>1, <1>2, <2>1, <2>2, OwnSandbox
    <2>4. s \notin contended =>
            /\ op[c].fresh => endpoints[s] = NoAddress
            /\ ~op[c].fresh => s \notin running
      BY <1>1, OwnSandbox DEF OperationIsSound
    <2>5. OwnStep(c, next)
      BY <1>1, <1>2, <1>3, <2>3, <2>4, OwnSandbox, NoOpType
      DEF OwnStep, OperationIsSound, managerVars
    <2> QED
      BY <2>5, OwnStepInv
  <1>4. CASE Boots(s) /\ GoesOn(c, "inspect")
    BY <1>1, <1>2, <1>3, <1>4, GoesOnTo DEF Steps
  <1>5. CASE Boots(s) /\ Fails(c, IF op[c].fresh THEN "forceRemove" ELSE "idle")
    <2> DEFINE step == IF op[c].fresh THEN "forceRemove" ELSE "idle"
    <2>1. step \in Steps \ {"cache"}
      BY DEF Steps
    <2>2. PICK next \in Ops :
            /\ op' = [op EXCEPT ![c] = next] /\ next.at = step
            /\ step = "idle" => next = NoOp
            /\ step # "idle" => next.sandbox = s /\ next.fresh = op[c].fresh
      BY <1>1, <1>2, <1>5, <2>1, FailsTo
    <2> QED
      BY <1>3, <1>5, <2>2
  <1>6. CASE Fails(c, "idle") /\ UNCHANGED daemonVars
    <2>1. op' = [op EXCEPT ![c] = NoOp]
      BY <1>6 DEF Fails, Ends
    <2> QED
      BY <1>1, <1>6, <2>1, NoOpType, QuietStepInv
  <1> QED
    BY <1>4, <1>5, <1>6 DEF Boot

LEMMA CacheInv ==
  ASSUME EndpointsInv, NEW c \in Callers, Cache(c)
  PROVE  EndpointsInv'
  <1> DEFINE s == op[c].sandbox
  <1>1. /\ op[c].at = "cache" /\ op[c].at # "idle"
        /\ endpoints' = [endpoints EXCEPT ![s] = op[c].host]
        /\ GoesOn(c, "register")
        /\ UNCHANGED <<daemonVars, managerVars, proxied, crashes, contended>>
    BY DEF Cache
  <1>2. TypeOK /\ s \in Sandboxes /\ op[c].host \in Addresses
    BY <1>1, OwnSandbox, OperationType
  <1>3. PICK next \in Ops :
          /\ op' = [op EXCEPT ![c] = next] /\ next.at = "register"
          /\ next.sandbox = s /\ next.fresh = op[c].fresh
    BY <1>1, <1>2, GoesOnTo DEF Steps
  <1>4. /\ endpoints' \in [Sandboxes -> Addresses \cup {NoAddress}]
        /\ endpoints'[s] = op[c].host
        /\ \A x \in Sandboxes \ {s} : endpoints'[x] = endpoints[x]
    BY <1>1, <1>2, OwnSandbox
  <1>5. s \notin contended => container[s] = "running" /\ op[c].host = address[s]
    BY <1>1, OwnSandbox DEF OperationIsSound
  <1>6. OwnStep(c, next)
    BY <1>1, <1>2, <1>3, <1>4, <1>5, OwnSandbox
    DEF OwnStep, OperationIsSound, daemonVars, managerVars
  <1> QED
    BY <1>6, OwnStepInv

LEMMA RegisterInv ==
  ASSUME EndpointsInv, NEW c \in Callers, Register(c)
  PROVE  EndpointsInv'
  <1> DEFINE s == op[c].sandbox
  <1>1. /\ op[c].at = "register" /\ op[c].at # "idle" /\ op[c].at # "uncache"
        /\ UNCHANGED <<daemonVars, endpoints, proxied, crashes, contended>>
    BY DEF Register
  <1>2. TypeOK /\ s \in Sandboxes
    BY <1>1, OwnSandbox
  <1>3. CASE /\ registry' = IF op[c].fresh THEN registry \cup {s} ELSE registry
             /\ running' = running \cup {s}
             /\ Ends(c)
    <2>1. /\ op' = [op EXCEPT ![c] = NoOp]
          /\ registry' \subseteq Sandboxes /\ running' \subseteq Sandboxes
          /\ \A x \in Sandboxes \ {s} : x \in running' <=> x \in running
      BY <1>2, <1>3, <1>1, OwnSandbox DEF Ends
    <2>2. s \notin contended =>
            container[s] = "running" /\ endpoints[s] = address[s]
      BY <1>1, OwnSandbox DEF OperationIsSound
    <2>3. OwnStep(c, NoOp)
      BY <1>1, <1>2, <2>1, <2>2, NoOpType, OwnSandbox
      DEF OwnStep, OperationIsSound, daemonVars
    <2> QED
      BY <2>3, NoOpType, OwnStepInv
  <1>4. CASE /\ Fails(c, IF op[c].fresh THEN "remove" ELSE "idle")
             /\ UNCHANGED managerVars
    <2> DEFINE step == IF op[c].fresh THEN "remove" ELSE "idle"
    <2>1. step \in Steps \ {"cache"}
      BY DEF Steps
    <2>2. PICK next \in Ops :
            /\ op' = [op EXCEPT ![c] = next] /\ next.at = step
            /\ step = "idle" => next = NoOp
            /\ step # "idle" => next.sandbox = s /\ next.fresh = op[c].fresh
      BY <1>1, <1>2, <1>4, <2>1, FailsTo
    <2>3. step # "idle" => step = "remove"
      OBVIOUS
    <2> QED
      BY <1>1, <1>4, <2>2, <2>3, QuietStepInv DEF OperationIsSound
  <1> QED
    BY <1>3, <1>4 DEF Register

LEMMA HaltInv ==
  ASSUME EndpointsInv, NEW c \in Callers, Halt(c)
  PROVE  EndpointsInv'
  <1> DEFINE s == op[c].sandbox
  <1>1. /\ op[c].at = "halt" /\ op[c].at # "idle" /\ op[c].at # "uncache"
        /\ UNCHANGED <<endpoints, managerVars, proxied, crashes, contended>>
    BY DEF Halt
  <1>2. TypeOK /\ s \in Sandboxes
    BY <1>1, OwnSandbox
  <1>3. ASSUME NEW next \in Ops, op' = [op EXCEPT ![c] = next],
               next = NoOp \/ (next.at = "setStopped" /\ next.sandbox = s),
               Leaves(s, "exited")
        PROVE  EndpointsInv'
    <2>1. /\ container' \in [Sandboxes -> {"absent", "running", "exited"}]
          /\ address' \in [Sandboxes -> Addresses \cup {NoAddress}]
          /\ container'[s] = "exited" /\ address'[s] = NoAddress
          /\ \A x \in Sandboxes \ {s} : container'[x] = container[x]
                                        /\ address'[x] = address[x]
      BY <1>1, <1>2, <1>3, OwnSandbox DEF Leaves
    <2>2. OwnStep(c, next)
      BY <1>1, <1>2, <1>3, <2>1, OwnSandbox, NoOpType, PoolAssumption
      DEF OwnStep, OperationIsSound, managerVars
    <2> QED
      BY <2>2, OwnStepInv
  <1>4. Fails(c, "idle") => op' = [op EXCEPT ![c] = NoOp]
    BY DEF Fails, Ends
  <1>5. CASE Leaves(s, "exited") /\ GoesOn(c, "setStopped")
    BY <1>1, <1>2, <1>3, <1>5, GoesOnTo DEF Steps
  <1>6. CASE Leaves(s, "exited") /\ Fails(c, "idle")
    BY <1>3, <1>4, <1>6, NoOpType
  <1>7. CASE Fails(c, "idle") /\ UNCHANGED daemonVars
    BY <1>1, <1>4, <1>7, NoOpType, QuietStepInv
  <1> QED
    BY <1>5, <1>6, <1>7 DEF Halt

LEMMA SetStoppedInv ==
  ASSUME EndpointsInv, NEW c \in Callers, SetStopped(c)
  PROVE  EndpointsInv'
  <1> DEFINE s == op[c].sandbox
  <1>1. /\ op[c].at = "setStopped" /\ op[c].at # "idle"
        /\ op' = [op EXCEPT ![c] = NoOp]
        /\ running' = running \ {s}
        /\ UNCHANGED <<daemonVars, endpoints, registry, proxied, crashes, contended>>
    BY DEF SetStopped, Ends
  <1>2. OwnStep(c, NoOp)
    BY <1>1, NoOpType, OwnSandbox DEF OwnStep, daemonVars
  <1> QED
    BY <1>2, NoOpType, OwnStepInv

LEMMA RemoveInv ==
  ASSUME EndpointsInv, NEW c \in Callers, Remove(c)
  PROVE  EndpointsInv'
  <1> DEFINE s == op[c].sandbox
  <1>1. /\ op[c].at \in {"remove", "forceRemove"} /\ op[c].at # "idle"
        /\ op[c].at # "uncache"
        /\ UNCHANGED <<endpoints, managerVars, proxied, crashes>>
    BY DEF Remove
  <1>2. TypeOK /\ s \in Sandboxes
    BY <1>1, OwnSandbox
  <1>3. ASSUME Leaves(s, "absent"), NEW next \in Ops, op' = [op EXCEPT ![c] = next],
               \/ next = NoOp /\ contended' = contended \cup {s}
               \/ next = NoOp /\ op[c].at = "forceRemove" /\ UNCHANGED contended
               \/ next.at = "uncache" /\ next.sandbox = s /\ UNCHANGED contended
        PROVE  EndpointsInv'
    <2>1. /\ container' \in [Sandboxes -> {"absent", "running", "exited"}]
          /\ address' \in [Sandboxes -> Addresses \cup {NoAddress}]
          /\ container'[s] = "absent" /\ address'[s] = NoAddress
          /\ \A x \in Sandboxes \ {s} : container'[x] = container[x]
                                        /\ address'[x] = address[x]
      BY <1>1, <1>2, <1>3, OwnSandbox DEF Leaves
    <2>2. op[c].at = "forceRemove" /\ s \notin contended => endpoints[s] = NoAddress
      BY <1>1, OwnSandbox DEF OperationIsSound
    <2>3. OwnStep(c, next)
      BY <1>1, <1>2, <1>3, <2>1, <2>2, OwnSandbox, NoOpType, PoolAssumption
      DEF OwnStep, OperationIsSound, managerVars
    <2> QED
      BY <2>3, OwnStepInv
  <1>4. Ends(c) => op' = [op EXCEPT ![c] = NoOp]
    BY DEF Ends
  <1>5. CASE /\ Leaves(s, "absent") /\ UNCHANGED contended
             /\ IF op[c].at = "remove" THEN GoesOn(c, "uncache") ELSE Ends(c)
    <2>1. CASE op[c].at = "remove"
      <3>1. PICK next \in Ops : /\ op' = [op EXCEPT ![c] = next]
                                /\ next.at = "uncache" /\ next.sandbox = s
        BY <1>1, <1>2, <1>5, <2>1, GoesOnTo DEF Steps
      <3> QED
        BY <1>3, <1>5, <3>1
    <2>2. CASE op[c].at = "forceRemove"
      BY <1>3, <1>4, <1>5, <2>2, NoOpType
    <2> QED
      BY <1>1, <2>1, <2>2
  <1>6. CASE Leaves(s, "absent") /\ Ends(c) /\ contended' = contended \cup {s}
    BY <1>3, <1>4, <1>6, NoOpType
  <1>7. CASE Fails(c, "idle") /\ UNCHANGED <<daemonVars, contended>>
    <2>1. op' = [op EXCEPT ![c] = NoOp]
      BY <1>7 DEF Fails, Ends
    <2> QED
      BY <1>1, <1>7, <2>1, NoOpType, QuietStepInv
  <1> QED
    BY <1>5, <1>6, <1>7 DEF Remove

LEMMA UncacheInv ==
  ASSUME EndpointsInv, NEW c \in Callers, Uncache(c)
  PROVE  EndpointsInv'
  <1> DEFINE s == op[c].sandbox
  <1>1. /\ op[c].at = "uncache" /\ op[c].at # "idle"
        /\ endpoints' = [endpoints EXCEPT ![s] = NoAddress]
        /\ op' = [op EXCEPT ![c] = NoOp]
        /\ UNCHANGED <<daemonVars, managerVars, proxied, crashes, contended>>
    BY DEF Uncache, Ends
  <1>2. /\ endpoints' \in [Sandboxes -> Addresses \cup {NoAddress}]
        /\ endpoints'[s] = NoAddress
        /\ \A x \in Sandboxes \ {s} : endpoints'[x] = endpoints[x]
    BY <1>1, OwnSandbox
  <1>3. OwnStep(c, NoOp)
    BY <1>1, <1>2, NoOpType, OwnSandbox DEF OwnStep, daemonVars, managerVars
  <1> QED
    BY <1>3, NoOpType, OwnStepInv

-----------------------------------------------------------------------------
(* Only the request of p changes, to one that is sound.                     *)
LEMMA RequestInv ==
  ASSUME EndpointsInv, NEW p \in Clients, NEW next \in Hops,
         proxied' = [proxied EXCEPT ![p] = next],
         next.at = "idle" <=> next.sandbox = NoSandbox,
         next.at = "dial" => next.target \in Addresses,
         next.at # "idle" /\ next.calm =>
           LET s == next.sandbox IN
           /\ s \in Sandboxes \ contended /\ s \in running
           /\ container[s] = "running" /\ ~Operated(s)
           /\ next.at = "dial" => next.target = address[s],
         UNCHANGED <<daemonVars, endpoints, managerVars, op, crashes, contended>>
  PROVE  EndpointsInv'
  <1>1. TypeOK'
    BY DEF EndpointsInv, TypeOK, daemonVars, managerVars
  <1>2. Alone' /\ OperationsAreSound' /\ CacheIsSound'
    BY DEF EndpointsInv, Alone, OperationsAreSound, OperationIsSound, CacheIsSound,
           daemonVars, managerVars
  <1>3. CalmIsSound'
    BY DEF EndpointsInv, CalmIsSound, TypeOK, Operated, daemonVars, managerVars
  <1> QED
    BY <1>1, <1>2, <1>3 DEF EndpointsInv

LEMMA RequestsInv ==
  ASSUME EndpointsInv, NEW p \in Clients, LookUp(p) \/ Resolve(p) \/ Dial(p)
  PROVE  EndpointsInv'
  <1>1. TypeOK /\ CalmIsSound /\ CacheIsSound
    BY DEF EndpointsInv
  <1>2. proxied[p] \in Hops /\ proxied \in [Clients -> Hops]
    BY <1>1 DEF TypeOK
  <1>3. CASE LookUp(p)
    <2>1. PICK s \in registry :
            proxied' = [proxied EXCEPT ![p] =
              [at |-> "resolve", sandbox |-> s, target |-> NoAddress,
               calm |-> /\ s \in running /\ container[s] = "running"
                        /\ ~Operated(s) /\ s \notin contended]]
      BY <1>3 DEF LookUp
    <2> DEFINE next == [at |-> "resolve", sandbox |-> s, target |-> NoAddress,
                        calm |-> /\ s \in running /\ container[s] = "running"
                                 /\ ~Operated(s) /\ s \notin contended]
    <2>2. s \in Sandboxes /\ s # NoSandbox
      BY <1>1, PoolAssumption DEF TypeOK
    <2>3. next \in Hops
      BY <2>2 DEF Hops
    <2>4. UNCHANGED <<daemonVars, endpoints, managerVars, op, crashes, contended>>
      BY <1>3 DEF LookUp
    <2> QED
      BY <2>1, <2>2, <2>3, <2>4, RequestInv
  <1>4. CASE Resolve(p)
    <2> DEFINE s == proxied[p].sandbox
               host == IF endpoints[s] # NoAddress THEN endpoints[s] ELSE address[s]
               next == IF host = NoAddress
                         THEN NoHop
                         ELSE [proxied[p] EXCEPT !.at = "dial", !.target = host]
    <2>1. /\ proxied[p].at = "resolve" /\ proxied' = [proxied EXCEPT ![p] = next]
          /\ UNCHANGED <<daemonVars, endpoints, managerVars, op, crashes, contended>>
      BY <1>2, <1>4 DEF Resolve
    <2>2. s \in Sandboxes /\ s # NoSandbox
      BY <1>1, <1>2, <2>1 DEF TypeOK, Hops
    <2>3. host \in Addresses \cup {NoAddress}
      BY <1>1, <2>2 DEF TypeOK
    <2>4. CASE host = NoAddress
      BY <2>1, <2>4, NoHopType, RequestInv
    <2>5. CASE host # NoAddress
      <3>1. /\ next \in Hops /\ next.at = "dial" /\ next.sandbox = s
            /\ next.target = host /\ next.calm = proxied[p].calm
        BY <1>2, <2>3, <2>5 DEF Hops
      <3>2. next.calm => /\ s \in Sandboxes \ contended /\ s \in running
                         /\ container[s] = "running" /\ ~Operated(s)
        BY <1>1, <2>1, <3>1 DEF CalmIsSound
      <3>3. next.calm => host = address[s]
        BY <1>1, <3>2, <2>5 DEF CacheIsSound
      <3> HIDE DEF next, host
      <3> QED
        BY <2>1, <2>2, <2>3, <2>5, <3>1, <3>2, <3>3, RequestInv
    <2> QED
      BY <2>4, <2>5
  <1>5. CASE Dial(p)
    BY <1>5, NoHopType, RequestInv DEF Dial
  <1> QED
    BY <1>3, <1>4, <1>5

LEMMA RestartInv == EndpointsInv /\ Restart => EndpointsInv'
  <1> SUFFICES ASSUME EndpointsInv, Restart PROVE EndpointsInv'
    OBVIOUS
  <1>1. /\ crashes < MaxCrashes /\ crashes' = crashes + 1
        /\ registry' \subseteq Sandboxes /\ running' \subseteq Sandboxes
        /\ endpoints' = address
        /\ op' = [c \in Callers |-> NoOp]
        /\ proxied' = [p \in Clients |-> NoHop]
        /\ UNCHANGED <<container, address, contended>>
    BY DEF Restart, daemonVars
  <1>2. crashes' \in 0..MaxCrashes
    BY <1>1, EnvironmentAssumption DEF EndpointsInv, TypeOK
  <1>3. TypeOK'
    BY <1>1, <1>2, NoOpType, NoHopType DEF EndpointsInv, TypeOK
  <1>4. Alone' /\ OperationsAreSound' /\ CalmIsSound'
    BY <1>1, NoOpType, NoHopType DEF Alone, OperationsAreSound, CalmIsSound
  <1>5. CacheIsSound'
    BY <1>1, PoolAssumption DEF EndpointsInv, TypeOK, CacheIsSound
  <1> QED
    BY <1>3, <1>4, <1>5 DEF EndpointsInv

LEMMA EndpointsStep == EndpointsInv /\ [Next]_vars => EndpointsInv'
  <1> SUFFICES ASSUME EndpointsInv, [Next]_vars PROVE EndpointsInv'
    OBVIOUS
  <1>1. ASSUME NEW c \in Callers, Operation(c) PROVE EndpointsInv'
    BY <1>1, BeginningsInv, BootInv, InspectInv, CacheInv, RegisterInv, HaltInv,
       SetStoppedInv, RemoveInv, UncacheInv DEF Operation
  <1>2. ASSUME NEW p \in Clients, LookUp(p) \/ Resolve(p) \/ Dial(p)
        PROVE  EndpointsInv'
    BY <1>2, RequestsInv
  <1>3. CASE UNCHANGED vars
    BY <1>3 DEF vars, daemonVars, managerVars, EndpointsInv, TypeOK, Alone, Operated,
       OperationsAreSound, OperationIsSound, CacheIsSound, CalmIsSound
  <1> QED
    BY <1>1, <1>2, <1>3, RestartInv DEF Next

LEMMA EndpointsInvariant == Spec => []EndpointsInv
  BY EndpointsInit, EndpointsStep, PTL DEF Spec

-----------------------------------------------------------------------------
(* Every reachable state is one of the runtime's and the proxy's; a         *)
(* container holds an address exactly while it runs.                        *)
THEOREM EndpointsTypeCorrect == Spec => []TypeOK
  <1>1. EndpointsInv => TypeOK
    BY DEF EndpointsInv
  <1> QED
    BY <1>1, EndpointsInvariant, PTL

(* The proxy sends a request for a sandbox that runs undisturbed to that    *)
(* sandbox's container, never to the one that has taken over an address it  *)
(* held before (Runtime.Start, AgentEndpoint, proxy.go).                    *)
THEOREM RequestsReachTheirSandbox == Spec => []RoutedHome
  <1>1. EndpointsInv => RoutedHome
    BY DEF EndpointsInv, CalmIsSound, RoutedHome
  <1> QED
    BY <1>1, EndpointsInvariant, PTL

(* However Create, Start, Stop and Destroy fail and follow each other, the  *)
(* cache of endpoints keeps nothing of a sandbox that is gone               *)
(* (Runtime.Create, Runtime.Destroy).                                       *)
THEOREM GoneSandboxesAreForgotten == Spec => []NoDeadEndpoint
  <1>1. EndpointsInv => NoDeadEndpoint
    BY DEF EndpointsInv, CacheIsSound, NoDeadEndpoint, Operated
  <1> QED
    BY <1>1, EndpointsInvariant, PTL
=============================================================================
