SPECIFICATION Spec
CONSTANTS
  Sandboxes = {s1}
  NoSandbox = none
  Callers = {c1, c2}
  Operations = {"create", "destroy", "setTimeout", "connect", "resume", "pause", "stop"}
  OnTimeoutModes = {"kill", "pause"}
  Timeouts = {0, 2}
  DefaultTimeout = 1
  FreezeDuration = 1
  MaxFrozen = 1
  StoppedGCAfter = 2
  MaxAge = 2
  Faults = TRUE
  Disconnects = TRUE
  MaxCrashes = 1
SYMMETRY Symmetry
INVARIANTS
  TypeOK
  RegisteredHasContainer
  Accounted
  Ownership
  DestroyIsFinal
  QuiescentAgreement
PROPERTIES
  LifecycleImplemented
  OnlyDueRemovals
