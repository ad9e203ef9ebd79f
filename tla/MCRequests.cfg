SPECIFICATION Spec
CONSTANTS
  Sandboxes = {s1}
  NoSandbox = none
  Callers = {c1, c2, c3}
  Operations = {"create", "destroy", "setTimeout", "connect", "resume", "pause", "stop"}
  OnTimeoutModes = {"kill", "pause"}
  Timeouts = {0, 2}
  DefaultTimeout = 1
  FreezeDuration = 1
  MaxFrozen = 1
  StoppedGCAfter = 2
  MaxAge = 2
  Faults = FALSE
  Disconnects = FALSE
  MaxCrashes = 1
SYMMETRY Symmetry
INVARIANTS
  RegisteredHasContainer
  NoLeak
  DestroyIsFinal
  QuiescentAgreement
PROPERTIES
  OnlyDueRemovals
  DestroySucceeds
  CalmPauseSurvives
