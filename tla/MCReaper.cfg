SPECIFICATION FairSpec
CONSTANTS
  Sandboxes = {s1}
  NoSandbox = none
  Callers = {c1, c2}
  Operations = {"create", "destroy", "setTimeout", "connect", "resume", "pause", "stop"}
  OnTimeoutModes = {"kill", "pause"}
  Timeouts = {1}
  DefaultTimeout = 1
  FreezeDuration = 1
  MaxFrozen = 1
  StoppedGCAfter = 2
  MaxAge = 2
  Faults = FALSE
  Disconnects = FALSE
  MaxCrashes = 0
PROPERTIES
  ExpiredReaped
  FrozenDemoted
  Reclaimed
