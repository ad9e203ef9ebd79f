SPECIFICATION Spec
CONSTANTS
  Sandboxes = {s1}
  NoSandbox = none
  Callers = {c1}
  Operations = {"create"}
  OnTimeoutModes = {"kill"}
  Timeouts = {1}
  DefaultTimeout = 1
  FreezeDuration = 1
  MaxFrozen = 1
  StoppedGCAfter = 1
  MaxAge = 2
  Faults = FALSE
  Disconnects = TRUE
  MaxCrashes = 0
PROPERTIES
  FailedCreateCleansUp
