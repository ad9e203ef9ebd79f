SPECIFICATION FairSpec
CONSTANTS
  Sandboxes = {s1, s2}
  NoSandbox = none
  Callers = {c1}
  Operations = {"create", "destroy", "connect", "pause"}
  OnTimeoutModes = {"kill"}
  Timeouts = {1}
  DefaultTimeout = 1
  FreezeDuration = 0
  MaxFrozen = 1
  StoppedGCAfter = 0
  MaxAge = 2
  Faults = FALSE
  Disconnects = FALSE
  MaxCrashes = 0
PROPERTIES
  CapRestored
