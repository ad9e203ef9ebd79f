CONSTANTS
  Sandboxes = {s1, s2}
  Addresses = {a1, a2}
  NoAddress = noaddress
  NoSandbox = none
  Callers = {c1, c2}
  Clients = {p1}
  Faults = TRUE
  MaxCrashes = 1
SPECIFICATION Spec
SYMMETRY MCSymmetry
\* every address may be taken by a container that no operation can reach
CHECK_DEADLOCK FALSE
INVARIANTS
  TypeOK
  RoutedHome
  NoDeadEndpoint
