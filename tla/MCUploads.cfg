CONSTANTS
  Hashes = {h1, h2}
  Contents = {x, y}
  Chunks = 2
  Uploaders = {u1, u2}
  BuildIds = {b1}
  NoHash = nohash
  TTL = 1
  MaxLinks = 2
  MaxTime = 4
  MaxCrashes = 1
SPECIFICATION Spec
SYMMETRY MCSymmetry
\* the bounds on time, links and crashes leave a state without successors
CHECK_DEADLOCK FALSE
INVARIANTS
  TypeOK
  CachedIsWhole
  ContextIsOneUpload
  LinkLifetime
PROPERTY
  BlobsImplemented
