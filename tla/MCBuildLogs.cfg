CONSTANTS
  TemplateIds = {t1, t2}
  First = t1
  BuildIds = {b1}
  Names = {builtin, t1}
  BuiltinName = builtin
  Commands = {}
  SeedBuild = seed
  NoTemplate = none
  NoBuild = nobuild
  FlushFails = TRUE
  LogCapacity = 2
  MaxLines = 1
  Callers = {c1}
  Readers = {r1}
  Limits = {0, 1}
  AnyBuild = TRUE
  MaxCrashes = 1
SPECIFICATION MCFairSpec
\* ids run out and templates are deleted: nothing is left to do
CHECK_DEADLOCK FALSE
INVARIANTS
  ReadyHasImage
  ReadyResolves
  LogDelivered
  TerminalPollIsWhole
PROPERTY
  BuildsFinish
  CatalogImplemented
