CONSTANTS
  TemplateIds = {t1, t2}
  First = t1
  BuildIds = {b1}
  Names = {builtin, app}
  BuiltinName = builtin
  Commands = {}
  SeedBuild = seed
  NoTemplate = none
  NoBuild = nobuild
  FlushFails = FALSE
  LogCapacity = 2
  MaxLines = 0
  Callers = {c1}
  Readers = {}
  Limits = {0}
  AnyBuild = TRUE
  MaxCrashes = 0
SPECIFICATION Spec
CHECK_DEADLOCK FALSE
INVARIANT
  ParentHasImage
