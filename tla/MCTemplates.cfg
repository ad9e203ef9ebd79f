CONSTANTS
  TemplateIds = {t1, t2}
  First = t1
  BuildIds = {b1, b2}
  Names = {builtin, app}
  BuiltinName = builtin
  Commands = {start}
  SeedBuild = seed
  NoTemplate = none
  NoBuild = nobuild
  FlushFails = TRUE
  LogCapacity = 2
  MaxLines = 0
  Callers = {c1, c2}
  Readers = {}
  Limits = {0}
  AnyBuild = FALSE
  MaxCrashes = 0
SPECIFICATION Spec
SYMMETRY MCSymmetry
\* ids run out and templates are deleted: nothing is left to do
CHECK_DEADLOCK FALSE
INVARIANTS
  TypeOK
  AliasesAgree
  AcknowledgedIsDurable
  FailedWritesLeaveNoTrace
  TerminalIsPersisted
  CommandsFitImage
PROPERTY
  FinishedStays
