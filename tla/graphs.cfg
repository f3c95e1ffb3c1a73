SPECIFICATION FairSpec
CONSTANTS
  a = a
  b = b
  c = c
  u = u
  NoService = NoService
  Services = {a, b, c}
  Watchers = {}
  ChanCap = 1
  MayDepend <- AnyDeps
  MaxRetries <- OneTry
  StartFails = {}
  StopFails = {}
  MayCancel = FALSE
INVARIANTS NoNilDependency DependenciesUp NoDeadlock
PROPERTIES BootCompletes ShutdownCompletes
CHECK_DEADLOCK FALSE
