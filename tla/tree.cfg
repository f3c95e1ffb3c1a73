SPECIFICATION FairSpec
CONSTANTS
  a = a
  b = b
  c = c
  u = u
  NoService = NoService
  Services = {a, b, c}
  Watchers = {}
  ChanCap = 2
  MayDepend <- ChainDeps
  MaxRetries <- MixedTries
  StartFails = {a, b, c}
  StopFails = {a, b, c}
  MayCancel = TRUE
INVARIANTS GivesUpOnLastTry ErrCFits SilenceIsSuccess
  BlameIsFounded OrderInductive OutcomeInductive
PROPERTIES RefinesDependencyOrder OperationsReturn WorkShrinks RoomLasts
CHECK_DEADLOCK FALSE
