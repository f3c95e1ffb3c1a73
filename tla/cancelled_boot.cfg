SPECIFICATION FairSpec
CONSTANTS
  a = a
  b = b
  c = c
  u = u
  NoService = NoService
  Services = {a, b}
  Watchers = {}
  ChanCap = 2
  MayDepend <- PairDeps
  MaxRetries <- OneTry
  StartFails = {}
  StopFails = {}
  MayCancel = TRUE
PROPERTY StartAllReturns
CHECK_DEADLOCK FALSE
