SPECIFICATION FairSpec
CONSTANTS
  a = a
  b = b
  c = c
  u = u
  NoService = NoService
  Services = {a, b}
  Watchers = {}
  ChanCap = 2
  MayDepend <- PairDeps
  MaxRetries <- OneTry
  StartFails = {a}
  StopFails = {}
  MayCancel = FALSE
PROPERTY StartAllReturns
CHECK_DEADLOCK FALSE
