SPECIFICATION FairSpec
CONSTANTS
  a = a
  b = b
  c = c
  u = u
  NoService = NoService
  Services = {a, b}
  Watchers = {u}
  ChanCap = 2
  MayDepend <- PairDeps
  MaxRetries <- OneTry
  StartFails = {a, b}
  StopFails = {a, b}
  MayCancel = FALSE
INVARIANTS NoLostWakeup
PROPERTIES ReadyIsServed ReadyIsCancelled
CHECK_DEADLOCK FALSE
