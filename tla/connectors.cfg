SPECIFICATION Spec
CONSTANTS
  Services <- MCServices
  KindOf <- MCKindOf
INVARIANTS StartedIsProbed NothingIsLost DownHoldsNothing
