SPECIFICATION Spec
CHECK_DEADLOCK FALSE
CONSTANTS
  Deployments <- MCDeployments
  NoIdentity = NoIdentity
  OldLedgers <- MCNewLedgers
  s1 = s1
  s2 = s2
  Symbols = {s1}
  MaxQuantity = 1
  Price = 2
  FirstCash = 4
  FirstHeld = 0
  Estimates = {1}
  MaxOrderValue = 4
  MaxOrdersPerSession = 1
  MinDays = 1
  MaxOrders = 3
  MaxCurve = 1
INVARIANT PromotedFateIsKnown
