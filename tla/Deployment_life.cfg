SPECIFICATION Spec
CHECK_DEADLOCK FALSE
CONSTANTS
  Deployments <- MCDeployments
  NoIdentity = NoIdentity
  OldLedgers <- MCOldLedgers
  s1 = s1
  s2 = s2
  Symbols = {s1, s2}
  MaxQuantity = 3
  Price = 2
  FirstCash = 5
  FirstHeld = 1
  Estimates = {1, 2}
  MaxOrderValue = 4
  MaxOrdersPerSession = 2
  MinDays = 1
  MaxOrders = 2
  MaxCurve = 1
SYMMETRY Exchangeable
INVARIANTS
  OneDeploymentPerLedger
  PromotedIsPaper
  FeesTelescope
  FilledIsFinal
  ClampedIsCovered
  HaltIsExplained
