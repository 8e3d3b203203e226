SPECIFICATION Spec
CONSTANTS
    Orders <- MCOrders
    Quantity <- MCQuantity
    CleanRecovery = FALSE
    MaxLaunches = 2
INVARIANT LateFillsArePolled
