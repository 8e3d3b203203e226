SPECIFICATION FairSpec
CONSTANTS
    Orders <- MCOrders
    Quantity <- MCQuantity
    CleanRecovery = TRUE
    MaxLaunches = 2
INVARIANT NeverOverstated
PROPERTY LaunchEnds
