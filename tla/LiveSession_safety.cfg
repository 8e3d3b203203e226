SPECIFICATION Spec
CONSTANTS
    Orders <- MCOrders
    Quantity <- MCQuantity
    CleanRecovery = FALSE
    MaxLaunches = 3
INVARIANTS
    TypeOK
    LedgerTelescopes
    WatermarksInOrder
    EveryOpenOrderTracked
    EvidenceOfEveryOrder
    SingleWriter
PROPERTIES
    ClosedWithEverythingBooked
    EquityCountsEveryFill
    ImplementsLifecycle
