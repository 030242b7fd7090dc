SPECIFICATION FairSpec
CONSTANTS
    EntryQty = 2
    MaxOrders = 8
    PartialFills = TRUE
    Rejects = {"entry", "tp1", "stop"}
    MaxSessions = 1
    MaxCrashes = 0
    MaxFails = 2
    RerunSlots = 0
INVARIANTS TypeOK RemainingAccounts LedgerIsBacked
PROPERTIES PendingResolved
