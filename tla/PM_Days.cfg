SPECIFICATION Spec
CONSTANTS
    EntryQty = 1
    MaxOrders = 12
    PartialFills = FALSE
    Rejects = {"entry"}
    MaxSessions = 2
    MaxCrashes = 1
    MaxFails = 0
    RerunSlots = 3
INVARIANTS RowsAreCurrent EnteringIsPolled EntryNeverStacks HoldingsCovered
