SPECIFICATION Spec
CONSTANTS
    EntryQty = 1
    MaxOrders = 8
    PartialFills = FALSE
    Rejects = {}
    MaxSessions = 1
    MaxCrashes = 0
    MaxFails = 0
    RerunSlots = 0
PROPERTIES OcaAlertIsTrue
