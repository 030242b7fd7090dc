SPECIFICATION Spec
CONSTANTS
    TradingDays = {1, 2, 4}
    HalfDays = {}
    MaxDay = 2
    MaxDrops = 1
    MaxSignals = 0
    MaxCrashes = 1
    Recover = TRUE
INVARIANT NoSilentOrphan
