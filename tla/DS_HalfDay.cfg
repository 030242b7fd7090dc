SPECIFICATION Spec
CONSTANTS
    TradingDays = {1, 2, 4}
    HalfDays = {1}
    MaxDay = 2
    MaxDrops = 0
    MaxSignals = 0
    MaxCrashes = 0
    Recover = FALSE
INVARIANT SweepBeforeClose
