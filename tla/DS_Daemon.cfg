SPECIFICATION FairSpec
CONSTANTS
    TradingDays = {1, 2, 4}
    HalfDays = {}
    MaxDay = 3
    MaxDrops = 1
    MaxSignals = 1
    MaxCrashes = 1
    Recover = FALSE
INVARIANTS
    TypeOK
    TradesOnItsDay
    SweepBeforeClose
    NoSilentOrphan
    SweepCovers
    NeverShort
PROPERTIES
    RunsOnce
    EveryDayRuns
