SPECIFICATION Spec
CONSTANTS
    TicksPerMinute = 2
    OrbEnd = 2
    Grace = 2
    Eod = 8
    Close = 9
    FetchTicks = 1
    MaxDays = 2
    MaxDrops = 2
    MaxReruns = 1
INVARIANTS TypeOK OneAttempt NothingStreamsAfter WatchedHasStream
PROPERTIES BarsInOrder
