SPECIFICATION Spec
CONSTANTS
    Symbols <- MCSymbols
    Inst <- MCInst
    Only <- MCOnly
    Rank <- MCRank
    EtfClose <- MCEtfClose
    Threshold <- MCThreshold
    Sigma <- MCSigma
    Shares <- MCShares
    Weights <- MCWeights
    ActiveMin = 2
    FloodMin = 3
    CapUnits = 10
    MaxMarginRate = 20
    Uls <- MCUls
    Crypto = {"c"}
    TradingDays = {1, 2, 3, 5}
    FirstSession = 3
    Closes <- MCCloses
    Backfill <- MCBackfill
    Mornings <- MCMornings
    Replies <- MCReplies
    Excluded = {}
    LongOnly = {}
    HtbShorts = FALSE
    MaxRuns = 2
    MaxDeaths = 1
INVARIANTS
    TypeOK
    ReplayReproduces
    EquityClosesFinal
    PriorSessionRead
    AllotmentShared
    ExposureWithinCap
    OnePerUnderlying
    EveryUnderlyingElected
    FillableElected
    SidesAgree
