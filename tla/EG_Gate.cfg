SPECIFICATION Spec
CONSTANTS
    a = a
    b = b
    Symbols = {a, b}
    Price <- MCPrice
    Wanted <- MCWanted
    Rate <- MCRate
    Results <- MCResults
    Slip = 1
    Budget = 16
    MaxGross = 16
    MaxPosition = 7
    MaxConcurrent = 0
    BuyingPower = 12
    MinParts = 10
    KillLoss = 3
    MaxSessions = 2
INVARIANTS TypeOK RecordedLossKills
PROPERTIES KillSticks ImplementsBook
