SPECIFICATION Spec
CONSTANTS
    a = a
    b = b
    Symbols = {a, b}
    Price <- MCPrice
    Wanted <- MCWanted
    Rate <- MCRate
    Slip = 1
    Prewarmed = {b}
    One = 10
    Budget = 70
    MaxGross = 6
    MaxPosition = 6
    MaxFails = 2
INVARIANTS TypeOK ExitsMatchHoldings SweepLeavesNothing
PROPERTIES ImplementsBook
