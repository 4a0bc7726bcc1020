SPECIFICATION Spec
CONSTANTS
    k1 = k1
    k2 = k2
    s1 = s1
    Keys = {k1, k2}
    Symbols = {s1}
    Requests <- MCRequests
    Prices = {1, 2}
    InitialCash = 3
    InitialPositions <- MCInitialPositions
    Quotes <- MCQuotes
    NoKey = NoKey
    NoRequest = NoRequest
    NoOrder = NoOrder
    MaximumOrderNotional = 10
    ParticipationNum = 1
    ParticipationDen = 10
    MaximumMarketDataAge = 3
    ForbidSt = TRUE
    MaxRestarts = 1
INVARIANT FailedIsNotTraded
