SPECIFICATION FairSpec
CONSTANTS
    k1 = k1
    k2 = k2
    Keys = {k1, k2}
    Requests <- MCRequests
    Contexts <- MCContexts
    BrokerOrders = {accepted, refused}
    NoKey = NoKey
    NoRequest = NoRequest
    NoOrder = NoOrder
    MaximumOrderNotional = 10
    ParticipationNum = 1
    ParticipationDen = 10
    MaximumMarketDataAge = 3
    ForbidSt = TRUE
    MaxRestarts = 2
INVARIANTS CallsBoundedByRestarts
PROPERTIES SettledIsFinal
PROPERTIES ApprovedIsResolved KillBringsRest UnknownTripsKillSwitch
