SPECIFICATION Spec
CONSTANTS
    k1 = k1
    k2 = k2
    Keys = {k1, k2}
    Requests <- MCRequests
    Contexts <- MCContexts
    NoKey = NoKey
    NoRequest = NoRequest
    NoOrder = NoOrder
    OrderStatus = {"SUBMITTED", "PARTIALLY_FILLED", "FILLED", "CANCELLED"}
    MaximumOrderNotional = 10
    ParticipationNum = 1
    ParticipationDen = 10
    MaximumMarketDataAge = 3
    ForbidSt = TRUE
    MaxRestarts = 1
    AbortInCall = TRUE
INVARIANT NoDuplicateAtGateway
SYMMETRY KeySymmetry
