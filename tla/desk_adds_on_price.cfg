SPECIFICATION Spec
CONSTANTS
    Unit = 2
    MinimumClusters = 2
    PriorWeight = 1
    Whole = 1000
    Quantum = 10
    ObservationCap = 50
    EvidenceCap = 200
    CoreCap = 500
    MinimumEdge = 5
    CorrelationFloor = 2
    MinimumUpgrade = 2
    SizingMultiplier = 2
    Cases <- MCCases
    Evidence <- MCEvidence
    Outcomes <- MCOutcomes
    EvidenceBatches <- PriceAfterEntry
    OutcomeBatches <- MCOutcomeBatches
    Expectations <- MCExpectations
    Payoffs <- MCPayoffs
    ApprovedShares = {60}
    Drifts <- MCDrifts
    MaxTime = 2
    ReleaseDays = {2}
    MaxReviews = 2
    MaxApprovals = 2
INVARIANT AddsNeedOperatingEvidence
CHECK_DEADLOCK FALSE
