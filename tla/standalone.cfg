SPECIFICATION MCSpec
CONSTANTS
    Subjects = {"journal", "backtest", "desk", "rebalance", "point in time", "governance", "settings"}
    Orders = {o1, o2}
    Reports <- LifecycleReports
    MaxCallbacks = 3
    Instruments = {"s1", "s2"}
    Base = 10
    BoardLot = 2
    Participation = 5
    Slippage = 1
    CommissionRate = 1
    MinimumCommission = 3
    StampDutyRate = 1
    TransferFeeRate = 1
    Calendars <- MCCalendars
    Markets <- MCMarkets
    Requests <- MCRequests
    MaxOrders = 3
    InitialCash = 9
    Matchers = {"ashare", "next_open"}
    Unit = 2
    MinimumClusters = 2
    PriorWeight = 1
    Whole = 1000
    Quantum = 10
    ObservationCap = 50
    EvidenceCap = 200
    CoreCap = 500
    MinimumEdge = 5
    CorrelationFloor = 2
    MinimumUpgrade = 2
    SizingMultiplier = 2
    Cases <- MCCases
    Evidence <- MCEvidence
    Outcomes <- MCOutcomes
    EvidenceBatches <- MCEvidenceBatches
    OutcomeBatches <- MCOutcomeBatches
    Expectations <- MCExpectations
    Payoffs <- MCPayoffs
    ApprovedShares = {60}
    Drifts <- MCDrifts
    MaxTime = 2
    ReleaseDays = {2}
    MaxReviews = 2
    MaxApprovals = 2
    Tradable = {1, 2}
    Portfolios <- MCPortfolios
    Quotes <- MCQuotes
    Equity = 3
    LotSize = 1
    FullWeight = 10
    CashTolerance = 0
    FirstAccounts <- MCFirstAccounts
    MaxDays = 2
    Items <- MCItems
    FirstDay = 1
    LastDay = 2
    NoRecord = NoRecord
    MaxTables = 2
    MaxRecords = 3
    Ideas = {"i"}
    FailureCases = {}
    Factors = {"f"}
    Artifacts <- MCArtifacts
    Hashes = {"h1", "long"}
    LongHashes = {"h1", "long"}
    GoodHashes = {"h1"}
    People = {"p"}
    NoHash = "none"
    Nobody = "nobody"
    Layers <- MCLayers
    Environments <- MCEnvironments
    MaxFiles = 3
    NotRunning = NotRunning
INVARIANTS
    StatusIsHighestRecorded
    AccountMatchesFills FillsAreAccepted TradesAtLaterOpens OnlyCommissionOverdraws
    OnlyLateEntriesChangeReplay PositionsAreEarned BlockedAddKeepsPosition
    NoOvershoot DifferencesAreUnlearnedTrades
    LaterReleasesOnlyRevise CacheHoldsWhatWasKnown
    ProductionIsConfirmed
    EveryGateIsNeeded
PROPERTY ClosedIsLearned
CHECK_DEADLOCK FALSE
