SPECIFICATION FairSpec
CONSTANTS
    calendar = calendar
    stocks = stocks
    income = income
    forecast = forecast
    Stages <- MCStages
    Pooled = {2}
    Workers = 2
    Optional = {forecast}
    Needed <- MCNeeded
    Read = {calendar, stocks}
    MaxAttempts = 2
    MaxPages <- MCMaxPages
    MaxCrashes = 1
INVARIANTS ReportIsTrue CheckpointHasRaw WorkersRest
PROPERTIES CompletedStays RerunsComplete
CHECK_DEADLOCK FALSE
