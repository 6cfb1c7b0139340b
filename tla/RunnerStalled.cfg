CONSTANTS
    w1 = w1
    w2 = w2
    waves = waves
    stations = stations
    NoKey = NoKey
    Nobody = Nobody
    Keys <- MCKeys
    StationKeys <- MCStationKeys
    Workers <- MCWorkers
    Suspendable <- MCWorkers
    MaxAttempts = 2
    Lease = 2
    JobTimeout = 1
    Slack = 0
    BackoffUnit = 1
    BackoffCap = 2
    PlanWindow = 1
    Retention = 1
    MaxOverdue = 1
    AllowRetry = FALSE
SPECIFICATION LiveSpec
INVARIANTS
    VerdictIsFenced
PROPERTIES
    ImplementsLedger
    JobsSettle
