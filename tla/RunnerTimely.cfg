CONSTANTS
    w1 = w1
    w2 = w2
    waves = waves
    stations = stations
    NoKey = NoKey
    Nobody = Nobody
    Keys <- MCKeys
    StationKeys <- MCStationKeys
    Workers <- MCWorkers
    Suspendable <- NoWorkers
    MaxAttempts = 2
    Lease = 3
    JobTimeout = 1
    Slack = 1
    BackoffUnit = 1
    BackoffCap = 2
    PlanWindow = 1
    Retention = 2
    MaxOverdue = 1
    AllowRetry = TRUE
SPECIFICATION Spec
SYMMETRY WorkerSymmetry
INVARIANTS
    TypeOK
    OneExecutor
    LeaseOutlivesWork
    AttemptBudget
