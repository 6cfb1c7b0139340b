CONSTANTS
    p1 = p1
    p2 = p2
    Free = Free
    Stale = Stale
    Procs <- MCProcs
    PlanEvery = 2
    JobLimit = 2
    StopLimit = 3
    Spacing = 0
    SessionsMayDie = TRUE
    CallsMayHang = FALSE
SPECIFICATION Spec
INVARIANTS
    SingleIngester
