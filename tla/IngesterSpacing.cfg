CONSTANTS
    p1 = p1
    p2 = p2
    Free = Free
    Stale = Stale
    Procs <- MCProcs
    PlanEvery = 2
    JobLimit = 2
    StopLimit = 3
    Spacing = 2
    SessionsMayDie = FALSE
    CallsMayHang = FALSE
SPECIFICATION Spec
PROPERTIES
    DownloadsSpaced
