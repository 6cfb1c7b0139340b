CONSTANTS
    p1 = p1
    p2 = p2
    Free = Free
    Stale = Stale
    Procs <- MCProcs
    PlanEvery = 1
    JobLimit = 1
    StopLimit = 2
    Spacing = 0
    SessionsMayDie = TRUE
    CallsMayHang = TRUE
SPECIFICATION Spec
SYMMETRY ProcSymmetry
INVARIANTS
    TypeOK
    OneConnectedLeader
    LostLeaderStandsDown
    StopsCleanly
