CONSTANTS
    h1 = h1
    h2 = h2
    h3 = h3
    b1 = b1
    b2 = b2
    a1 = a1
    Nobody = Nobody
    Browsers <- TwoBrowsers
    Accounts <- OneAccount
    Handlers <- ThreeHandlers
    MaxAttempts = 2
    Flows = 2
    QueueLimit = 1
    Kept = 0
SPECIFICATION Spec
SYMMETRY SignInSymmetry
INVARIANTS
    TypeOK
    QueueBounded
    UsedOnce
    SessionsBounded
    SignedInByOwnAttempt
    OwnCookieStays
