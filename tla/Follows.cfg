CONSTANTS
    alice = alice
    bob = bob
    r1 = r1
    r2 = r2
    pier = pier
    Pier = Pier
    jetty = jetty
    Public = Public
    Unlocked = Unlocked
    NoSpot = NoSpot
    Accounts <- TwoAccounts
    Requests <- MCRequests
    Forms <- ThreeForms
    PlaceOf <- TwoPlaces
    Catalogue <- NoForms
    Importable <- Jetty
    FollowCap = 1
    CustomCap = 1
SPECIFICATION Spec
SYMMETRY AllSymmetry
INVARIANTS
    TypeOK
    FollowLimit
    CustomLimit
    NoTwins
    Isolation
PROPERTIES
    SeedIsWhole
