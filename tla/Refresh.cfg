CONSTANTS
    Instances <- MCInstances
    Agains = {"again"}
    Saves = {"save"}
    Unlocks = {"unlock"}
    MaxSession = 1
SPECIFICATION LiveSpec
INVARIANTS
    TypeOK
    ReloadSeesChange
PROPERTIES
    BusyEnds
    Converges
