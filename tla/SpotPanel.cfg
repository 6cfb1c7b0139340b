CONSTANTS
    Spots <- MCSpots
    Times <- MCTimes
    Runs = {1, 2}
    Day <- MCDay
    Period = 2
    TimeLimit = 1
    MaxStrays = 1
    Instances <- MCInstances
SPECIFICATION Spec
INVARIANTS
    TypeOK
    PanelIsForSelected
    NoSilentStaleness
    ChosenTimeShown
    OneFrame
    AnimationGoesOn
    GpuIsReturned
PROPERTIES
    OutlookNeverOlder
