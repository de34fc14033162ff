SPECIFICATION FairSpec
CONSTANTS
    Droplets <- MCTwo
    Max = 1
    Min = 0
    Batch = 1
    Capacity = 1
    ProvisionTimeout = 2
    DrainTimeout = 1
    IdleGrace = 1
    StaleAfter = 1
    ReadyWindow = 1
    ListLag = 1
    LeaseTerm = 2
    Faults = {"crash", "provider"}
    MaxFaults = 1
    MaxBuild = 0
    LastCreate = 1
    MaxNow = 3
INVARIANTS
    LiveBindings
PROPERTIES
    TeardownSparesLeases
    OrphansReaped
