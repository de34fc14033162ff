SPECIFICATION Spec
CONSTANTS
    Droplets <- MCThree
    Max = 2
    Min = 0
    Batch = 2
    Capacity = 1
    ProvisionTimeout = 1
    DrainTimeout = 1
    IdleGrace = 1
    StaleAfter = 1
    ReadyWindow = 1
    ListLag = 1
    LeaseTerm = 0
    Faults = {"crash", "database"}
    MaxFaults = 1
    MaxBuild = 1
    LastCreate = 2
    MaxNow = 2
INVARIANTS
    LiveWithinCap
PROPERTIES
    NoResurrection
CONSTRAINT Story
