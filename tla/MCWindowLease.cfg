SPECIFICATION Spec
CONSTANTS
    r1 = r1
    j1 = j1
    w1 = w1
    w2 = w2
    k1 = k1
    NoWorker = NoWorker
    NoJob = NoJob
    Recordings = {r1}
    Jobs = {j1}
    Workers = {w1, w2}
    Relays = {w1}
    Segments = {}
    RecOf <- MCRecOf
    KindOf <- MCKindOf
    KeysOf <- MCKeysOf
    FireAt <- MCFireAt
    CloseOf <- MCCloseOf
    Schedules = {3, 5}
    Jitter <- MCJitter
    Ends = {4, 9}
    Capacity <- MCCapacity
    LeaseTerm = 2
    FreshFor = 2
    PostWindow = 2
    RetryDelay = 1
    HandoffHold = 1
    SurrenderBackoff <- MCSurrenderBackoff
    ReviveBackoff = 1
    CatchupWindow = 3
    MaxAttempts = 2
    MaxNow = 5
    MaxLeases = 2
    MaxRequests = 2
INVARIANTS
    NoOverlappingCapture
    WorkOnlyWhenActive
