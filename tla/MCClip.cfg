SPECIFICATION Spec
CONSTANTS
    r1 = r1
    c1 = c1
    c2 = c2
    w1 = w1
    k1 = k1
    NoWorker = NoWorker
    NoJob = NoJob
    Recordings = {r1}
    Jobs = {c1, c2}
    Workers = {w1}
    Relays = {}
    Segments = {k1}
    RecOf <- MCRecOf
    KindOf <- MCKindOf
    KeysOf <- MCKeysOf
    FireAt <- MCFireAt
    CloseOf <- MCCloseOf
    Schedules = {{c1, c2}, {c1}}
    Jitter <- MCJitter
    Ends = {4, 9}
    Capacity <- MCCapacity
    LeaseTerm = 2
    FreshFor = 3
    PostWindow = 2
    RetryDelay = 1
    HandoffHold = 1
    SurrenderBackoff <- MCSurrenderBackoff
    ReviveBackoff = 1
    CatchupWindow = 3
    MaxAttempts = 2
    MaxNow = 5
    MaxLeases = 2
    MaxRequests = 1
INVARIANTS
    WithinCapacity
PROPERTIES
    LedgerSpec
