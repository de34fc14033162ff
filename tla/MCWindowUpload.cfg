SPECIFICATION FairSpec
CONSTANTS
    r1 = r1
    j1 = j1
    w1 = w1
    w2 = w2
    k1 = k1
    NoWorker = NoWorker
    NoJob = NoJob
    Recordings = {r1}
    Jobs = {j1}
    Workers = {w1}
    Relays = {}
    Segments = {k1}
    RecOf <- MCRecOf
    KindOf <- MCKindOf
    KeysOf <- MCKeysOf
    FireAt <- MCFireAt
    CloseOf <- MCCloseOf
    Schedules = {2, 3}
    Jitter <- MCJitter
    Ends = {9}
    Capacity <- MCCapacity
    LeaseTerm = 2
    FreshFor = 2
    PostWindow = 2
    RetryDelay = 1
    HandoffHold = 1
    SurrenderBackoff <- MCSurrenderBackoff
    ReviveBackoff = 1
    CatchupWindow = 3
    MaxAttempts = 2
    MaxNow = 6
    MaxLeases = 2
    MaxRequests = 1
INVARIANTS
    ClipDescribesObject
    NoLeaseOutlivesWindow
PROPERTIES
    WindowsSettle
    ClosedAfterWindow
    LedgerSpec
