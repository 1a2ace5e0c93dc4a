CONSTANTS
    Height = 3
    Pivot = 1
    ForceVerify = 1
    CacheLimit = 2
    Batch = 3
    Capacity = 2
    FailLimit = 1
    EmptyBody = {3}
    EmptyReceipts = {}
    Peer = {p1, p2}
    Master = p1
    MaxFaults = 1
SPECIFICATION Spec
INVARIANT TaskOnce
INVARIANT NoInternalError
PROPERTY StreamSpec
PROPERTY SyncEnds
CHECK_DEADLOCK FALSE
