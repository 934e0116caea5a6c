SPECIFICATION SpecOps
CHECK_DEADLOCK FALSE
CONSTANTS
    Msgs = {m1}
    Workers = {w1}
    Servers = {s1}
    NoServer = NoServer
    Prefetch = 1
    PageSize = 1
    Attempts = 0
    AutoAck = TRUE
    HandlerMayAck = FALSE
    AckOthers = FALSE
    Poison = {}
    Slow = FALSE
    Faults = {}
    MaxFaults = 0
    MaxLen = 2
    CompletedMax = 1
    FailedMax = 1
    CheckOrphans = FALSE
    BatchSize = 2
    MaxDeletes = 1
INVARIANTS
    IndexedHasMetadata
