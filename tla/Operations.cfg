SPECIFICATION FairSpecOps
CHECK_DEADLOCK FALSE
CONSTANTS
    Msgs = {m1}
    Workers = {w1}
    Servers = {s1}
    NoServer = NoServer
    Prefetch = 1
    PageSize = 1
    Attempts = 0
    AutoAck = TRUE
    HandlerMayAck = FALSE
    AckOthers = FALSE
    Poison = {}
    Slow = FALSE
    Faults = {"CleanupError", "PublisherCrash", "WorkerCrash", "TimeoutCrash"}
    MaxFaults = 1
    MaxLen = 3
    CompletedMax = 0
    FailedMax = 0
    CheckOrphans = TRUE
    BatchSize = 2
    MaxDeletes = 1
INVARIANTS
    IInv
    IndexExclusive
PROPERTIES
    OrphansFound
    Trimmed
