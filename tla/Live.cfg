SPECIFICATION FairRuns
CHECK_DEADLOCK FALSE
CONSTANTS
    Msgs = {m1}
    Workers = {w1, w2}
    Servers = {s1}
    NoServer = NoServer
    Prefetch = 1
    PageSize = 1
    Attempts = 1
    AutoAck = TRUE
    HandlerMayAck = FALSE
    AckOthers = FALSE
    Poison = {}
    Slow = FALSE
    Faults = {"PublishError", "CommitError", "ReadLost", "ResolveError", "WorkerCrash",
              "TimeoutError", "TimeoutCrash"}
    MaxFaults = 2
    MaxLen = 7
    CompletedMax = 1
    FailedMax = 1
    CheckOrphans = FALSE
    BatchSize = 1
    MaxDeletes = 0
INVARIANTS
    FailedOnlyWhenSpent
    ExecutionsBounded
PROPERTIES
    EventuallySettled
