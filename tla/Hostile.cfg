SPECIFICATION SpecScanning
CHECK_DEADLOCK FALSE
SYMMETRY Symmetry
CONSTANTS
    Msgs = {m1}
    Workers = {w1, w2}
    Servers = {s1, s2}
    NoServer = NoServer
    Prefetch = 1
    PageSize = 1
    Attempts = 0
    AutoAck = TRUE
    HandlerMayAck = FALSE
    AckOthers = FALSE
    Poison = {}
    Slow = TRUE
    Faults = {"PublishError", "PublisherCrash", "ReadLost", "ResolveError",
              "CommitError", "WorkerCrash", "TimeoutError", "TimeoutCrash"}
    MaxFaults = 1
    MaxLen = 3
INVARIANTS
    TypeOK
    DeliveredIsPending
    IndexMatchesHash
PROPERTIES
    AtLeastOnce
    RoundsComplete
