SPECIFICATION Spec
CHECK_DEADLOCK FALSE
SYMMETRY Symmetry
CONSTANTS
    Msgs = {m1, m2}
    Workers = {w1, w2}
    Servers = {s1}
    NoServer = NoServer
    Prefetch = 2
    PageSize = 1
    Attempts = 1
    AutoAck = TRUE
    HandlerMayAck = FALSE
    AckOthers = FALSE
    Poison = {}
    Slow = FALSE
    Faults = {"WorkerCrash", "ReadLost", "ResolveError"}
    MaxFaults = 1
    MaxLen = 5
INVARIANTS
    NoConcurrentRuns
    RetryingHasEntry
PROPERTIES
    EffectivelyOnce
