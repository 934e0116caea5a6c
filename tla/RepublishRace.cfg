SPECIFICATION Spec
CHECK_DEADLOCK FALSE
SYMMETRY Symmetry
CONSTANTS
    Msgs = {m1}
    Workers = {w1, w2}
    Servers = {s1}
    NoServer = NoServer
    Prefetch = 2
    PageSize = 2
    Attempts = 1
    AutoAck = TRUE
    HandlerMayAck = FALSE
    AckOthers = FALSE
    Poison = {}
    Slow = FALSE
    Faults = {}
    MaxFaults = 0
    MaxLen = 3
INVARIANTS
    PendingHasEntry
