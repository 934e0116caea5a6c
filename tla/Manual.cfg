SPECIFICATION SpecContent
CHECK_DEADLOCK FALSE
SYMMETRY ActorSymmetry
CONSTANTS
    NoMsg = NoMsg
    Msgs = {m1, m2}
    Workers = {w1, w2}
    Servers = {s1}
    NoServer = NoServer
    Prefetch = 2
    PageSize = 2
    Attempts = 0
    AutoAck = FALSE
    HandlerMayAck = TRUE
    AckOthers = TRUE
    Poison = {m2}
    Slow = FALSE
    Faults = {"CommitError"}
    MaxFaults = 1
    MaxLen = 3
INVARIANTS
    NoLoss
    EntryIdsAreOwn
    GoodReportsOwn
