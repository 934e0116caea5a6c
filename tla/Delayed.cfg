SPECIFICATION FairSpec
CHECK_DEADLOCK FALSE
CONSTANTS
    Msgs = {m1, m2}
    Queues = {q1}
    Delays = {d1, d2}
    Processes = {p1, p2}
    Servers = {s1, s2}
    NoMsg = NoMsg
    NoDelay = NoDelay
    Prefetch = 2
    Faults = {"PublishError", "Restart", "MoveError", "PollError", "MoverCrash"}
    MaxFaults = 1
INVARIANTS
    TypeOK
    RegisteredIfUnshared
    OneHand
    LossBounded
    CopiesBounded
    StoredIdIsLast
PROPERTIES
    EventuallyMoved
