SPECIFICATION FairSpec
CHECK_DEADLOCK FALSE
CONSTANTS
    Servers = {s1, s2}
    Consumers = {c1}
    Expire = 2
    Stalling = {s2}
    MaxFaults = 2
INVARIANTS
    OnlyLapsedRemoved
PROPERTIES
    StaysListed
    DeadForgotten
    BeatingIsListed
