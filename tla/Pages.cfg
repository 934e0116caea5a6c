SPECIFICATION SpecLists
SYMMETRY ServerSymmetry
CONSTANTS
    Servers = {s1, s2}
    BeatTicks = 4
    OfflineTicks = 6
    TimeoutTicks = 2
    MaxAge = 10
INVARIANTS
    NoStuckSpinner
    NoFalseAlarm
    DeadNoticed
