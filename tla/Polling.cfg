SPECIFICATION SpecPolling
CHECK_DEADLOCK FALSE
CONSTANTS
    Statuses = {All}
    MaxCount = 0
    MaxTotal = 3
    MaxPolls = 5
INVARIANTS
    NothingMissed
    ExactOneByOne
