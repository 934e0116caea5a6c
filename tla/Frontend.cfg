SPECIFICATION SpecFrontend
CHECK_DEADLOCK FALSE
CONSTANTS
    Statuses = {All, Failed}
    All = All
    MaxCount = 2
    MaxTotal = 1
    MaxPolls = 2
    PageSizes = {1, 2}
    FirstSize = 1
    MaxEvents = 3
INVARIANTS
    PageInRange
    ListIsCurrent
    SelectionOfFilter
    ChartCurrent
    ListenersRemoved
PROPERTIES
    ToastStays
