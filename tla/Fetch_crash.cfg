SPECIFICATION Spec
CONSTANTS
    Points = {1}
    Horizon = 1
    Settle = 0
    Backfill = 2
    InFlightFor = 1
    MaxSpan = 2
    MaxPoints = 1
    Attempts = 2
    MaxFetches = 2
    MaxCrashes = 1
    Requests <- Everything
    RunWindows <- WholeTime
    Start = 0
    History <- Empty
PROPERTIES
    DeferredFetchesEnd
CHECK_DEADLOCK FALSE
