SPECIFICATION Spec
CONSTANTS
    Points = {1}
    Horizon = 3
    Settle = 1
    Backfill = 2
    InFlightFor = 1
    MaxSpan = 2
    MaxPoints = 1
    Attempts = 2
    MaxFetches = 1
    MaxCrashes = 0
    Requests <- Everything
    RunWindows <- WholeTime
    Start = 0
    History <- Empty
INVARIANTS
    CoveredIsFinal
CHECK_DEADLOCK FALSE
