SPECIFICATION Spec
CONSTANTS
    Points = {1, 2}
    Horizon = 5
    Settle = 1
    Backfill = 3
    InFlightFor = 1
    MaxSpan = 2
    MaxPoints = 1
    Attempts = 2
    MaxFetches = 2
    MaxCrashes = 1
    Requests <- PartForced
    RunWindows <- LateWindow
    Start = 4
    History <- Uneven
INVARIANTS
    TypeOK
    CoverageIsAnswered
    SucceededIsCovered
PROPERTIES
    CoverageOnlyGrows
    PlanIsExact
    OnlyDeathsHoldUp
CHECK_DEADLOCK FALSE
