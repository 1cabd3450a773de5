SPECIFICATION Spec
CONSTANTS
    r1 = r1
    r2 = r2
    s1 = s1
    u1 = u1
    NsPerUs = 2
    Runs = {r1, r2}
    Series = {s1}
    SeriesOf <- OneSeries
    LockKeys = {s1}
    LockKey <- OwnKey
    Reports <- FewReports
    Users = {u1}
INVARIANTS
    ExistingIsFound
CHECK_DEADLOCK FALSE
