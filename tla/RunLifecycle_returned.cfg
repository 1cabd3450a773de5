SPECIFICATION Spec
CONSTANTS
    u1 = u1
    u2 = u2
    d1 = d1
    w1 = w1
    w2 = w2
    Runs = {u1, u2, d1}
    Uploads = {u1, u2}
    Workers = {w1, w2}
    StaleAfter = 1
INVARIANTS
    ReturnedLeavesNoQueuedRun
SYMMETRY Symmetry
CHECK_DEADLOCK FALSE
