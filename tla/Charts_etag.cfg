SPECIFICATION ChartsSpec
CONSTANTS
    w1 = w1
    w2 = w2
    v1 = v1
    Instants = 2
    Writers = {w1, w2}
    Viewers = {v1}
    LastWrite = 4
SYMMETRY WriterSymmetry
INVARIANTS
    NotModifiedIsFresh
CHECK_DEADLOCK FALSE
