SPECIFICATION FramesSpec
CONSTANTS
    Width = 5
    Samples <- Plain
    MaxSamples = 4
    Interval = 1
    GapThreshold = 1
    FlagLimit = 25
    SegmentLength = 2
    Buckets = 2
INVARIANTS
    EpisodesAreConsecutive
CHECK_DEADLOCK FALSE
