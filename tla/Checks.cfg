SPECIFICATION ChecksSpec
CONSTANTS
    r1 = r1
    r2 = r2
    r3 = r3
    s1 = s1
    u1 = u1
    t1 = t1
    t2 = t2
    NsPerUs = 2
    Runs = {r1, r2, r3}
    Series = {s1}
    SeriesOf <- OneSeries
    LockKeys = {s1}
    LockKey <- OwnKey
    Reports <- ThreeReports
    Users = {u1}
    Width = 5
    Samples <- FiveKinds
    MaxSamples = 4
    Interval = 1
    GapThreshold = 1
    FlagLimit = 25
    SegmentLength = 2
    Buckets = 2
    Paths = {1, 2}
    Parts = 2
    Unreadable <- FirstOfOne
    Settle = 1
    FilesPerScan = 1
    LastContent = 2
    LastTime = 2
    ScanDeaths = 1
    MonthLength = 2
    LastInstant = 3
    CacheFrames <- WrittenFrames
    CacheRanges <- ReadRanges
    CacheWriters = {t1, t2}
    CacheReaders = {1}
    LastCacheWrite = 2
    LastCacheTime = 2
    MaxBins = 8
    GridNs = 2
    Durations = {2, 4, 5}
    MaxWidth = 2
    ScoredFrom = 1
    ScoredTo = 4
    Weights = {1, 3}
    Ends <- WindowsOfFindings
    Affected = {1, 2}
    Scale = 6
    MaxReported = 3
    HistoryPoints = {1, 2}
    SourceTick = 2
    PageSize = 3
    Archives <- HeldValues
    ReadWindows <- TwoWindows
    MostHeld = 5
    LastHeld = 6
    Root = 1
    AddressSpaces <- MixedSpaces
    Matching = {1, 4, 5, 6}
    BrowseBatch = 2
    BrowseDepth = 3
    BrowseLimit = 7
    SearchLimit = 3
SYMMETRY ChecksSymmetry
INVARIANTS
    ChecksTypeOK
    FindingsKept
    
    ReadsAreFresh
    ReadsGiveEachOnce
PROPERTIES
    FindingsStay
    
CHECK_DEADLOCK FALSE
