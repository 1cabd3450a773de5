SPECIFICATION ApiSpec
CONSTANTS
    a1 = a1
    a2 = a2
    b1 = b1
    b2 = b2
    Accounts = {"u1", "u2"}
    Subjects = {"p1"}
    IdpSessions = {"i1"}
    SubjectOf <- OnePerson
    LoginFlows = {a1, a2}
    Callbacks = {b1, b2}
    Visits = {"v1"}
    SignInMethods = {"passkey"}
    FlowTtl = 1
    TouchInterval = 0
    SessionIdle = 2
    SessionAbsolute = 4
    LastMoment = 4
    LimitKeys = {"k1"}
    Limited = {"r1", "r2"}
    RuleLimit = 2
    RuleWindow = 4
    KeepFor = 6
    TicksPerSecond = 2
    LimitTicks = 12
    HitBound = 4
    Decoders = {"d1", "d2"}
    CacheTtl = 3
    RefreshMin = 2
    FetchTime = 1
    LastKey = 2
    KeyClockBound = 5
    Sets = {1, 2}
    SetNames = {"n1", "n2"}
    SeriesIds = {"s1", "s2", "s3"}
    Lists <- SetLists
    Edits <- SetEdits
    MinMembers = 2
    MaxMembers = 2
    SetEditors = {a1, a2}
    Systems = {a1, a2}
    Logins = {"l1", "l2"}
    Putters = {b1, b2}
    LastMasterKey = 2
    LastPair = 1
    SourceRows = {"s1", "s2"}
    SourceNames = {"n1", "n2"}
    Configs = {"c1", "c2"}
    Patches <- SomePatches
    Points = {"p1", "p2"}
    PointLists <- SomePointLists
    SourceEditors = {a1, a2}
    Limits <- SomeLimits
    Units = {"u1", "u2"}
    PatchSets <- PatchedLimits
    UploadSets <- Stated
    ImportSets <- Imported
    Uploads = {"r1"}
    Imports = {"i1"}
    Instants = 2
    Writers = {"w1"}
    Viewers = {"v1"}
    LastWrite = 4
    RowIds = {1, 2, 3}
    LastValue = 2
    PageLimit = 1
    Sightings = 2
    Workspaces = {"w1"}
    Teams = {"t1"}
    CoreNsMin <- LeastNs
    CoreNsMax = 7
    PerUs = 2
    WholeRows = 2
    RecentNs = 3
    InvitationIds = {1, 2}
    Panels = {"p1"}
    Joiners = {1, 2}
    MailJobs = {1, 2}
    MailOn = TRUE
    MailAttempts = 1
    InlineJobs = FALSE
    InvitationTtl = 1
    LastDay = 1
SYMMETRY ApiSymmetry
INVARIANTS
    ApiTypeOK
    SignInsMeet
    LimitsHold
    StoredOpens
    TablesStayValid
    NotModifiedIsFresh
    PagesShowEachOnce
    
PROPERTIES
    SessionsEnd
    KeysTurnOver
    WritersKeepApart
    StatusIsLifecycle
CHECK_DEADLOCK FALSE
