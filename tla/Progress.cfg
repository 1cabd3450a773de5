SPECIFICATION ProgressSpec
CONSTANTS
    u1 = u1
    u2 = u2
    d1 = d1
    w1 = w1
    w2 = w2
    ann = ann
    bob = bob
    cyd = cyd
    Runs = {u1, d1}
    Uploads = {u1}
    Workers = {w1, w2}
    StaleAfter = 1
    People = {ann, bob, cyd}
    Beginnings <- Starts
    AdminPerson = ann
    Guests = {cyd}
    Requests = {"q1"}
    InFlight = 1
    InvitationIds = {1, 2}
    Panels = {"p1"}
    Joiners = {1}
    MailJobs = {1, 2}
    MailOn = TRUE
    MailAttempts = 2
    InlineJobs = FALSE
    InvitationTtl = 1
    LastDay = 1
    Paths = {1, 2}
    Parts = 2
    Unreadable <- FirstOfOne
    Settle = 1
    FilesPerScan = 1
    LastContent = 1
    LastTime = 2
    ScanDeaths = 1
INVARIANTS
    TypeOK
    ResultsIffSucceeded
    UploadWhileLive
    CoverageIsBacked
    OneExecutor
    MembersTypeOK
    
PROPERTIES
    RunningSettles
    ImplementsRun
    CompletionEnds
    OwnersRemain
    RolesAreGuarded
    OwnerComesBack
    
    
CHECK_DEADLOCK FALSE
