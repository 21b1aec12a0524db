SPECIFICATION FairSpec
CONSTANTS
    r1 = r1
    w1 = w1
    w2 = w2
    p1 = p1
    p2 = p2
    Repos <- OneRepo
    Ids <- RowIds
    RowId <- RowIdOf
    MaxAttempts = 1
    LeaseSecs = 1
    StaleSecs = 1
    Debounce = 0
    Workers <- TwoWorkers
    Tokens <- FewTokens
    Policies <- OnePolicy
    Absent = Absent
    Free = Free
    Admin = Admin
    MaxSha = 2
    Blob <- Changed
    MaxLate = 0
    MaxCrash = 1
    MaxFail = 1
    MaxAdmin = 1
INVARIANTS TypeOK GraphMatchesSha
PROPERTIES NoTornSuccess Converges
CHECK_DEADLOCK FALSE
