SPECIFICATION Spec
CONSTANTS
    r1 = r1
    w1 = w1
    w2 = w2
    p1 = p1
    p2 = p2
    Repos <- OneRepo
    Ids <- RowIds
    RowId <- RowIdOf
    MaxAttempts = 1
    LeaseSecs = 1
    StaleSecs = 1
    Debounce = 0
    Workers <- TwoWorkers
    Tokens <- FewTokens
    Policies <- OnePolicy
    Absent = Absent
    Free = Free
    Admin = Admin
    MaxSha = 3
    Blob <- Reverted
    MaxLate = 1
    MaxCrash = 0
    MaxFail = 0
    MaxAdmin = 0
INVARIANT GraphMatchesSha
CHECK_DEADLOCK FALSE
