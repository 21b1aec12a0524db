SPECIFICATION Spec
CONSTANTS
    r1 = r1
    r2 = r2
    Repos <- TwoRepos
    Ids <- RowIds
    MaxAttempts = 1
    LeaseSecs = 1
    StaleSecs = 1
    Debounce = 0
    EventPriorities <- WebhookOnly
    Workers = 2
    MaxNow = 1
    MaxTokens = 3
SYMMETRY Symmetry
INVARIANT NoLostEvent
PROPERTY OutcomesStayHome
