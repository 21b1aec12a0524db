SPECIFICATION Spec
CONSTANTS
    r1 = r1
    r2 = r2
    Repos <- OneRepo
    Ids <- RowIds
    MaxAttempts = 2
    LeaseSecs = 1
    StaleSecs = 1
    Debounce = 1
    EventPriorities <- WebhookAndPoll
    Workers = 2
    MaxNow = 5
    MaxTokens = 4
INVARIANTS TypeOK NoLostEvent OnlyNewestClaimActive RetryBudget
PROPERTY QuarantineHolds
