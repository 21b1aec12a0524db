SPECIFICATION FairSpec
CONSTANTS
    w1 = w1
    w2 = w2
    sigterm = sigterm
    rpc = rpc
    a1 = a1
    k1 = k1
    k2 = k2
    Writers <- TwoWriters
    Triggers <- TwoTriggers
    Resumes <- OneResume
    Tasks <- TwoTasks
    Permits = 2
INVARIANTS TypeOK QuietAtBroadcast OneDrain
PROPERTIES DrainIsMonotone ShutdownCompletes
CHECK_DEADLOCK FALSE
