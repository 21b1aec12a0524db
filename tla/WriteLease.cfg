SPECIFICATION Spec
CONSTANTS
    t1 = t1
    t2 = t2
    t3 = t3
    p1 = p1
    p2 = p2
    l1 = l1
    g1 = g1
    NoOne = NoOne
    Clients <- ThreeThreads
    Gcs <- OneGc
    Attempts = 2
    MaxEntries = 2
    Procs <- TwoProcs
    ProcOf <- ProcOfThread
    Restorers <- JustThree
    Probers <- JustTwo
    Legacy <- OneLegacy
    MaxDb = 2
    MaxSide = 2
    MaxUnlinks = 1
INVARIANTS AtMostOneAuthority RecordLockKept RemovesWhatItCreated CutsOverAlone
PROPERTY AnchorIsLock
CHECK_DEADLOCK FALSE
