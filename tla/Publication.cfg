CONSTANTS
    o1 = o1
    o2 = o2
    s1 = s1
    s2 = s2
    Ops <- TwoOps
    Sources <- TwoSources
    Base = Base
    NoOp = NoOp
    Unborn = Unborn
    Gone = Gone
    None = None
    Content <- TouchOrChange
    Edited <- AllInputs
    MaxEdits = 1
    MaxFaults = 1
    MaxCancels = 1
SPECIFICATION Spec
SYMMETRY Interchangeable
INVARIANTS CurrentIsSealed DaemonServesCurrent SealedMatchesPlan NoOrphanSlot
PROPERTY CancelHonoured
