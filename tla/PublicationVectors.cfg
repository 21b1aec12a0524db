CONSTANTS
    o1 = o1
    o2 = o2
    s1 = s1
    s2 = s2
    Ops <- TwoOps
    Sources <- OneSource
    Base = Base
    NoOp = NoOp
    Unborn = Unborn
    Gone = Gone
    None = None
    Content <- TouchOrChange
    Edited <- AllInputs
    MaxEdits = 1
    MaxFaults = 1
    MaxCancels = 0
SPECIFICATION Spec
SYMMETRY Interchangeable
CHECK_DEADLOCK FALSE
INVARIANT SealedVectorsMatchGraph
