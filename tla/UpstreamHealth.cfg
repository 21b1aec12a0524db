SPECIFICATION FairSpec
CONSTANTS
    u1 = u1
    u2 = u2
    c1 = c1
    c2 = c2
    Upstreams <- TwoUpstreams
    Callers <- TwoCallers
    Prober = Prober
    None = None
    Top = 1
    EjectionBase = 1
    EjectionCap = 2
    MaxCount = 2
    MaxChanges = 2
    MaxCalls = 2
INVARIANTS TypeOK CapHeld
PROPERTY NeverLatched
CHECK_DEADLOCK FALSE
