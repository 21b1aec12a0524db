SPECIFICATION Spec
CONSTANTS
    c1 = c1
    c2 = c2
    c3 = c3
    c4 = c4
    Callers <- FourCallers
    Threshold = 3
    Window = 3
    Cooldown = 2
    MaxNow = 8
SYMMETRY Symmetry
INVARIANTS TypeOK PermitMatchesProbe BurstTrips
PROPERTY CooldownRespected
CHECK_DEADLOCK FALSE
