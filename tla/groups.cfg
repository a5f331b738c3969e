SPECIFICATION Spec
CONSTANTS
    c1 = c1
    c2 = c2
    g1 = g1
    g2 = g2
    Nobody = Nobody
    Consumers = {c1, c2}
    Anonymous = {c1}
    Named = {g1, g2}
    Home = g1
    MaxCalls = 1
    MaxEdits = 4
    MaxFaults = 1
INVARIANTS
    FanOut
    CacheAgrees
    
    EphemeralKept
CHECK_DEADLOCK FALSE
