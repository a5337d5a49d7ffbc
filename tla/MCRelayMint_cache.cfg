SPECIFICATION Spec
CONSTANTS
    c1 = c1
    c2 = c2
    plain = plain
    seeded = seeded
    g1 = g1
    g2 = g2
    AnyNode = any
    Calls = {c1, c2}
    Models = {1}
    Lanes = {plain, seeded}
    Gateways = {g1, g2}
    Target <- TwoTargets
    Seed <- OneSeed
    Lens = {1, 2}
    WantLens = {0, 1}
    Ttls = {1, 2}
    Strengths = {TRUE, FALSE}
    MaxAttempts = 1
    MaxTotal = 1
    CacheMax = 2
    Verify = TRUE
    MaxTime = 1
    MaxLag = 0
INVARIANTS TypeOK CacheIsSound
PROPERTIES KeepsOffice
SYMMETRY SameCalls
CHECK_DEADLOCK FALSE
