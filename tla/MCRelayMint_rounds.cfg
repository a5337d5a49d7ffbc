SPECIFICATION Spec
CONSTANTS
    c1 = c1
    c2 = c2
    plain = plain
    seeded = seeded
    g1 = g1
    g2 = g2
    AnyNode = any
    Calls = {c1}
    Models = {1, 2, 3}
    Lanes = {plain, seeded}
    Gateways = {g1, g2}
    Target <- TwoTargets
    Seed <- OneSeed
    Lens = {1}
    WantLens = {1}
    Ttls = {0, 2}
    Strengths = {TRUE}
    MaxAttempts = 1
    MaxTotal = 4
    CacheMax = 3
    Verify = FALSE
    MaxTime = 2
    MaxLag = 0
INVARIANTS StoppedCallsAccountForAll
PROPERTIES ShotsAreWarranted KeepsOffice CallsEnd
CHECK_DEADLOCK FALSE
