SPECIFICATION Spec
CONSTANTS
    d1 = d1
    d2 = d2
    p1 = p1
    Pairs = {p1, p2}
    Requests = {r1}
    Dirs = {d1, d2}
    Configs <- Moving
    NoDir = NoDir
    NoPair = NoPair
    TTL = 2
    Penalty = 1
    FlushInterval = 2
    PendingTTL = 1
    Lifetimes = {1}
    MaxTime = 2
    MaxReloads = 1
    MaxClears = 1
ACTION_CONSTRAINT SmallCases
INVARIANTS
    TypeOK
    CleanPoolIsDurable
    RemovedPairsStayOut
PROPERTIES
    OnlyTheCarrierIsCharged
    SightingsMoveForward
    ShutdownKeepsThePool
