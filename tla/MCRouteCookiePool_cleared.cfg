SPECIFICATION Spec
CONSTANTS
    d1 = d1
    d2 = d2
    p1 = p1
    Pairs = {p1}
    Requests = {r1}
    Dirs = {d1}
    Configs <- Business
    NoDir = NoDir
    NoPair = NoPair
    TTL = 2
    Penalty = 1
    FlushInterval = 2
    PendingTTL = 1
    Lifetimes = {0}
    MaxTime = 2
    MaxReloads = 1
    MaxClears = 1
PROPERTIES
    ClearedPairsAreNotSteered
