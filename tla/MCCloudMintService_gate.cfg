SPECIFICATION FairSpec
CONSTANTS
    wa = wa
    wb = wb
    wc = wc
    alice = alice
    bob = bob
    Requests = {r1, r2}
    Works = {wa, wb, wc}
    NoWork = NoWork
    Accounts = {alice, bob}
    Account <- TwoAccounts
    Group <- SameGroup
    FailClosed = {wa}
    WorkersMax = 2
    CacheMax = 1
    Cooldown = 2
    Margin = 1
    Wait = 1
    Timeout = 1
    Lifetimes = {2}
    MaxTime = 2
    MaxServices = 2
INVARIANTS TypeOK SlotsMatchJobs WaitersHaveAJob
PROPERTIES LateOutcomesServeRetries
    KeepsTheGate
    JobsEnd
CHECK_DEADLOCK FALSE
