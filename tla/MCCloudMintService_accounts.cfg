SPECIFICATION Spec
CONSTANTS
    wa = wa
    wb = wb
    wc = wc
    alice = alice
    bob = bob
    Requests = {r1, r2}
    Works = {wa, wb}
    NoWork = NoWork
    Accounts = {alice}
    Account <- OneAccount
    Group <- TwoTokens
    FailClosed = {wa}
    WorkersMax = 2
    CacheMax = 2
    Cooldown = 2
    Margin = 1
    Wait = 1
    Timeout = 2
    Lifetimes = {2}
    MaxTime = 3
    MaxServices = 1
INVARIANTS
    AccountsAreSerial
CHECK_DEADLOCK FALSE
