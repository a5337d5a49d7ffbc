SPECIFICATION FairSpec
CONSTANTS
    alice = alice
    bob = bob
    d1 = d1
    e1 = e1
    Requests = {r1}
    Accounts = {alice, bob}
    Exits = {e1, direct}
    Direct = direct
    Dirs = {d1, NoDir}
    NoDir = NoDir
    NoFile = NoFile
    Unset = Unset
    Yamls <- ThreeYamls
    RoleAsks = {"probe"}
    DryAsks = {TRUE}
    ScopeAsks <- OneSave
    Rotating = rotating
    Unusable = {}
    MaxInFlight = 1
    RotatingAttempts = 1
    ExitRest = 2
    SuccessRest = 1
    RotatingRest = 1
    AccountRest = 1
    MaxTime = 1
ACTION_CONSTRAINTS
    OneAtATime
    SameYaml
    BetweenBatches
    RolesApart
INVARIANTS
    TypeOK
    OneSweep
    FillIsCounted
    ProbesHaveAStore
    KeptSettingsHold
PROPERTIES
    ExitsAreSpared
    LimitedAccountsRest
    KeepsSwitch
    StopEnds
