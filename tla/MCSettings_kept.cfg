SPECIFICATION MCSpec
CONSTANTS
    alice = alice
    bob = bob
    d1 = d1
    Requests = {r1, r2}
    Accounts = {alice, bob}
    Exits = {direct}
    Direct = direct
    Dirs = {d1}
    NoDir = NoDir
    NoFile = NoFile
    Unset = Unset
    Yamls <- OneYaml
    RoleAsks = {"business", "probe"}
    DryAsks = {TRUE, FALSE}
    ScopeAsks <- TwoSaves
ACTION_CONSTRAINT DifferentSettings
INVARIANTS
    KeptSettingsHold
