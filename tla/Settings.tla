------------------------------- MODULE Settings -------------------------------
(* The settings of the plugin and the two documents that outlive it: the role,
   dry_run and the probe scope in state.config, runtime.json and
   probe-scope.json.  The dashboard changes them with keyless requests, the host
   with a reconfiguration, and a restart reads them back.

   Each action is one critical section of state.mu or one access to a file; a
   request of the dashboard takes two or three of them.                       *)
EXTENDS Integers, FiniteSets

CONSTANTS Requests,     \* requests of the dashboard that may be handled at once
          Accounts,     \* credentials the scope may name
          Exits,        \* static exits, the direct one included
          Direct,       \* the exit of an empty list of proxies
          Dirs,         \* values of store_dir
          NoDir,        \* the empty store_dir
          NoFile,       \* a document that is missing, malformed or empty
          Unset,        \* no answer has promised the setting
          Yamls,        \* what config.yaml may say
          RoleAsks,     \* roles the dashboard may ask for
          DryAsks,      \* values of dry_run it may ask for
          ScopeAsks     \* savings of the scope: the lists named, and the lists

Stores == Dirs \ {NoDir}
Roles == {"probe", "business"}
ListNames == {"accounts", "exits", "rotating"}
SettingNames == ListNames \cup {"dry", "role"}

\* The lists of the scope as the runner uses them: a rotating list is empty or not.
Scopes == [accounts : SUBSET Accounts, exits : SUBSET (Exits \ {Direct}), rotating : BOOLEAN]
Configs == [dir : Dirs, role : Roles, dry : BOOLEAN, scope : Scopes]
Overrides == [role : Roles, dry : BOOLEAN]

ASSUME SettingsAssumption ==
    /\ IsFiniteSet(Accounts)
    /\ Direct \in Exits
    /\ Yamls \subseteq Configs
    /\ RoleAsks \subseteq Roles /\ DryAsks \subseteq BOOLEAN
    /\ ScopeAsks \subseteq [fields : SUBSET ListNames, scope : Scopes]
    /\ NoFile \notin Scopes /\ NoFile \notin Overrides

VARIABLES
    config,     \* state.config
    override,   \* runtime.json of each directory
    scopeFile,  \* probe-scope.json of each directory
    handler,    \* the requests of the dashboard under way
    reload,     \* the reconfiguration under way
    asked       \* history: per setting, what the last request that names it was
                \* answered as kept (Unset while it is handled, if it failed, and
                \* in another directory)

settingsVars == <<config, override, scopeFile, handler, reload, asked>>

\* No request, and no reconfiguration, under way.
Idle == [pc |-> "idle"]

(* configure: the documents of the configured directory over config.yaml. *)
ReadOverride(d) == IF d = NoDir THEN NoFile ELSE override[d]
ReadScope(d) == IF d = NoDir THEN NoFile ELSE scopeFile[d]
\* Mutant: of the override only the role is read back.
MutWithOverrideRoleOnly(y, ov) == IF ov = NoFile THEN y ELSE [y EXCEPT !.role = ov.role]

WithOverride(y, ov) == IF ov = NoFile THEN y ELSE [y EXCEPT !.role = ov.role, !.dry = ov.dry]
WithScope(c, sc) == IF sc = NoFile THEN c ELSE [c EXCEPT !.scope = sc]
Usable(c) == c.role = "probe" => c.dir # NoDir

SettingsInit ==
    /\ config \in {y \in Yamls : Usable(y)}
    /\ override = [d \in Stores |-> NoFile]
    /\ scopeFile = [d \in Stores |-> NoFile]
    /\ handler = [r \in Requests |-> Idle]
    /\ reload = Idle
    /\ asked = [f \in SettingNames |-> Unset]

-------------------------------------------------------------------------------
(* handleDryRunResource, handleRoleResource: set under the lock, then written.
   The handler keeps role, dry_run and directory as they were under the lock.  *)

InForce(c, f) == CASE f = "role" -> c.role
                   [] f = "dry"  -> c.dry
                   [] OTHER      -> c.scope[f]

Begin(r, pc, fields, c) ==
    /\ handler' = [handler EXCEPT ![r] = [pc |-> pc, fields |-> fields, config |-> c]]
    /\ asked' = [f \in SettingNames |-> IF f \in fields THEN Unset ELSE asked[f]]

\* Answered 200: what the request asked for is in force, and kept.
AnswerKept(r) ==
    LET h == handler[r]
    IN  /\ handler' = [handler EXCEPT ![r] = Idle]
        /\ asked' = [f \in SettingNames |-> IF f \in h.fields THEN InForce(h.config, f) ELSE asked[f]]

SetDryRun(r) ==
    /\ handler[r].pc = "idle"
    /\ \E v \in DryAsks :
          /\ config' = [config EXCEPT !.dry = v]
          /\ Begin(r, "override", {"dry"}, config')
    /\ UNCHANGED <<override, scopeFile, reload>>

\* Mutant: the probe role is taken whether or not there is a directory.
MutSetRoleAnywhere(r) ==
    /\ handler[r].pc = "idle"
    /\ \E v \in RoleAsks :
          /\ config' = [config EXCEPT !.role = v]
          /\ Begin(r, "override", {"role"}, config')
    /\ UNCHANGED <<override, scopeFile, reload>>

SetRole(r) ==
    /\ handler[r].pc = "idle"
    /\ \E v \in RoleAsks :
          /\ v = "probe" => config.dir # NoDir
          /\ config' = [config EXCEPT !.role = v]
          /\ Begin(r, "override", {"role"}, config')
    /\ UNCHANGED <<override, scopeFile, reload>>

\* writeRuntimeOverride renames a whole document; the request is answered "persisted".
WriteOverride(r) ==
    LET c == handler[r].config
    IN  /\ handler[r].pc = "override"
        /\ c.dir # NoDir
        /\ override' = [override EXCEPT ![c.dir] = [role |-> c.role, dry |-> c.dry]]
        /\ AnswerKept(r)
        /\ UNCHANGED <<config, scopeFile, reload>>

\* No directory or an error of the file system: answered "restart will revert".
\* For the scope: answered 500, and nothing is changed.
WriteFails(r) ==
    /\ handler[r].pc \in {"override", "scope"}
    /\ handler' = [handler EXCEPT ![r] = Idle]
    /\ UNCHANGED <<config, override, scopeFile, reload, asked>>

(* handleScopeSave: copied under the lock, written without it, assigned under it. *)

Replaced(old, ask) ==
    [accounts |-> IF "accounts" \in ask.fields THEN ask.scope.accounts ELSE old.accounts,
     exits    |-> IF "exits"    \in ask.fields THEN ask.scope.exits    ELSE old.exits,
     rotating |-> IF "rotating" \in ask.fields THEN ask.scope.rotating ELSE old.rotating]

\* Mutant: a scope is saved whether or not there is a directory.
MutCopyScopeAnywhere(r) ==
    /\ handler[r].pc = "idle"
    /\ \E ask \in ScopeAsks :
          Begin(r, "scope", ask.fields, [config EXCEPT !.scope = Replaced(config.scope, ask)])
    /\ UNCHANGED <<config, override, scopeFile, reload>>

CopyScope(r) ==
    /\ handler[r].pc = "idle"
    /\ config.dir # NoDir
    /\ \E ask \in ScopeAsks :
          Begin(r, "scope", ask.fields, [config EXCEPT !.scope = Replaced(config.scope, ask)])
    /\ UNCHANGED <<config, override, scopeFile, reload>>

WriteScope(r) ==
    LET c == handler[r].config
    IN  /\ handler[r].pc = "scope"
        /\ scopeFile' = [scopeFile EXCEPT ![c.dir] = c.scope]
        /\ handler' = [handler EXCEPT ![r].pc = "assign"]
        /\ UNCHANGED <<config, override, reload, asked>>

AssignScope(r) ==
    /\ handler[r].pc = "assign"
    /\ config' = [config EXCEPT !.scope = handler[r].config.scope]
    /\ AnswerKept(r)
    /\ UNCHANGED <<override, scopeFile, reload>>

-------------------------------------------------------------------------------
(* configure: both documents are read before the lock is taken. *)

\* What was promised was promised for a directory.
Promised(dir) == asked' = IF dir = config.dir THEN asked ELSE [f \in SettingNames |-> Unset]

LoadOverride ==
    /\ reload.pc = "idle"
    /\ \E y \in Yamls :
          LET c == WithOverride(y, ReadOverride(y.dir))
          IN  Usable(c) /\ reload' = [pc |-> "scope", yaml |-> y, config |-> c]
    /\ UNCHANGED <<config, override, scopeFile, handler, asked>>

LoadScope ==
    /\ reload.pc = "scope"
    /\ reload' = [reload EXCEPT !.pc = "swap",
                                !.config = WithScope(reload.config, ReadScope(reload.yaml.dir))]
    /\ UNCHANGED <<config, override, scopeFile, handler, asked>>

Swap ==
    /\ reload.pc = "swap"
    /\ config' = reload.config
    /\ reload' = Idle
    /\ Promised(config'.dir)
    /\ UNCHANGED <<override, scopeFile, handler>>

\* The process ends at any moment; the next one configures before it serves.
Restart ==
    /\ \E y \in Yamls :
          LET c == WithScope(WithOverride(y, ReadOverride(y.dir)), ReadScope(y.dir))
          IN  Usable(c) /\ config' = c
    /\ handler' = [r \in Requests |-> Idle]
    /\ reload' = Idle
    /\ Promised(config'.dir)
    /\ UNCHANGED <<override, scopeFile>>

RequestStep(r) ==
    \/ SetDryRun(r) \/ SetRole(r) \/ WriteOverride(r) \/ WriteFails(r)
    \/ CopyScope(r) \/ WriteScope(r) \/ AssignScope(r)

SettingsStep == (\E r \in Requests : RequestStep(r)) \/ LoadOverride \/ LoadScope \/ Swap

Handlings == [pc : {"override", "scope", "assign"}, fields : SUBSET SettingNames, config : Configs]

\* Every variable has its type; only a request that found a directory saves a scope.
SettingsTypeOK ==
    /\ config \in Configs
    /\ override \in [Stores -> Overrides \cup {NoFile}]
    /\ scopeFile \in [Stores -> Scopes \cup {NoFile}]
    /\ handler \in [Requests -> {Idle} \cup Handlings]
    /\ \A r \in Requests : handler[r].pc \in {"scope", "assign"} => handler[r].config.dir # NoDir
    /\ reload \in {Idle} \cup [pc : {"scope", "swap"}, yaml : Configs, config : Configs]
    /\ DOMAIN asked = SettingNames

\* Whatever requests, reconfigurations and restarts come together, the probe
\* role is never in force without a directory to keep what it mints in
\* (main.go:500, management.go:441).
ProbesHaveAStore == Usable(config)

\* What the dashboard answers ("persisted", "saved"): a setting that was set and
\* kept is in force, and stays in force over reconfigurations and restarts,
\* until another request names it or config.yaml names another directory.
KeptSettingsHold ==
    (\A r \in Requests : handler[r] = Idle) /\ reload = Idle
    => \A f \in SettingNames : asked[f] # Unset => InForce(config, f) = asked[f]
===============================================================================
