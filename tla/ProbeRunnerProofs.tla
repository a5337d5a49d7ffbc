-------------------------- MODULE ProbeRunnerProofs --------------------------
(***************************************************************************)
(* Proofs about ProbeRunner and the settings it works on, for every value  *)
(* of their constants.                                                     *)
(***************************************************************************)
EXTENDS ProbeRunner, FiniteSetTheorems, TLAPS

USE SettingsAssumption, ProbeAssumption

-----------------------------------------------------------------------------
(* The settings. *)

LEMMA ConfigUpdates ==
  ASSUME NEW c \in Configs
  PROVE  /\ \A v \in Roles : [c EXCEPT !.role = v] \in Configs
         /\ \A v \in BOOLEAN : [c EXCEPT !.dry = v] \in Configs
         /\ \A v \in Scopes : [c EXCEPT !.scope = v] \in Configs
  BY DEF Configs

LEMMA ReplacedType ==
  ASSUME NEW old \in Scopes, NEW ask \in ScopeAsks
  PROVE  Replaced(old, ask) \in Scopes
  <1>1. ask.scope \in Scopes
    OBVIOUS
  <1>2. QED
    BY <1>1 DEF Replaced, Scopes

\* What configure makes of config.yaml and the documents.
LEMMA DocumentsType ==
  ASSUME SettingsTypeOK, NEW y \in Configs
  PROVE  /\ WithOverride(y, ReadOverride(y.dir)) \in Configs
         /\ \A c \in Configs : WithScope(c, ReadScope(y.dir)) \in Configs
  <1>1. y \in Configs /\ y.dir \in Dirs
    BY DEF Configs
  <1>2. ReadOverride(y.dir) # NoFile => ReadOverride(y.dir) \in Overrides
    BY <1>1 DEF ReadOverride, SettingsTypeOK, Stores
  <1>3. ReadScope(y.dir) # NoFile => ReadScope(y.dir) \in Scopes
    BY <1>1 DEF ReadScope, SettingsTypeOK, Stores
  <1>4. WithOverride(y, ReadOverride(y.dir)) \in Configs
    <2>1. CASE ReadOverride(y.dir) = NoFile
      BY <2>1, <1>1 DEF WithOverride
    <2>2. CASE ReadOverride(y.dir) # NoFile
      <3> DEFINE ov == ReadOverride(y.dir)
      <3>1. ov.role \in Roles /\ ov.dry \in BOOLEAN
        BY <2>2, <1>2 DEF Overrides
      <3>2. [y EXCEPT !.role = ov.role, !.dry = ov.dry] \in Configs
        BY <3>1, <1>1 DEF Configs
      <3>3. QED
        BY <3>2, <2>2 DEF WithOverride
    <2>3. QED
      BY <2>1, <2>2
  <1>5. \A c \in Configs : WithScope(c, ReadScope(y.dir)) \in Configs
    BY <1>3, ConfigUpdates DEF WithScope
  <1>6. QED
    BY <1>4, <1>5

LEMMA SettingsInitType ==
  ASSUME SettingsInit
  PROVE  SettingsTypeOK /\ ProbesHaveAStore
  BY DEF SettingsInit, SettingsTypeOK, ProbesHaveAStore, Idle

\* A request that begins, with any settings of their type.
LEMMA BeginType ==
  ASSUME SettingsTypeOK, NEW r \in Requests, NEW c \in Configs,
         NEW pc \in {"override", "scope", "assign"}, NEW fields \in SUBSET SettingNames,
         pc # "override" => c.dir # NoDir, Begin(r, pc, fields, c)
  PROVE  /\ handler' \in [Requests -> {Idle} \cup Handlings]
         /\ \A q \in Requests : handler'[q].pc \in {"scope", "assign"} => handler'[q].config.dir # NoDir
         /\ DOMAIN asked' = SettingNames
  <1>1. [pc |-> pc, fields |-> fields, config |-> c] \in Handlings
    BY DEF Handlings
  <1>2. QED
    BY <1>1 DEF Begin, SettingsTypeOK

\* A request that ends, answered or not.
LEMMA EndType ==
  ASSUME SettingsTypeOK, NEW r \in Requests, handler' = [handler EXCEPT ![r] = Idle]
  PROVE  /\ handler' \in [Requests -> {Idle} \cup Handlings]
         /\ \A q \in Requests : handler'[q].pc \in {"scope", "assign"} => handler'[q].config.dir # NoDir
  BY DEF SettingsTypeOK, Idle

LEMMA AnswerType ==
  ASSUME SettingsTypeOK, NEW r \in Requests, AnswerKept(r)
  PROVE  /\ handler' = [handler EXCEPT ![r] = Idle]
         /\ DOMAIN asked' = SettingNames
  BY DEF AnswerKept

LEMMA RequestStepType ==
  ASSUME SettingsTypeOK, NEW r \in Requests, RequestStep(r)
  PROVE  SettingsTypeOK'
  <1>c. config \in Configs /\ (handler[r].pc # "idle" => handler[r] \in Handlings)
    BY DEF SettingsTypeOK, Idle
  <1>h. handler[r].pc # "idle" => handler[r].config \in Configs
    BY <1>c DEF Handlings
  <1>1. CASE SetDryRun(r)
    <2>1. PICK v \in DryAsks : config' = [config EXCEPT !.dry = v] /\ Begin(r, "override", {"dry"}, config')
      BY <1>1 DEF SetDryRun
    <2>2. config' \in Configs
      BY <2>1, <1>c, ConfigUpdates
    <2>3. {"dry"} \in SUBSET SettingNames
      BY DEF SettingNames
    <2>4. QED
      BY <2>1, <2>2, <2>3, <1>1, BeginType DEF SetDryRun, SettingsTypeOK
  <1>2. CASE SetRole(r)
    <2>1. PICK v \in RoleAsks : config' = [config EXCEPT !.role = v] /\ Begin(r, "override", {"role"}, config')
      BY <1>2 DEF SetRole
    <2>2. config' \in Configs
      BY <2>1, <1>c, ConfigUpdates
    <2>3. {"role"} \in SUBSET SettingNames
      BY DEF SettingNames
    <2>4. QED
      BY <2>1, <2>2, <2>3, <1>2, BeginType DEF SetRole, SettingsTypeOK
  <1>3. CASE WriteOverride(r)
    <2>1. handler[r].config \in Configs /\ handler[r].config.dir \in Stores
      BY <1>3, <1>h DEF WriteOverride, Configs, Stores
    <2>2. [role |-> handler[r].config.role, dry |-> handler[r].config.dry] \in Overrides
      BY <2>1 DEF Overrides, Configs
    <2>3. override' \in [Stores -> Overrides \cup {NoFile}]
      BY <2>2, <1>3 DEF WriteOverride, SettingsTypeOK
    <2>4. QED
      BY <2>3, <1>3, AnswerType, EndType DEF WriteOverride, SettingsTypeOK
  <1>4. CASE WriteFails(r)
    BY <1>4, EndType DEF WriteFails, SettingsTypeOK
  <1>5. CASE CopyScope(r)
    <2>1. PICK ask \in ScopeAsks :
            Begin(r, "scope", ask.fields, [config EXCEPT !.scope = Replaced(config.scope, ask)])
      BY <1>5 DEF CopyScope
    <2> DEFINE c == [config EXCEPT !.scope = Replaced(config.scope, ask)]
    <2>2. config.scope \in Scopes /\ config.dir # NoDir
      BY <1>5, <1>c DEF Configs, CopyScope
    <2>3. c \in Configs /\ c.dir # NoDir
      BY <2>2, <1>c, ReplacedType, ConfigUpdates DEF Configs
    <2>4. ask.fields \in SUBSET SettingNames
      BY DEF SettingNames
    <2> HIDE DEF c
    <2>5. Begin(r, "scope", ask.fields, c)
      BY <2>1 DEF c
    <2>6. QED
      BY <2>3, <2>4, <2>5, <1>5, BeginType DEF CopyScope, SettingsTypeOK
  <1>6. CASE WriteScope(r)
    <2>1. handler[r] \in Handlings /\ handler[r].config.scope \in Scopes /\ handler[r].config.dir \in Stores
      BY <1>6, <1>c, <1>h DEF WriteScope, Configs, Stores, SettingsTypeOK
    <2>2. [handler[r] EXCEPT !.pc = "assign"] \in Handlings
      BY <2>1 DEF Handlings
    <2>3. handler' = [handler EXCEPT ![r] = [handler[r] EXCEPT !.pc = "assign"]]
      BY <1>6 DEF WriteScope
    <2>4. [handler[r] EXCEPT !.pc = "assign"].config.dir # NoDir
      BY <2>1 DEF Handlings, Stores
    <2>5. QED
      BY <2>1, <2>2, <2>3, <2>4, <1>6 DEF WriteScope, SettingsTypeOK
  <1>7. CASE AssignScope(r)
    <2>1. handler[r].config.scope \in Scopes
      BY <1>7, <1>h DEF AssignScope, Configs
    <2>2. config' \in Configs
      BY <2>1, <1>c, <1>7, ConfigUpdates DEF AssignScope
    <2>3. QED
      BY <2>2, <1>7, AnswerType, EndType DEF AssignScope, SettingsTypeOK
  <1>8. QED
    BY <1>1, <1>2, <1>3, <1>4, <1>5, <1>6, <1>7 DEF RequestStep

LEMMA ReloadType ==
  ASSUME SettingsTypeOK, LoadOverride \/ LoadScope \/ Swap
  PROVE  SettingsTypeOK'
  <1>1. CASE LoadOverride
    <2>1. PICK y \in Yamls : reload' = [pc |-> "scope", yaml |-> y,
                                        config |-> WithOverride(y, ReadOverride(y.dir))]
      BY <1>1 DEF LoadOverride
    <2>2. WithOverride(y, ReadOverride(y.dir)) \in Configs
      BY DocumentsType
    <2>3. QED
      BY <2>1, <2>2, <1>1 DEF LoadOverride, SettingsTypeOK
  <1>2. CASE LoadScope
    <2>1. reload \in [pc : {"scope", "swap"}, yaml : Configs, config : Configs]
      BY <1>2 DEF LoadScope, SettingsTypeOK, Idle
    <2> DEFINE c == WithScope(reload.config, ReadScope(reload.yaml.dir))
    <2>2. c \in Configs
      BY <2>1, DocumentsType
    <2>3. reload' = [reload EXCEPT !.pc = "swap", !.config = c]
      BY <1>2 DEF LoadScope
    <2> HIDE DEF c
    <2>4. reload' \in [pc : {"scope", "swap"}, yaml : Configs, config : Configs]
      BY <2>1, <2>2, <2>3
    <2>5. QED
      BY <2>4, <1>2 DEF LoadScope, SettingsTypeOK
  <1>3. CASE Swap
    <2>1. reload \in [pc : {"scope", "swap"}, yaml : Configs, config : Configs]
      BY <1>3 DEF Swap, SettingsTypeOK, Idle
    <2>2. QED
      BY <2>1, <1>3 DEF Swap, Promised, SettingsTypeOK
  <1>4. QED
    BY <1>1, <1>2, <1>3

LEMMA RestartType ==
  ASSUME SettingsTypeOK, Restart
  PROVE  SettingsTypeOK' /\ ProbesHaveAStore'
  <1>1. PICK y \in Yamls :
          LET c == WithScope(WithOverride(y, ReadOverride(y.dir)), ReadScope(y.dir))
          IN  Usable(c) /\ config' = c
    BY DEF Restart
  <1>2. config' \in Configs /\ Usable(config')
    BY <1>1, DocumentsType
  <1>3. handler' = [r \in Requests |-> Idle] /\ reload' = Idle
        /\ DOMAIN asked' = SettingNames /\ UNCHANGED <<override, scopeFile>>
    BY DEF Restart, Promised, SettingsTypeOK
  <1>4. QED
    BY <1>2, <1>3 DEF SettingsTypeOK, ProbesHaveAStore, Idle

\* The probe role keeps its directory through a reconfiguration: what it will
\* swap in was found usable, and the scope does not change that.
ReloadUsable == reload.pc # "idle" => Usable(reload.config)

LEMMA WithScopeUsable ==
  ASSUME SettingsTypeOK, NEW y \in Configs, NEW c \in Configs, Usable(c)
  PROVE  Usable(WithScope(c, ReadScope(y.dir)))
  <1>1. \A v : [c EXCEPT !.scope = v].role = c.role /\ [c EXCEPT !.scope = v].dir = c.dir
    BY DEF Configs
  <1>2. QED
    BY <1>1 DEF WithScope, Usable

LEMMA SettingsUsable ==
  ASSUME SettingsTypeOK, ProbesHaveAStore, ReloadUsable, SettingsStep
  PROVE  ProbesHaveAStore' /\ ReloadUsable'
  <1>c. config \in Configs
    BY DEF SettingsTypeOK
  <1>1. CASE \E r \in Requests : RequestStep(r)
    <2>1. PICK r \in Requests : RequestStep(r)
      BY <1>1
    <2>2. UNCHANGED reload
      BY <2>1 DEF RequestStep, SetDryRun, SetRole, WriteOverride, WriteFails, CopyScope, WriteScope, AssignScope
    <2>3. \/ UNCHANGED config
          \/ \E v : config' = [config EXCEPT !.dry = v]
          \/ \E v : config' = [config EXCEPT !.scope = v]
          \/ \E v \in Roles : (v = "probe" => config.dir # NoDir) /\ config' = [config EXCEPT !.role = v]
      BY <2>1 DEF RequestStep, SetDryRun, SetRole, WriteOverride, WriteFails, CopyScope, WriteScope, AssignScope
    <2>4. Usable(config')
      BY <2>3, <1>c DEF Configs, Usable, ProbesHaveAStore
    <2>5. QED
      BY <2>2, <2>4 DEF ProbesHaveAStore, ReloadUsable
  <1>2. CASE LoadOverride
    BY <1>2 DEF LoadOverride, ProbesHaveAStore, ReloadUsable, Usable
  <1>3. CASE LoadScope
    <2>1. reload \in [pc : {"scope", "swap"}, yaml : Configs, config : Configs] /\ Usable(reload.config)
      BY <1>3 DEF LoadScope, SettingsTypeOK, Idle, ReloadUsable
    <2> DEFINE c == WithScope(reload.config, ReadScope(reload.yaml.dir))
    <2>2. Usable(c)
      BY <2>1, WithScopeUsable
    <2>3. reload' = [reload EXCEPT !.pc = "swap", !.config = c]
      BY <1>3 DEF LoadScope
    <2> HIDE DEF c
    <2>4. reload'.config = c
      BY <2>1, <2>3
    <2>5. QED
      BY <2>2, <2>4, <1>3 DEF LoadScope, ProbesHaveAStore, ReloadUsable, Usable
  <1>4. CASE Swap
    BY <1>4 DEF Swap, ProbesHaveAStore, ReloadUsable, Idle
  <1>5. QED
    BY <1>1, <1>2, <1>3, <1>4 DEF SettingsStep

-----------------------------------------------------------------------------
(* The records of the runner. *)

LEMMA WorkerUpdates ==
  ASSUME NEW w \in WorkerStates
  PROVE  /\ \A v \in {"gone", "start", "walk", "fly", "rotate", "rotfly"} : [w EXCEPT !.pc = v] \in WorkerStates
         /\ \A v \in SUBSET Exits : [w EXCEPT !.left = v] \in WorkerStates
         /\ \A v \in Keys : [w EXCEPT !.exit = v] \in WorkerStates
         /\ \A v \in 0..RotatingAttempts : [w EXCEPT !.tries = v] \in WorkerStates
  BY DEF WorkerStates

LEMMA Constants ==
  /\ Gone \in WorkerStates /\ [Gone EXCEPT !.pc = "start"] \in WorkerStates
  /\ Off \in SweepStates /\ [Off EXCEPT !.pc = "renew"] \in SweepStates
  /\ NoRun \in RunStates
  /\ \A s \in RunStates : [s EXCEPT !.running = FALSE, !.canceled = FALSE] \in RunStates
                          /\ [s EXCEPT !.canceled = TRUE] \in RunStates
                          /\ [s EXCEPT !.done = @ + 1] \in RunStates
  <1>1. Gone \in WorkerStates /\ [Gone EXCEPT !.pc = "start"] \in WorkerStates
    BY DEF Gone, WorkerStates, Keys
  <1>2. Off \in SweepStates /\ [Off EXCEPT !.pc = "renew"] \in SweepStates
    BY DEF Off, SweepStates
  <1>3. NoRun \in RunStates
    BY DEF NoRun, RunStates
  <1>4. ASSUME NEW s \in RunStates
        PROVE  /\ [s EXCEPT !.running = FALSE, !.canceled = FALSE] \in RunStates
               /\ [s EXCEPT !.canceled = TRUE] \in RunStates
               /\ [s EXCEPT !.done = @ + 1] \in RunStates
    <2>1. s.done + 1 \in Nat
      BY DEF RunStates
    <2>2. [s EXCEPT !.done = s.done + 1] \in RunStates
      BY <2>1 DEF RunStates
    <2>3. [s EXCEPT !.running = FALSE, !.canceled = FALSE] \in RunStates
      BY DEF RunStates
    <2>4. [s EXCEPT !.canceled = TRUE] \in RunStates
      BY DEF RunStates
    <2>5. QED
      BY <2>2, <2>3, <2>4
  <1>5. QED
    BY <1>1, <1>2, <1>3, <1>4

LEMMA CountedType ==
  ASSUME TypeOK
  PROVE  /\ Counted \in RunStates
         /\ Counted.running = run.running /\ Counted.canceled = run.canceled /\ Counted.total = run.total
         /\ sweep.counting => Counted.done = run.done + 1
         /\ ~sweep.counting => Counted = run
  BY Constants DEF Counted, TypeOK, RunStates

\* What a step of a worker does: it goes on with its claim, or is gone without it.
GoesOn(a, w) == Harvesting(w.pc) /\ claims' = claims \cup {a} /\ run' = run
IsThrough(a, w) == /\ w = Gone /\ claims' = claims \ {a}
                   /\ run' = Counted \/ (run.canceled /\ run' = run)

LEMMA WorkerShape ==
  ASSUME TypeOK, OneSweep, NEW a \in Accounts, WorkerStep(a)
  PROVE  /\ UNCHANGED <<settingsVars, now, starter, sweep>>
         /\ worker[a].pc # "gone"
         /\ \E w \in WorkerStates : /\ worker' = [worker EXCEPT ![a] = w]
                                    /\ GoesOn(a, w) \/ IsThrough(a, w)
  <1> DEFINE Goal == /\ UNCHANGED <<settingsVars, now, starter, sweep>>
                     /\ worker[a].pc # "gone"
                     /\ \E w \in WorkerStates : /\ worker' = [worker EXCEPT ![a] = w]
                                                /\ GoesOn(a, w) \/ IsThrough(a, w)
  <1>t. worker \in [Accounts -> WorkerStates] /\ worker[a] \in WorkerStates
    BY DEF TypeOK
  <1>c. a \in claims <=> Harvesting(worker[a].pc)
    BY DEF OneSweep
  <1>s. StaticExits(sweep.exits, sweep.rotating) \in SUBSET Exits
    BY DEF TypeOK, SweepStates, StaticExits
  <1>g. ASSUME worker' = [worker EXCEPT ![a] = Gone], claims' = claims \ {a},
               run' = Counted \/ (run.canceled /\ run' = run)
        PROVE  \E w \in WorkerStates : worker' = [worker EXCEPT ![a] = w] /\ (GoesOn(a, w) \/ IsThrough(a, w))
    BY <1>g, Constants DEF IsThrough
  <1>w. ASSUME NEW w \in WorkerStates, worker' = [worker EXCEPT ![a] = w], Harvesting(w.pc),
               claims' = claims \cup {a}, run' = run
        PROVE  \E u \in WorkerStates : worker' = [worker EXCEPT ![a] = u] /\ (GoesOn(a, u) \/ IsThrough(a, u))
    BY <1>w DEF GoesOn
  <1>1. CASE Drop(a)
    BY <1>1, <1>g, <1>c DEF Drop, Harvesting
  <1>2. CASE Decline(a)
    BY <1>2, <1>g, <1>c DEF Decline, Harvesting
  <1>3. CASE Claim(a)
    <2> DEFINE w == [worker[a] EXCEPT !.pc = "walk", !.left = StaticExits(sweep.exits, sweep.rotating)]
    <2>1. w \in WorkerStates /\ w.pc = "walk"
      BY <1>s, <1>t DEF WorkerStates
    <2>2. worker' = [worker EXCEPT ![a] = w]
      BY <1>3 DEF Claim
    <2> HIDE DEF w
    <2>3. QED
      BY <2>1, <2>2, <1>3, <1>w DEF Claim, Harvesting
  <1>4. CASE StopWalk(a)
    BY <1>4, <1>g DEF StopWalk, Leave
  <1>5. CASE \E x \in Exits : PassExit(a, x)
    <2>1. PICK x \in Exits : PassExit(a, x)
      BY <1>5
    <2> DEFINE w == [worker[a] EXCEPT !.left = @ \ {x}]
    <2>2. w \in WorkerStates /\ w.pc = "walk"
      BY <1>t, <2>1 DEF WorkerStates, PassExit
    <2>3. worker' = [worker EXCEPT ![a] = w]
      BY <2>1 DEF PassExit
    <2>4. claims' = claims \cup {a} /\ run' = run
      BY <2>1, <1>c DEF PassExit, Harvesting
    <2> HIDE DEF w
    <2>5. QED
      BY <2>1, <2>2, <2>3, <2>4, <1>w DEF PassExit, Harvesting
  <1>6. CASE \E x \in Exits : Fire(a, x)
    <2>1. PICK x \in Exits : Fire(a, x)
      BY <1>6
    <2> DEFINE w == [worker[a] EXCEPT !.pc = "fly", !.exit = x, !.left = @ \ {x}]
    <2>2. w \in WorkerStates /\ w.pc = "fly"
      BY <1>t DEF WorkerStates, Keys
    <2>3. worker' = [worker EXCEPT ![a] = w]
      BY <2>1 DEF Fire
    <2>4. claims' = claims \cup {a} /\ run' = run
      BY <2>1, <1>c DEF Fire, Harvesting
    <2> HIDE DEF w
    <2>5. QED
      BY <2>1, <2>2, <2>3, <2>4, <1>w DEF Fire, Harvesting
  <1>7. CASE StartRotating(a)
    <2> DEFINE w == [worker[a] EXCEPT !.pc = "rotate"]
    <2>2. w \in WorkerStates /\ w.pc = "rotate"
      BY <1>t DEF WorkerStates
    <2>3. worker' = [worker EXCEPT ![a] = w]
      BY <1>7 DEF StartRotating, Moves
    <2>4. claims' = claims \cup {a} /\ run' = run
      BY <1>7, <1>c DEF StartRotating, Harvesting
    <2> HIDE DEF w
    <2>5. QED
      BY <1>7, <2>2, <2>3, <2>4, <1>w DEF StartRotating, Harvesting
  <1>8. CASE NoRotating(a)
    BY <1>8, <1>g DEF NoRotating, Leave
  <1>9. CASE RotatingAttempt(a)
    <2>1. PICK pc \in {"rotfly", "rotate"} :
            worker' = [worker EXCEPT ![a].pc = pc, ![a].exit = Rotating, ![a].tries = @ + 1]
      BY <1>9 DEF RotatingAttempt
    <2> DEFINE w == [worker[a] EXCEPT !.pc = pc, !.exit = Rotating, !.tries = @ + 1]
    <2>2. w \in WorkerStates /\ w.pc = pc
      BY <1>t, <1>9 DEF WorkerStates, Keys, RotatingAttempt
    <2>3. worker' = [worker EXCEPT ![a] = w]
      BY <2>1
    <2>4. claims' = claims \cup {a} /\ run' = run
      BY <1>9, <1>c DEF RotatingAttempt, Harvesting
    <2> HIDE DEF w
    <2>5. QED
      BY <1>9, <2>2, <2>3, <2>4, <1>w DEF RotatingAttempt, Harvesting
  <1>10. CASE RotatingOver(a)
    BY <1>10, <1>g DEF RotatingOver, Leave
  <1>11. CASE Stored(a)
    BY <1>11, <1>g DEF Stored, Leave, InFlight
  <1>12. CASE Limited(a)
    BY <1>12, <1>g DEF Limited, Leave, InFlight
  <1>13. CASE TryNext(a)
    <2> DEFINE pc == IF worker[a].pc = "fly" THEN "walk" ELSE "rotate"
    <2> DEFINE w == [worker[a] EXCEPT !.pc = pc]
    <2>2. w \in WorkerStates /\ w.pc = pc
      BY <1>t DEF WorkerStates
    <2>3. worker' = [worker EXCEPT ![a] = w]
      BY <1>13 DEF TryNext, Moves
    <2>4. claims' = claims \cup {a} /\ run' = run
      BY <1>13, <1>c DEF TryNext, InFlight, Harvesting
    <2> HIDE DEF w
    <2>5. QED
      BY <1>13, <2>2, <2>3, <2>4, <1>w DEF TryNext, InFlight, Harvesting
  <1>14. QED
    BY <1>1, <1>2, <1>3, <1>4, <1>5, <1>6, <1>7, <1>8, <1>9, <1>10, <1>11, <1>12, <1>13
    DEF WorkerStep, Answer

\* What a step of a worker does to the rests: marks an exit it is about to use
\* and says so in the history, or shortens the rest of the one that answered.
Marks(a) ==
    \/ \E x \in Exits : Rest(a, x, now + ExitRest) /\ Fired(a, x)
    \/ Rest(a, Rotating, now + RotatingRest) /\ Fired(a, Rotating)
Eases(a) == (\E x \in Keys : Rest(a, x, now + SuccessRest)) /\ UNCHANGED lastFire

LEMMA RestShape ==
  ASSUME TypeOK, NEW a \in Accounts, WorkerStep(a)
  PROVE  /\ Marks(a) \/ Eases(a) \/ UNCHANGED <<restUntil, lastFire>>
         /\ \/ UNCHANGED backoff
            \/ worker'[a] = Gone /\ backoff' = [backoff EXCEPT ![a] = now + AccountRest]
         /\ Harvesting(worker'[a].pc) =>
               UNCHANGED backoff /\ (Harvesting(worker[a].pc) \/ AccountReady(a))
  <1>t. worker \in [Accounts -> WorkerStates] /\ worker[a] \in WorkerStates
        /\ worker[a].exit \in Keys /\ ~Harvesting(Gone.pc)
    BY DEF TypeOK, WorkerStates, Harvesting, Gone
  <1>1. CASE Drop(a) \/ Decline(a)
    BY <1>1, <1>t DEF Drop, Decline
  <1>2. CASE Claim(a)
    BY <1>2 DEF Claim
  <1>3. CASE StopWalk(a) \/ NoRotating(a) \/ RotatingOver(a)
    BY <1>3, <1>t DEF StopWalk, NoRotating, RotatingOver, Leave
  <1>4. CASE \E x \in Exits : PassExit(a, x)
    BY <1>4 DEF PassExit, Harvesting
  <1>5. CASE \E x \in Exits : Fire(a, x)
    BY <1>5 DEF Fire, Harvesting, Marks
  <1>6. CASE StartRotating(a)
    BY <1>6 DEF StartRotating, Harvesting, Marks
  <1>7. CASE RotatingAttempt(a) \/ TryNext(a)
    BY <1>7 DEF RotatingAttempt, TryNext, InFlight, Harvesting
  <1>8. CASE Stored(a)
    BY <1>8, <1>t DEF Stored, Leave, Eases
  <1>9. CASE Limited(a)
    BY <1>9, <1>t DEF Limited, Leave
  <1>10. QED
    BY <1>1, <1>2, <1>3, <1>4, <1>5, <1>6, <1>7, <1>8, <1>9 DEF WorkerStep, Answer

\* A key of the rests and a time of theirs, whatever the step did to them.
LEMMA RestTypes ==
  ASSUME TypeOK, NEW a \in Accounts, WorkerStep(a)
  PROVE  /\ restUntil' \in [Accounts -> [Keys -> Nat]]
         /\ backoff' \in [Accounts -> Nat \cup {Never}]
         /\ lastFire' \in [Accounts -> [Keys -> Nat \cup {Never}]]
  <1>n. /\ now \in Nat /\ now + ExitRest \in Nat /\ now + SuccessRest \in Nat
        /\ now + RotatingRest \in Nat /\ now + AccountRest \in Nat
    BY DEF TypeOK
  <1>k. Exits \subseteq Keys /\ Rotating \in Keys
    BY DEF Keys
  <1>1. ASSUME NEW x \in Keys, NEW until \in Nat, Rest(a, x, until)
        PROVE  restUntil' \in [Accounts -> [Keys -> Nat]]
    <2>1. restUntil[a] \in [Keys -> Nat]
      BY DEF TypeOK
    <2>2. [restUntil[a] EXCEPT ![x] = until] \in [Keys -> Nat]
      BY <2>1, <1>1
    <2>3. restUntil' = [restUntil EXCEPT ![a] = [restUntil[a] EXCEPT ![x] = until]]
      BY <1>1 DEF Rest
    <2>4. QED
      BY <2>2, <2>3 DEF TypeOK
  <1>2. ASSUME NEW x \in Keys, Fired(a, x)
        PROVE  lastFire' \in [Accounts -> [Keys -> Nat \cup {Never}]]
    <2>1. lastFire[a] \in [Keys -> Nat \cup {Never}]
      BY DEF TypeOK
    <2>2. [lastFire[a] EXCEPT ![x] = now] \in [Keys -> Nat \cup {Never}]
      BY <2>1, <1>n, <1>2
    <2>3. lastFire' = [lastFire EXCEPT ![a] = [lastFire[a] EXCEPT ![x] = now]]
      BY <1>2 DEF Fired
    <2>4. QED
      BY <2>2, <2>3 DEF TypeOK
  <1> DEFINE Goal == /\ restUntil' \in [Accounts -> [Keys -> Nat]]
                     /\ lastFire' \in [Accounts -> [Keys -> Nat \cup {Never}]]
  <1>3. ASSUME Marks(a) PROVE Goal
    BY <1>3, <1>1, <1>2, <1>n, <1>k DEF Marks
  <1>4. ASSUME Eases(a) PROVE Goal
    BY <1>4, <1>1, <1>n DEF Eases, TypeOK
  <1>5. ASSUME UNCHANGED <<restUntil, lastFire>> PROVE Goal
    BY <1>5 DEF TypeOK
  <1>6. backoff' \in [Accounts -> Nat \cup {Never}]
    BY RestShape, <1>n DEF TypeOK
  <1>7. QED
    BY <1>3, <1>4, <1>5, <1>6, RestShape

-----------------------------------------------------------------------------
(* Types. *)

LEMMA WorkerType ==
  ASSUME TypeOK, OneSweep, NEW a \in Accounts, WorkerStep(a)
  PROVE  TypeOK'
  <1>1. PICK w \in WorkerStates : /\ worker' = [worker EXCEPT ![a] = w]
                                  /\ GoesOn(a, w) \/ IsThrough(a, w)
    BY WorkerShape
  <1>2. worker' \in [Accounts -> WorkerStates]
    BY <1>1 DEF TypeOK
  <1>3. claims' \in SUBSET Accounts /\ run' \in RunStates
    BY <1>1, CountedType DEF TypeOK, GoesOn, IsThrough
  <1>4. UNCHANGED <<settingsVars, now, starter, sweep>>
    BY WorkerShape
  <1>5. SettingsTypeOK'
    BY <1>4 DEF TypeOK, SettingsTypeOK, settingsVars
  <1>6. QED
    BY <1>2, <1>3, <1>4, <1>5, RestTypes DEF TypeOK

\* The steps of the sweep and of the requests that start and stop a run leave
\* the settings, the clock, the claims and the rests alone.
RunStep == StartCopies \/ StartRun \/ StartRefused \/ Cancel \/ SweepStep \/ RenewTick

LEMMA RunStepFrame ==
  ASSUME RunStep
  PROVE  UNCHANGED <<settingsVars, now, claims, restUntil, backoff, lastFire>>
  BY DEF RunStep, StartCopies, StartRun, StartRefused, Cancel, SweepStep, RenewTick, GiveUp, Prepare,
         Break, BatchEnd, Download, Stop, SkipAccount, Launch

LEMMA StartType ==
  ASSUME TypeOK, StartCopies \/ StartRun \/ StartRefused \/ Cancel
  PROVE  /\ starter' \in {Idle} \cup [pc : {"copied"}, scope : Scopes]
         /\ run' \in RunStates
         /\ sweep' \in SweepStates
         /\ UNCHANGED worker
  <1>1. CASE StartCopies
    <2>1. config.scope \in Scopes
      BY DEF TypeOK, SettingsTypeOK, Configs
    <2>2. QED
      BY <2>1, <1>1 DEF StartCopies, TypeOK
  <1>2. CASE StartRun
    <2>1. starter.scope \in Scopes
      BY <1>2 DEF StartRun, TypeOK
    <2> DEFINE s == [Off EXCEPT !.pc = "prepare", !.todo = starter.scope.accounts, !.counting = TRUE,
                                !.exits = starter.scope.exits, !.rotating = starter.scope.rotating]
    <2>2. s \in SweepStates
      BY <2>1 DEF Scopes, Off, SweepStates
    <2>3. sweep' = s /\ starter' = Idle /\ UNCHANGED worker
      BY <1>2 DEF StartRun
    <2>4. run' = [NoRun EXCEPT !.running = TRUE]
      BY <1>2 DEF StartRun
    <2>5. run' \in RunStates
      BY <2>4 DEF NoRun, RunStates
    <2> HIDE DEF s
    <2>6. QED
      BY <2>2, <2>3, <2>5
  <1>3. CASE StartRefused
    BY <1>3 DEF StartRefused, TypeOK
  <1>4. CASE Cancel
    BY <1>4, Constants DEF Cancel, TypeOK
  <1>5. QED
    BY <1>1, <1>2, <1>3, <1>4

LEMMA SweepUpdates ==
  ASSUME NEW s \in SweepStates
  PROVE  /\ \A v \in SUBSET Accounts : /\ [s EXCEPT !.pc = "batch", !.creds = v] \in SweepStates
                                       /\ [s EXCEPT !.todo = v] \in SweepStates
  BY DEF SweepStates

LEMMA SweepType ==
  ASSUME TypeOK, SweepStep \/ RenewTick
  PROVE  /\ run' \in RunStates
         /\ sweep' \in SweepStates
         /\ worker' \in [Accounts -> WorkerStates]
         /\ UNCHANGED starter
  <1>t. sweep \in SweepStates /\ run \in RunStates /\ sweep.todo \in SUBSET Accounts
        /\ worker \in [Accounts -> WorkerStates] /\ config.scope \in Scopes
    BY DEF TypeOK, SweepStates, SettingsTypeOK, Configs
  <1>1. CASE GiveUp \/ Stop
    BY <1>1, <1>t, Constants DEF GiveUp, Stop, Finish
  <1>2. CASE Prepare
    <2>1. IsFiniteSet(sweep.todo)
      BY <1>t, FS_Subset
    <2>2. Cardinality(sweep.todo) \in Nat
      BY <2>1, FS_CardinalityType
    <2>3. [run EXCEPT !.total = Cardinality(sweep.todo)] \in RunStates
      BY <2>2, <1>t DEF RunStates
    <2>4. PICK creds \in SUBSET sweep.todo : sweep' = [sweep EXCEPT !.pc = "batch", !.creds = creds]
      BY <1>2 DEF Prepare
    <2>5. QED
      BY <2>3, <2>4, <1>2, <1>t, SweepUpdates DEF Prepare
  <1>3. CASE Break
    BY <1>3, <1>t, SweepUpdates DEF Break
  <1>4. CASE BatchEnd
    BY <1>4, <1>t, Constants DEF BatchEnd
  <1>5. CASE Download
    <2>1. PICK creds \in SUBSET Accounts : sweep' = [sweep EXCEPT !.pc = "batch", !.creds = creds]
      BY <1>5, <1>t DEF Download
    <2>2. sweep' \in SweepStates
      BY <2>1, <1>t, SweepUpdates
    <2>3. QED
      BY <2>2, <1>5, <1>t DEF Download
  <1>6. CASE \E a \in Accounts : SkipAccount(a)
    <2>1. PICK a \in Accounts : SkipAccount(a)
      BY <1>6
    <2>2. sweep' = [sweep EXCEPT !.todo = sweep.todo \ {a}] /\ run' = Counted
          /\ UNCHANGED <<starter, worker>>
      BY <2>1 DEF SkipAccount
    <2>3. sweep.todo \ {a} \in SUBSET Accounts
      BY <1>t
    <2>4. QED
      BY <2>2, <2>3, <1>t, SweepUpdates, CountedType
  <1>7. CASE \E a \in Accounts : Launch(a)
    <2>1. PICK a \in Accounts : Launch(a)
      BY <1>7
    <2>2. sweep' = [sweep EXCEPT !.todo = sweep.todo \ {a}] /\ UNCHANGED <<starter, run>>
          /\ worker' = [worker EXCEPT ![a] = [Gone EXCEPT !.pc = "start"]]
      BY <2>1 DEF Launch
    <2>3. sweep.todo \ {a} \in SUBSET Accounts
      BY <1>t
    <2>4. worker' \in [Accounts -> WorkerStates]
      BY <2>2, <1>t, Constants
    <2>5. QED
      BY <2>2, <2>3, <2>4, <1>t, SweepUpdates
  <1>8. CASE RenewTick
    <2> DEFINE s == [Off EXCEPT !.pc = "download", !.todo = Due(config),
                                !.exits = config.scope.exits, !.rotating = config.scope.rotating]
    <2>1. s \in SweepStates
      BY <1>t DEF Off, SweepStates, Scopes, Due
    <2>2. sweep' = s
      BY <1>8 DEF RenewTick
    <2> HIDE DEF s
    <2>3. QED
      BY <2>1, <2>2, <1>8, <1>t DEF RenewTick
  <1>9. QED
    BY <1>1, <1>2, <1>3, <1>4, <1>5, <1>6, <1>7, <1>8 DEF SweepStep

\* The two halves of Next, the settings' steps seen as one.
LEMMA StepsOfNext ==
  ASSUME Next
  PROVE  \/ SettingsStep /\ Aside
         \/ RunStep
         \/ \E a \in Accounts : WorkerStep(a)
         \/ Tick
         \/ NewProcess
  BY DEF Next, SettingsAside, SettingsStep, RequestStep, RunStep

LEMMA InitType == Init => TypeOK
  <1> SUFFICES ASSUME Init PROVE TypeOK
    OBVIOUS
  <1>1. SettingsTypeOK
    BY SettingsInitType DEF Init
  <1>2. restUntil \in [Accounts -> [Keys -> Nat]] /\ lastFire \in [Accounts -> [Keys -> Nat \cup {Never}]]
    BY DEF Init, MemoryInit
  <1>3. worker \in [Accounts -> WorkerStates] /\ run \in RunStates /\ sweep \in SweepStates
    BY Constants DEF Init, MemoryInit
  <1>4. now \in 0..MaxTime /\ starter = Idle /\ claims = {} /\ backoff \in [Accounts -> Nat \cup {Never}]
    BY DEF Init, MemoryInit
  <1>5. QED
    BY <1>1, <1>2, <1>3, <1>4 DEF TypeOK

LEMMA TypeStep ==
  ASSUME TypeOK, OneSweep, [Next]_vars
  PROVE  TypeOK'
  <1>1. CASE SettingsStep /\ Aside
    <2>1. SettingsTypeOK'
      BY <1>1, RequestStepType, ReloadType DEF SettingsStep, TypeOK
    <2>2. QED
      BY <2>1, <1>1 DEF Aside, memory, TypeOK
  <1>2. CASE RunStep
    <2>1. SettingsTypeOK'
      BY <1>2, RunStepFrame DEF TypeOK, SettingsTypeOK, settingsVars
    <2>2. /\ starter' \in {Idle} \cup [pc : {"copied"}, scope : Scopes]
          /\ run' \in RunStates
          /\ sweep' \in SweepStates
          /\ worker' \in [Accounts -> WorkerStates]
      BY <1>2, StartType, SweepType DEF RunStep, TypeOK
    <2>3. QED
      BY <2>1, <2>2, <1>2, RunStepFrame DEF TypeOK
  <1>3. CASE \E a \in Accounts : WorkerStep(a)
    BY <1>3, WorkerType
  <1>4. CASE Tick
    <2>1. SettingsTypeOK'
      BY <1>4 DEF Tick, TypeOK, SettingsTypeOK, settingsVars
    <2>2. QED
      BY <2>1, <1>4 DEF Tick, memory, TypeOK
  <1>5. CASE NewProcess
    <2>1. SettingsTypeOK'
      BY <1>5, RestartType DEF NewProcess, TypeOK
    <2>2. restUntil' \in [Accounts -> [Keys -> Nat]] /\ lastFire' \in [Accounts -> [Keys -> Nat \cup {Never}]]
      BY <1>5 DEF NewProcess
    <2>3. QED
      BY <2>1, <2>2, <1>5, Constants DEF NewProcess, TypeOK
  <1>6. CASE UNCHANGED vars
    <2>1. SettingsTypeOK'
      BY <1>6 DEF vars, TypeOK, SettingsTypeOK, settingsVars
    <2>2. QED
      BY <2>1, <1>6 DEF vars, memory, TypeOK
  <1>7. QED
    BY <1>1, <1>2, <1>3, <1>4, <1>5, <1>6, StepsOfNext

-----------------------------------------------------------------------------
(* One sweep at a time. *)

\* What the batch still has to launch has no worker: without it, a second
\* worker of an account would overwrite the first.
Separate == sweep.todo \cap Live = {}

LEMMA LiveFinite ==
  /\ Live \subseteq Accounts /\ IsFiniteSet(Live) /\ Cardinality(Live) \in Nat
  /\ Live' \subseteq Accounts /\ IsFiniteSet(Live') /\ Cardinality(Live') \in Nat
  <1>1. Live \subseteq Accounts /\ Live' \subseteq Accounts
    BY DEF Live
  <1>2. IsFiniteSet(Live) /\ IsFiniteSet(Live')
    BY <1>1, FS_Subset
  <1>3. QED
    BY <1>1, <1>2, FS_CardinalityType

\* A step that leaves workers and claims alone keeps what is said of both.
LEMMA WorkersFrame ==
  ASSUME OneSweep, UNCHANGED <<worker, claims>>
  PROVE  /\ Live' = Live
         /\ Cardinality(Live') <= MaxInFlight
         /\ claims' = {a \in Accounts : Harvesting(worker'[a].pc)}
  BY DEF OneSweep, Live

LEMMA WorkerOneSweep ==
  ASSUME TypeOK, OneSweep, NEW a \in Accounts, WorkerStep(a)
  PROVE  OneSweep'
  <1>1. PICK w \in WorkerStates : /\ worker' = [worker EXCEPT ![a] = w]
                                  /\ GoesOn(a, w) \/ IsThrough(a, w)
    BY WorkerShape
  <1>2. worker[a].pc # "gone" /\ UNCHANGED sweep
    BY WorkerShape
  <1>3. worker'[a] = w /\ \A b \in Accounts \ {a} : worker'[b] = worker[b]
    BY <1>1 DEF TypeOK
  <1>4. a \in Live /\ Live' \subseteq Live
    BY <1>2, <1>3 DEF Live
  <1>5. Cardinality(Live') <= MaxInFlight
    <2>1. Cardinality(Live') <= Cardinality(Live)
      BY <1>4, LiveFinite, FS_Subset
    <2>2. QED
      BY <2>1, LiveFinite DEF OneSweep
  <1>6. sweep.pc = "batch" /\ run'.running = run.running
    BY <1>1, <1>4, CountedType DEF OneSweep, GoesOn, IsThrough
  <1>7. claims' = {b \in Accounts : Harvesting(worker'[b].pc)}
    <2>1. claims = {b \in Accounts : Harvesting(worker[b].pc)}
      BY DEF OneSweep
    <2>2. Harvesting(w.pc) <=> a \in claims'
      BY <1>1 DEF GoesOn, IsThrough, Harvesting, Gone
    <2>3. \A b \in Accounts \ {a} : b \in claims' <=> b \in claims
      BY <1>1 DEF GoesOn, IsThrough
    <2>4. claims' \subseteq Accounts
      BY <1>1, <2>1 DEF GoesOn, IsThrough
    <2>5. QED
      BY <1>3, <2>1, <2>2, <2>3, <2>4
  <1>8. QED
    BY <1>2, <1>5, <1>6, <1>7 DEF OneSweep

LEMMA RunOneSweep ==
  ASSUME TypeOK, OneSweep, Separate, RunStep
  PROVE  OneSweep'
  <1>f. UNCHANGED claims
    BY RunStepFrame
  <1>r. run \in RunStates /\ sweep \in SweepStates /\ worker \in [Accounts -> WorkerStates]
    BY DEF TypeOK
  <1>k. \A s \in RunStates : /\ [s EXCEPT !.running = FALSE, !.canceled = FALSE].running = FALSE
                             /\ [s EXCEPT !.canceled = TRUE].running = s.running
                             /\ \A n : [s EXCEPT !.total = n].running = s.running
    BY DEF RunStates
  <1>s. \A s \in SweepStates : \A v : /\ [s EXCEPT !.todo = v].pc = s.pc
                                      /\ [s EXCEPT !.pc = "batch", !.creds = v].pc = "batch"
    BY DEF SweepStates
  <1>1. CASE StartCopies \/ StartRefused
    BY <1>1, <1>f, WorkersFrame DEF StartCopies, StartRefused, OneSweep
  <1>2. CASE StartRun
    <2>1. run'.running = TRUE /\ sweep'.pc = "prepare" /\ UNCHANGED worker /\ sweep.pc = "off"
      BY <1>2, <1>r DEF StartRun, NoRun, Off, OneSweep, RunStates
    <2>2. QED
      BY <2>1, <1>f, WorkersFrame DEF OneSweep
  <1>3. CASE Cancel
    BY <1>3, <1>f, <1>r, <1>k, WorkersFrame DEF Cancel, OneSweep
  <1>4. CASE GiveUp \/ Stop
    <2>1. run'.running = FALSE /\ sweep' = Off /\ UNCHANGED worker /\ sweep.pc # "batch"
      BY <1>4, <1>r, <1>k DEF GiveUp, Stop, Finish
    <2>2. QED
      BY <2>1, <1>f, WorkersFrame DEF OneSweep, Off
  <1>5. CASE Prepare
    <2>1. sweep'.pc = "batch" /\ UNCHANGED worker /\ run'.running = run.running /\ sweep.pc = "prepare"
      BY <1>5, <1>r, <1>k, <1>s DEF Prepare
    <2>2. QED
      BY <2>1, <1>f, WorkersFrame DEF OneSweep
  <1>6. CASE Break \/ \E a \in Accounts : SkipAccount(a)
    <2>1. sweep'.pc = sweep.pc /\ UNCHANGED worker
      <3>1. \/ sweep' = [sweep EXCEPT !.todo = {}]
            \/ \E a \in Accounts : sweep' = [sweep EXCEPT !.todo = sweep.todo \ {a}]
        BY <1>6 DEF Break, SkipAccount
      <3>2. UNCHANGED worker
        BY <1>6 DEF Break, SkipAccount
      <3>3. PICK v : sweep' = [sweep EXCEPT !.todo = v]
        BY <3>1
      <3>4. QED
        BY <3>2, <3>3, <1>r, <1>s
    <2>2. run'.running = run.running
      BY <1>6, CountedType DEF Break, SkipAccount
    <2>3. QED
      BY <2>1, <2>2, <1>f, WorkersFrame DEF OneSweep
  <1>7. CASE BatchEnd
    BY <1>7, <1>f, WorkersFrame DEF BatchEnd, OneSweep, Off
  <1>8. CASE Download
    <2>1. sweep'.pc = "batch" /\ UNCHANGED <<worker, run>> /\ sweep.pc = "download"
      BY <1>8, <1>r, <1>s DEF Download
    <2>2. QED
      BY <2>1, <1>f, WorkersFrame DEF OneSweep
  <1>9. CASE RenewTick
    BY <1>9, <1>f, WorkersFrame DEF RenewTick, OneSweep, Off
  <1>10. CASE \E a \in Accounts : Launch(a)
    <2>1. PICK a \in Accounts : Launch(a)
      BY <1>10
    <2>2. worker' = [worker EXCEPT ![a] = [Gone EXCEPT !.pc = "start"]] /\ UNCHANGED run
          /\ Cardinality(Live) < MaxInFlight
      BY <2>1 DEF Launch
    <2>3. sweep'.pc = "batch" /\ sweep.pc = "batch"
      BY <2>1, <1>r, <1>s DEF Launch
    <2>4. worker'[a].pc = "start" /\ \A b \in Accounts \ {a} : worker'[b] = worker[b]
      BY <2>2, <1>r DEF Gone
    <2>5. Live' \subseteq Live \cup {a}
      BY <2>4 DEF Live
    <2>6. Cardinality(Live') <= MaxInFlight
      <3>1. IsFiniteSet(Live \cup {a}) /\ Cardinality(Live \cup {a}) <= Cardinality(Live) + 1
        <4>1. /\ IsFiniteSet(Live \cup {a})
              /\ Cardinality(Live \cup {a}) = IF a \in Live THEN Cardinality(Live) ELSE Cardinality(Live) + 1
          BY LiveFinite, FS_AddElement
        <4>2. Cardinality(Live) \in Nat
          BY LiveFinite
        <4>3. QED
          BY <4>1, <4>2
      <3>2. Cardinality(Live') <= Cardinality(Live \cup {a}) /\ Cardinality(Live \cup {a}) \in Nat
        BY <2>5, <3>1, FS_Subset, FS_CardinalityType
      <3>3. QED
        BY <3>1, <3>2, <2>2, LiveFinite
    <2>7. claims' = {b \in Accounts : Harvesting(worker'[b].pc)}
      <3>1. ~run.canceled /\ claims = {b \in Accounts : Harvesting(worker[b].pc)}
        BY <2>1 DEF Launch, OneSweep
      <3>2. ~Harvesting(worker'[a].pc)
        BY <2>4 DEF Harvesting
      <3>3. a \notin Live /\ a \notin claims
        BY <2>1, <3>1 DEF Launch, Separate, Live, Harvesting
      <3>4. QED
        BY <3>1, <3>2, <3>3, <2>4, <1>f
    <2>8. QED
      BY <2>2, <2>3, <2>6, <2>7 DEF OneSweep
  <1>11. QED
    BY <1>1, <1>2, <1>3, <1>4, <1>5, <1>6, <1>7, <1>8, <1>9, <1>10 DEF RunStep, SweepStep

LEMMA SeparateStep ==
  ASSUME TypeOK, OneSweep, Separate, [Next]_vars
  PROVE  Separate'
  <1>r. sweep \in SweepStates /\ worker \in [Accounts -> WorkerStates]
    BY DEF TypeOK
  <1>s. \A s \in SweepStates : \A v : /\ [s EXCEPT !.todo = v].todo = v
                                      /\ [s EXCEPT !.pc = "batch", !.creds = v].todo = s.todo
    BY DEF SweepStates
  <1>0. ASSUME UNCHANGED worker PROVE Live' = Live
    BY <1>0 DEF Live
  <1>1. CASE SettingsStep /\ Aside
    BY <1>1, <1>0 DEF Aside, memory, Separate
  <1>2. CASE StartCopies \/ StartRefused \/ Cancel \/ Tick \/ UNCHANGED vars
    BY <1>2, <1>0 DEF StartCopies, StartRefused, Cancel, Tick, vars, memory, Separate
  <1>3. CASE StartRun \/ GiveUp \/ Prepare \/ BatchEnd \/ Download \/ Stop \/ RenewTick
    <2>1. sweep.pc # "batch" \/ BatchEnd
      BY <1>3 DEF StartRun, GiveUp, Prepare, Download, Stop, RenewTick, OneSweep
    <2>2. Live = {}
      BY <2>1 DEF BatchEnd, OneSweep
    <2>3. UNCHANGED worker
      BY <1>3 DEF StartRun, GiveUp, Prepare, BatchEnd, Download, Stop, RenewTick
    <2>4. QED
      BY <2>2, <2>3, <1>0 DEF Separate
  <1>4. CASE Break
    BY <1>4, <1>0, <1>r, <1>s DEF Break, Separate
  <1>5. CASE \E a \in Accounts : SkipAccount(a)
    BY <1>5, <1>0, <1>r, <1>s DEF SkipAccount, Separate
  <1>6. CASE \E a \in Accounts : Launch(a)
    <2>1. PICK a \in Accounts : Launch(a)
      BY <1>6
    <2>2. sweep'.todo = sweep.todo \ {a}
      BY <2>1, <1>r, <1>s DEF Launch
    <2>3. Live' \subseteq Live \cup {a}
      BY <2>1, <1>r DEF Launch, Live
    <2>4. QED
      BY <2>2, <2>3 DEF Separate
  <1>7. CASE \E a \in Accounts : WorkerStep(a)
    <2>1. PICK a \in Accounts : WorkerStep(a)
      BY <1>7
    <2>2. PICK w \in WorkerStates : worker' = [worker EXCEPT ![a] = w]
      BY <2>1, WorkerShape
    <2>3. worker[a].pc # "gone" /\ UNCHANGED sweep
      BY <2>1, WorkerShape
    <2>4. Live' \subseteq Live
      BY <2>2, <2>3, <1>r DEF Live
    <2>5. QED
      BY <2>3, <2>4 DEF Separate
  <1>8. CASE NewProcess
    BY <1>8 DEF NewProcess, Off, Separate
  <1>9. QED
    BY <1>1, <1>2, <1>3, <1>4, <1>5, <1>6, <1>7, <1>8, StepsOfNext DEF RunStep, SweepStep

LEMMA OneSweepStep ==
  ASSUME TypeOK, OneSweep, Separate, [Next]_vars
  PROVE  OneSweep'
  <1>1. CASE SettingsStep /\ Aside
    BY <1>1, WorkersFrame DEF Aside, memory, OneSweep
  <1>2. CASE Tick \/ UNCHANGED vars
    BY <1>2, WorkersFrame DEF Tick, vars, memory, OneSweep
  <1>3. CASE NewProcess
    <2>1. Live' = {}
      BY <1>3 DEF NewProcess, Live, Gone
    <2>2. Cardinality(Live') = 0
      BY <2>1, FS_EmptySet
    <2>3. claims' = {a \in Accounts : Harvesting(worker'[a].pc)}
      BY <1>3 DEF NewProcess, Gone, Harvesting
    <2>4. run'.running = FALSE /\ sweep'.pc = "off"
      BY <1>3 DEF NewProcess, NoRun, Off
    <2>5. QED
      BY <2>1, <2>2, <2>3, <2>4 DEF OneSweep
  <1>4. QED
    BY <1>1, <1>2, <1>3, RunOneSweep, WorkerOneSweep, StepsOfNext

-----------------------------------------------------------------------------
(* The rests of accounts and exits. *)

\* No worker is past its account's check while the account rests.
Rested == \A a \in Accounts : Harvesting(worker[a].pc) => now > backoff[a]

\* What has been used rests for as long as is promised from then on.
Resting ==
    \A a \in Accounts, x \in Keys :
        lastFire[a][x] # Never =>
            /\ lastFire[a][x] <= now
            /\ restUntil[a][x] >= lastFire[a][x] + LeastRest(x)

LEMMA LeastRestBounds ==
  \A x \in Keys : LeastRest(x) \in Nat /\ LeastRest(x) <= SuccessRest /\ SuccessRest <= ExitRest
  BY DEF LeastRest

LEMMA RestedStep ==
  ASSUME TypeOK, OneSweep, Rested, [Next]_vars
  PROVE  Rested'
  <1>t. now \in Nat /\ backoff \in [Accounts -> Nat \cup {Never}] /\ worker \in [Accounts -> WorkerStates]
    BY DEF TypeOK
  <1>1. CASE (SettingsStep /\ Aside) \/ UNCHANGED vars
    BY <1>1 DEF Aside, vars, memory, Rested
  <1>2. CASE RunStep
    <2>1. UNCHANGED <<now, backoff>>
      BY <1>2, RunStepFrame
    <2>2. \A a \in Accounts : worker'[a] = worker[a] \/ worker'[a].pc = "start"
      BY <1>2, <1>t DEF RunStep, StartCopies, StartRun, StartRefused, Cancel, SweepStep, RenewTick, GiveUp,
           Prepare, Break, BatchEnd, Download, Stop, SkipAccount, Launch, Gone
    <2>3. QED
      BY <2>1, <2>2 DEF Rested, Harvesting
  <1>3. CASE \E a \in Accounts : WorkerStep(a)
    <2>1. PICK a \in Accounts : WorkerStep(a)
      BY <1>3
    <2>2. UNCHANGED now /\ \A b \in Accounts \ {a} : worker'[b] = worker[b]
      BY <2>1, <1>t, WorkerShape
    <2>3. \A b \in Accounts \ {a} : backoff'[b] = backoff[b]
      BY <2>1, <1>t, RestShape
    <2>4. Harvesting(worker'[a].pc) => now > backoff'[a]
      BY <2>1, RestShape DEF Rested, AccountReady
    <2>5. QED
      BY <2>2, <2>3, <2>4 DEF Rested
  <1>4. CASE Tick
    <2>1. now' = now + 1 /\ UNCHANGED <<worker, backoff>>
      BY <1>4 DEF Tick, memory
    <2>2. \A a \in Accounts : now > backoff[a] => now + 1 > backoff[a]
      BY <1>t DEF Never
    <2>3. QED
      BY <2>1, <2>2 DEF Rested
  <1>5. CASE NewProcess
    BY <1>5 DEF NewProcess, Rested, Harvesting, Gone
  <1>6. QED
    BY <1>1, <1>2, <1>3, <1>4, <1>5, StepsOfNext

\* What a step does to the rest of one key.
LEMMA RestOfKey ==
  ASSUME TypeOK, NEW a \in Accounts, WorkerStep(a), NEW b \in Accounts, NEW x \in Keys
  PROVE  \/ lastFire'[b][x] = lastFire[b][x] /\ restUntil'[b][x] = restUntil[b][x]
         \/ lastFire'[b][x] = now /\ restUntil'[b][x] >= now + LeastRest(x)
         \/ lastFire'[b][x] = lastFire[b][x] /\ restUntil'[b][x] >= now + LeastRest(x)
  <1>n. now \in Nat
    BY DEF TypeOK
  <1>k. Exits \subseteq Keys /\ Rotating \in Keys
    BY DEF Keys
  <1>r. ASSUME NEW k \in Keys, NEW until, Rest(a, k, until)
        PROVE  restUntil'[b][x] = IF b = a /\ x = k THEN until ELSE restUntil[b][x]
    BY <1>r DEF Rest, TypeOK
  <1>f. ASSUME NEW k \in Keys, Fired(a, k)
        PROVE  lastFire'[b][x] = IF b = a /\ x = k THEN now ELSE lastFire[b][x]
    BY <1>f DEF Fired, TypeOK
  <1>1. ASSUME NEW y \in Exits, Rest(a, y, now + ExitRest), Fired(a, y)
        PROVE  \/ lastFire'[b][x] = lastFire[b][x] /\ restUntil'[b][x] = restUntil[b][x]
               \/ lastFire'[b][x] = now /\ restUntil'[b][x] >= now + LeastRest(x)
    <2>1. now + ExitRest >= now + LeastRest(x)
      BY <1>n, LeastRestBounds
    <2>2. y \in Keys
      BY <1>k
    <2>3. QED
      BY <1>1, <2>1, <2>2, <1>r, <1>f
  <1>2. ASSUME Rest(a, Rotating, now + RotatingRest), Fired(a, Rotating)
        PROVE  \/ lastFire'[b][x] = lastFire[b][x] /\ restUntil'[b][x] = restUntil[b][x]
               \/ lastFire'[b][x] = now /\ restUntil'[b][x] >= now + LeastRest(x)
    <2>1. x = Rotating => now + RotatingRest >= now + LeastRest(x)
      BY <1>n DEF LeastRest
    <2>2. QED
      BY <1>2, <2>1, <1>k, <1>r, <1>f
  <1>3. ASSUME Eases(a)
        PROVE  \/ lastFire'[b][x] = lastFire[b][x] /\ restUntil'[b][x] = restUntil[b][x]
               \/ lastFire'[b][x] = lastFire[b][x] /\ restUntil'[b][x] >= now + LeastRest(x)
    <2>1. now + SuccessRest >= now + LeastRest(x)
      BY <1>n, LeastRestBounds
    <2>2. PICK k \in Keys : Rest(a, k, now + SuccessRest)
      BY <1>3 DEF Eases
    <2>3. restUntil'[b][x] = IF b = a /\ x = k THEN now + SuccessRest ELSE restUntil[b][x]
      BY <2>2, <1>r
    <2>4. UNCHANGED lastFire
      BY <1>3 DEF Eases
    <2>5. QED
      BY <2>1, <2>3, <2>4
  <1>4. QED
    BY <1>1, <1>2, <1>3, RestShape DEF Marks

LEMMA RestingStep ==
  ASSUME TypeOK, OneSweep, Resting, [Next]_vars
  PROVE  Resting'
  <1>t. /\ now \in Nat
        /\ \A a \in Accounts, x \in Keys : restUntil[a][x] \in Nat /\ lastFire[a][x] \in Nat \cup {Never}
    BY DEF TypeOK
  <1>1. CASE (SettingsStep /\ Aside) \/ UNCHANGED vars
    BY <1>1 DEF Aside, vars, memory, Resting
  <1>2. CASE RunStep
    BY <1>2, RunStepFrame DEF Resting
  <1>3. CASE \E a \in Accounts : WorkerStep(a)
    <2>1. PICK a \in Accounts : WorkerStep(a)
      BY <1>3
    <2>2. UNCHANGED now
      BY <2>1, WorkerShape
    <2>3. ASSUME NEW b \in Accounts, NEW x \in Keys, lastFire'[b][x] # Never
          PROVE  lastFire'[b][x] <= now /\ restUntil'[b][x] >= lastFire'[b][x] + LeastRest(x)
      <3>1. CASE lastFire'[b][x] = lastFire[b][x] /\ restUntil'[b][x] = restUntil[b][x]
        BY <3>1, <2>3 DEF Resting
      <3>2. CASE lastFire'[b][x] = now /\ restUntil'[b][x] >= now + LeastRest(x)
        BY <3>2, <1>t
      <3>3. CASE lastFire'[b][x] = lastFire[b][x] /\ restUntil'[b][x] >= now + LeastRest(x)
        <4>1. lastFire[b][x] <= now /\ lastFire[b][x] \in Nat /\ LeastRest(x) \in Nat
          BY <3>3, <2>3, <1>t, LeastRestBounds DEF Resting
        <4>2. restUntil'[b][x] \in Nat
          BY <2>1, RestTypes
        <4>3. QED
          BY <4>1, <4>2, <3>3, <1>t
      <3>4. QED
        BY <3>1, <3>2, <3>3, <2>1, RestOfKey
    <2>4. QED
      BY <2>2, <2>3 DEF Resting, LeastRest
  <1>4. CASE Tick
    BY <1>4, <1>t DEF Tick, memory, Resting, LeastRest, Never
  <1>5. CASE NewProcess
    BY <1>5 DEF NewProcess, Resting
  <1>6. QED
    BY <1>1, <1>2, <1>3, <1>4, <1>5, StepsOfNext

-----------------------------------------------------------------------------
(* The progress of a fill. *)

\* The targets of the fill that are not counted yet.
Open == IF sweep.counting THEN sweep.todo \cup Live ELSE {}

FillAddsUp ==
    /\ sweep.pc = "prepare" => run.done = 0 /\ run.total = 0 /\ sweep.counting
    /\ sweep.pc = "off" => run.done <= run.total
    /\ sweep.pc \in {"batch", "renew", "download"} =>
          /\ run.done + Cardinality(Open) <= run.total
          /\ ~run.canceled => run.done + Cardinality(Open) = run.total
    /\ sweep.pc \in {"renew", "download"} => ~sweep.counting

LEMMA OpenFinite ==
  ASSUME TypeOK
  PROVE  Open \subseteq Accounts /\ IsFiniteSet(Open) /\ Cardinality(Open) \in Nat
  <1>1. Open \subseteq Accounts
    BY LiveFinite DEF Open, TypeOK, SweepStates
  <1>2. QED
    BY <1>1, FS_Subset, FS_CardinalityType

LEMMA FillImplies ==
  ASSUME TypeOK, FillAddsUp
  PROVE  FillIsCounted
  <1>r. run.done \in Nat /\ run.total \in Nat /\ sweep.pc \in {"off", "prepare", "batch", "renew", "download"}
    BY DEF TypeOK, RunStates, SweepStates
  <1>1. sweep.pc \in {"renew", "download"} => Cardinality(Open) = 0
    BY FS_EmptySet DEF FillAddsUp, Open
  <1>2. Cardinality(Open) \in Nat
    BY OpenFinite
  <1>3. run.done <= run.total
    BY <1>r, <1>2 DEF FillAddsUp
  <1>4. ~run.canceled /\ sweep.pc \in {"renew", "download"} => run.done = run.total
    BY <1>r, <1>1 DEF FillAddsUp
  <1>5. QED
    BY <1>3, <1>4 DEF FillIsCounted

\* One target of the batch is through: counted, or dropped by a stopped run.
LEMMA OneLess ==
  ASSUME TypeOK, FillAddsUp, sweep.pc = "batch", sweep'.pc = "batch",
         sweep'.counting = sweep.counting,
         NEW a, sweep.counting => a \in Open, Open' = Open \ {a},
         run' = Counted \/ (run.canceled /\ run' = run)
  PROVE  FillAddsUp'
  <1>r. run.done \in Nat /\ run.total \in Nat
    BY DEF TypeOK, RunStates
  <1>1. sweep.counting => Cardinality(Open') = Cardinality(Open) - 1
    BY OpenFinite, FS_RemoveElement
  <1>2. ~sweep.counting => Open = {} /\ Open' = {}
    BY DEF Open
  <1>3. /\ run'.total = run.total /\ run'.canceled = run.canceled
        /\ sweep.counting => run'.done = run.done + 1 \/ (run.canceled /\ run'.done = run.done)
        /\ ~sweep.counting => run'.done = run.done
    BY CountedType
  <1>4. /\ run.done + Cardinality(Open) <= run.total
        /\ ~run.canceled => run.done + Cardinality(Open) = run.total
    BY DEF FillAddsUp
  <1>5. Cardinality(Open) \in Nat
    BY OpenFinite
  <1>6. /\ run'.done + Cardinality(Open') <= run'.total
        /\ ~run'.canceled => run'.done + Cardinality(Open') = run'.total
    <2>1. CASE sweep.counting
      BY <2>1, <1>1, <1>3, <1>4, <1>5, <1>r
    <2>2. CASE ~sweep.counting
      BY <2>2, <1>2, <1>3, <1>4
    <2>3. QED
      BY <2>1, <2>2
  <1>7. QED
    BY <1>6 DEF FillAddsUp

LEMMA FillStep ==
  ASSUME TypeOK, OneSweep, Separate, FillAddsUp, [Next]_vars
  PROVE  FillAddsUp'
  <1>r. /\ run \in RunStates /\ sweep \in SweepStates /\ worker \in [Accounts -> WorkerStates]
        /\ run.done \in Nat /\ run.total \in Nat /\ Cardinality(Open) \in Nat
    BY OpenFinite DEF TypeOK, RunStates
  <1>s. \A s \in SweepStates : \A v :
            /\ [s EXCEPT !.todo = v].todo = v
            /\ [s EXCEPT !.todo = v].pc = s.pc /\ [s EXCEPT !.todo = v].counting = s.counting
            /\ [s EXCEPT !.pc = "batch", !.creds = v].todo = s.todo
            /\ [s EXCEPT !.pc = "batch", !.creds = v].pc = "batch"
            /\ [s EXCEPT !.pc = "batch", !.creds = v].counting = s.counting
    BY DEF SweepStates
  <1>0. ASSUME UNCHANGED worker PROVE Live' = Live
    BY <1>0 DEF Live
  <1>u. ASSUME UNCHANGED <<run, sweep, worker>> PROVE FillAddsUp'
    BY <1>u, <1>0 DEF FillAddsUp, Open
  <1>1. CASE (SettingsStep /\ Aside) \/ StartCopies \/ StartRefused \/ Tick \/ UNCHANGED vars
    <2>1. UNCHANGED <<run, sweep, worker>>
      BY <1>1 DEF Aside, StartCopies, StartRefused, Tick, vars, memory
    <2>2. QED
      BY <2>1, <1>u
  <1>2. CASE StartRun
    BY <1>2, <1>r DEF StartRun, NoRun, Off, FillAddsUp
  <1>3. CASE Cancel
    <2>1. run'.done = run.done /\ run'.total = run.total /\ run'.canceled = TRUE /\ UNCHANGED sweep
      BY <1>3, <1>r DEF Cancel, RunStates
    <2>2. Open' = Open
      BY <1>3, <1>0 DEF Cancel, Open
    <2>3. QED
      BY <2>1, <2>2 DEF FillAddsUp
  <1>4. CASE GiveUp \/ Stop
    <2>1. run.done <= run.total
      <3>1. FillIsCounted
        BY FillImplies
      <3>2. QED
        BY <3>1 DEF FillIsCounted
    <2>2. run'.done = run.done /\ run'.total = run.total /\ sweep'.pc = "off"
      <3>1. run' = [run EXCEPT !.running = FALSE, !.canceled = FALSE] /\ sweep' = Off
        BY <1>4 DEF GiveUp, Stop, Finish
      <3>2. QED
        BY <3>1, <1>r DEF Off, RunStates
    <2>3. QED
      BY <2>1, <2>2 DEF FillAddsUp
  <1>5. CASE Prepare
    <2>1. sweep'.pc = "batch" /\ sweep'.todo = sweep.todo /\ sweep'.counting /\ UNCHANGED worker
          /\ sweep.pc = "prepare"
      BY <1>5, <1>r, <1>s DEF Prepare, FillAddsUp
    <2>2. run'.done = 0 /\ run'.total = Cardinality(sweep.todo)
      BY <1>5, <1>r DEF Prepare, FillAddsUp, RunStates
    <2>3. Open' = sweep.todo
      BY <2>1, <1>0 DEF Open, OneSweep
    <2>4. Cardinality(sweep.todo) \in Nat
      BY <1>r, FS_Subset, FS_CardinalityType DEF SweepStates
    <2>5. QED
      BY <2>1, <2>2, <2>3, <2>4 DEF FillAddsUp
  <1>6. CASE \E a \in Accounts : SkipAccount(a)
    <2>1. PICK a \in Accounts : SkipAccount(a)
      BY <1>6
    <2>2. sweep'.pc = "batch" /\ sweep'.counting = sweep.counting /\ sweep'.todo = sweep.todo \ {a}
      BY <2>1, <1>r, <1>s DEF SkipAccount
    <2>3. a \in sweep.todo /\ a \notin Live /\ sweep.pc = "batch" /\ run' = Counted /\ UNCHANGED worker
      BY <2>1 DEF SkipAccount, Separate
    <2>4. Open' = Open \ {a} /\ (sweep.counting => a \in Open)
      BY <2>2, <2>3, <1>0 DEF Open
    <2>5. QED
      BY <2>2, <2>3, <2>4, OneLess
  <1>7. CASE \E a \in Accounts : Launch(a)
    <2>1. PICK a \in Accounts : Launch(a)
      BY <1>7
    <2>2. sweep'.pc = "batch" /\ sweep'.counting = sweep.counting /\ sweep'.todo = sweep.todo \ {a}
          /\ sweep.pc = "batch" /\ a \in sweep.todo /\ UNCHANGED run
      BY <2>1, <1>r, <1>s DEF Launch
    <2>3. worker' = [worker EXCEPT ![a] = [Gone EXCEPT !.pc = "start"]]
      BY <2>1 DEF Launch
    <2>4. worker'[a].pc = "start" /\ \A b \in Accounts \ {a} : worker'[b] = worker[b]
      BY <2>3, <1>r DEF Gone
    <2>5. Live' = Live \cup {a}
      BY <2>4 DEF Live
    <2>6. Open' = Open
      BY <2>2, <2>5 DEF Open
    <2>7. QED
      BY <2>2, <2>6 DEF FillAddsUp
  <1>8. CASE Break
    <2>1. sweep'.pc = "batch" /\ sweep'.counting = sweep.counting /\ sweep'.todo = {}
          /\ sweep.pc = "batch" /\ run.canceled /\ UNCHANGED <<run, worker>>
      BY <1>8, <1>r, <1>s DEF Break
    <2>2. Open' \subseteq Open
      BY <2>1, <1>0 DEF Open
    <2>3. Cardinality(Open') <= Cardinality(Open) /\ Cardinality(Open') \in Nat
      BY <2>2, OpenFinite, FS_Subset, FS_CardinalityType
    <2>4. QED
      BY <2>1, <2>3, <1>r DEF FillAddsUp
  <1>9. CASE BatchEnd
    <2>1. Open = {} /\ Open' = {} /\ sweep'.pc = "renew" /\ ~sweep'.counting /\ sweep.pc = "batch" /\ UNCHANGED run
      BY <1>9 DEF BatchEnd, Off, Open
    <2>2. QED
      BY <2>1 DEF FillAddsUp
  <1>10. CASE Download
    <2>1. sweep'.pc = "batch" /\ sweep'.counting = sweep.counting /\ sweep.pc = "download" /\ UNCHANGED run
      BY <1>10, <1>r, <1>s DEF Download
    <2>2. Open = {} /\ Open' = {}
      BY <2>1 DEF Open, FillAddsUp
    <2>3. QED
      BY <2>1, <2>2 DEF FillAddsUp
  <1>11. CASE RenewTick
    <2>1. sweep'.pc = "download" /\ ~sweep'.counting /\ sweep.pc = "renew" /\ UNCHANGED run
      BY <1>11 DEF RenewTick, Off
    <2>2. Open = {} /\ Open' = {}
      BY <2>1 DEF Open, FillAddsUp
    <2>3. QED
      BY <2>1, <2>2 DEF FillAddsUp
  <1>12. CASE \E a \in Accounts : WorkerStep(a)
    <2>1. PICK a \in Accounts : WorkerStep(a)
      BY <1>12
    <2>2. PICK w \in WorkerStates : /\ worker' = [worker EXCEPT ![a] = w]
                                    /\ GoesOn(a, w) \/ IsThrough(a, w)
      BY <2>1, WorkerShape
    <2>3. worker[a].pc # "gone" /\ UNCHANGED sweep
      BY <2>1, WorkerShape
    <2>4. worker'[a] = w /\ \A b \in Accounts \ {a} : worker'[b] = worker[b]
      BY <2>2, <1>r
    <2>5. a \in Live /\ a \notin sweep.todo /\ sweep.pc = "batch"
      BY <2>3 DEF Live, Separate, OneSweep
    <2>6. ASSUME GoesOn(a, w) PROVE FillAddsUp'
      <3>1. Live' = Live
        BY <2>4, <2>5, <2>6 DEF Live, GoesOn, Harvesting
      <3>2. Open' = Open /\ UNCHANGED run
        BY <3>1, <2>3, <2>6 DEF Open, GoesOn
      <3>3. QED
        BY <3>2, <2>3 DEF FillAddsUp
    <2>7. ASSUME IsThrough(a, w) PROVE FillAddsUp'
      <3>1. Live' = Live \ {a}
        BY <2>4, <2>5, <2>7 DEF Live, IsThrough, Gone
      <3>2. Open' = Open \ {a} /\ (sweep.counting => a \in Open)
        BY <3>1, <2>3, <2>5 DEF Open
      <3>3. run' = Counted \/ (run.canceled /\ run' = run)
        BY <2>7 DEF IsThrough
      <3>4. QED
        BY <3>2, <3>3, <2>3, <2>5, OneLess
    <2>8. QED
      BY <2>2, <2>6, <2>7
  <1>13. CASE NewProcess
    BY <1>13 DEF NewProcess, NoRun, Off, FillAddsUp
  <1>14. QED
    BY <1>1, <1>2, <1>3, <1>4, <1>5, <1>6, <1>7, <1>8, <1>9, <1>10, <1>11, <1>12, <1>13, StepsOfNext
    DEF RunStep, SweepStep

-----------------------------------------------------------------------------
(* The invariant, and what follows from it. *)

IInv == /\ TypeOK /\ OneSweep /\ Separate
        /\ ProbesHaveAStore /\ ReloadUsable
        /\ Rested /\ Resting /\ FillAddsUp

\* A worker leaves the settings alone.
LEMMA WorkerFrame ==
  ASSUME NEW a \in Accounts, WorkerStep(a)
  PROVE  UNCHANGED settingsVars
  BY DEF WorkerStep, Answer, Drop, Decline, Claim, StopWalk, PassExit, Fire, StartRotating, NoRotating,
         RotatingAttempt, RotatingOver, Stored, Limited, TryNext

LEMMA UsableStep ==
  ASSUME TypeOK, ProbesHaveAStore, ReloadUsable, [Next]_vars
  PROVE  ProbesHaveAStore' /\ ReloadUsable'
  <1>t. SettingsTypeOK
    BY DEF TypeOK
  <1>1. CASE SettingsStep
    BY <1>1, <1>t, SettingsUsable
  <1>2. CASE UNCHANGED settingsVars
    BY <1>2 DEF settingsVars, ProbesHaveAStore, ReloadUsable
  <1>3. CASE NewProcess
    <2>1. Restart
      BY <1>3 DEF NewProcess
    <2>2. reload' = Idle
      BY <2>1 DEF Restart
    <2>3. QED
      BY <2>1, <2>2, <1>t, RestartType DEF ReloadUsable, Idle
  <1>4. UNCHANGED settingsVars \/ SettingsStep \/ NewProcess
    BY StepsOfNext, RunStepFrame, WorkerFrame DEF Tick, vars
  <1>5. QED
    BY <1>1, <1>2, <1>3, <1>4

LEMMA InitIInv == Init => IInv
  <1> SUFFICES ASSUME Init PROVE IInv
    OBVIOUS
  <1>1. TypeOK
    BY InitType
  <1>2. Live = {} /\ Cardinality(Live) = 0 /\ \A a \in Accounts : ~Harvesting(worker[a].pc)
    BY FS_EmptySet DEF Init, MemoryInit, Live, Gone, Harvesting
  <1>3. OneSweep /\ Separate
    BY <1>2 DEF Init, MemoryInit, OneSweep, Separate, NoRun, Off
  <1>4. ProbesHaveAStore /\ ReloadUsable
    BY SettingsInitType DEF Init, SettingsInit, ReloadUsable, Idle
  <1>5. Rested /\ Resting
    BY <1>2 DEF Init, MemoryInit, Rested, Resting
  <1>6. FillAddsUp
    BY DEF Init, MemoryInit, FillAddsUp, NoRun, Off
  <1>7. QED
    BY <1>1, <1>3, <1>4, <1>5, <1>6 DEF IInv

LEMMA IInvStep == IInv /\ [Next]_vars => IInv'
  BY TypeStep, OneSweepStep, SeparateStep, UsableStep, RestedStep, RestingStep, FillStep DEF IInv

LEMMA Invariance == Spec => []IInv
  BY InitIInv, IInvStep, PTL DEF Spec

\* Every variable has its type.
THEOREM TypeCorrect == Spec => []TypeOK
  <1>1. IInv => TypeOK
    BY DEF IInv
  <1>2. QED
    BY <1>1, Invariance, PTL

\* Whatever requests, reconfigurations and restarts come together, the probe role
\* is never in force without a directory.
THEOREM ProbesAlwaysHaveAStore == Spec => []ProbesHaveAStore
  <1>1. IInv => ProbesHaveAStore
    BY DEF IInv
  <1>2. QED
    BY <1>1, Invariance, PTL

\* However runs are started, stopped and started again: a run that is reported
\* as over has left no sweep, no worker and no claim, and no run has more than
\* MaxInFlight workers.
THEOREM RunsDoNotOverlap == Spec => []OneSweep
  <1>1. IInv => OneSweep
    BY DEF IInv
  <1>2. QED
    BY <1>1, Invariance, PTL

\* The progress of a fill counts every target exactly once.
THEOREM FillCounts == Spec => []FillIsCounted
  <1>1. IInv => FillIsCounted
    BY FillImplies DEF IInv
  <1>2. QED
    BY <1>1, Invariance, PTL

\* An account that was limited is left alone until its rest is over.
THEOREM LimitedAccountsAreLeftAlone == Spec => LimitedAccountsRest
  <1>1. IInv /\ [Next]_vars => [\A a \in Accounts :
          worker[a].pc \in {"walk", "rotate"} /\ worker'[a].pc \in {"fly", "rotfly"}
          => now > backoff[a]]_vars
    BY DEF IInv, Rested, Harvesting
  <1>2. QED
    BY <1>1, Invariance, PTL DEF Spec, LimitedAccountsRest

\* A worker that uses an exit has found its rest over.
LEMMA UsesReady ==
  ASSUME TypeOK, OneSweep, Next, NEW a \in Accounts, NEW x \in Keys, Uses(a, x)
  PROVE  ExitReady(a, x)
  <1>t. worker \in [Accounts -> WorkerStates] /\ worker[a] \in WorkerStates
    BY DEF TypeOK
  <1>u. worker[a].pc = "walk" /\ worker'[a].pc \in {"fly", "rotate"}
    BY DEF Uses
  <1>1. CASE UNCHANGED worker
    BY <1>1, <1>u
  <1>2. CASE RunStep
    <2>1. worker'[a] = worker[a] \/ worker'[a].pc = "start"
      BY <1>2, <1>t DEF RunStep, StartCopies, StartRun, StartRefused, Cancel, SweepStep, RenewTick, GiveUp,
           Prepare, Break, BatchEnd, Download, Stop, SkipAccount, Launch, Gone
    <2>2. QED
      BY <2>1, <1>u
  <1>3. CASE NewProcess
    BY <1>3, <1>u DEF NewProcess, Gone
  <1>4. CASE \E b \in Accounts : WorkerStep(b)
    <2>1. PICK b \in Accounts : WorkerStep(b)
      BY <1>4
    <2>2. b = a
      <3>1. \E w : worker' = [worker EXCEPT ![b] = w]
        BY <2>1, WorkerShape
      <3>2. QED
        BY <3>1, <1>t, <1>u
    <2>3. WorkerStep(a)
      BY <2>1, <2>2
    <2>4. \/ \E y \in Exits : Fire(a, y)
          \/ StartRotating(a)
      <3>1. ~Drop(a) /\ ~Claim(a) /\ ~Decline(a)
        BY <1>u DEF Drop, Claim, Decline
      <3>2. ~RotatingAttempt(a) /\ ~RotatingOver(a) /\ ~Stored(a) /\ ~Limited(a) /\ ~TryNext(a)
        BY <1>u DEF RotatingAttempt, RotatingOver, Stored, Limited, TryNext, InFlight
      <3>3. ~StopWalk(a) /\ ~NoRotating(a)
        BY <1>u, <1>t DEF StopWalk, NoRotating, Leave, Gone
      <3>4. \A y \in Exits : ~PassExit(a, y)
        <4>1. \A y : [worker[a] EXCEPT !.left = @ \ {y}].pc = worker[a].pc
          BY <1>t DEF WorkerStates
        <4>2. QED
          BY <4>1, <1>u, <1>t DEF PassExit
      <3>5. QED
        BY <2>3, <3>1, <3>2, <3>3, <3>4 DEF WorkerStep, Answer
    <2>5. CASE \E y \in Exits : Fire(a, y)
      <3>1. PICK y \in Exits : Fire(a, y)
        BY <2>5
      <3>2. worker'[a].pc = "fly" /\ worker'[a].exit = y
        BY <3>1, <1>t DEF Fire, WorkerStates
      <3>3. x = y
        BY <3>2 DEF Uses
      <3>4. QED
        BY <3>1, <3>3 DEF Fire
    <2>6. CASE StartRotating(a)
      <3>1. worker'[a].pc = "rotate"
        BY <2>6, <1>t DEF StartRotating, Moves, WorkerStates
      <3>2. x = Rotating
        BY <3>1 DEF Uses
      <3>3. QED
        BY <2>6, <3>2 DEF StartRotating
    <2>7. QED
      BY <2>4, <2>5, <2>6
  <1>5. QED
    BY <1>1, <1>2, <1>3, <1>4, StepsOfNext DEF Aside, Tick, memory

\* An exit is not used again for an account before the shorter of its rests has
\* passed, over stopped runs, new runs and renewals.
THEOREM ExitsRest == Spec => ExitsAreSpared
  <1>1. IInv /\ [Next]_vars => [\A a \in Accounts, x \in Keys :
          Uses(a, x) => lastFire[a][x] = Never \/ now >= lastFire[a][x] + LeastRest(x)]_vars
    <2>1. SUFFICES ASSUME IInv, Next, NEW a \in Accounts, NEW x \in Keys, Uses(a, x), lastFire[a][x] # Never
                   PROVE  now >= lastFire[a][x] + LeastRest(x)
      OBVIOUS
    <2>2. now >= restUntil[a][x]
      BY <2>1, UsesReady DEF IInv, ExitReady
    <2>3. restUntil[a][x] >= lastFire[a][x] + LeastRest(x)
      BY <2>1 DEF IInv, Resting
    <2>4. now \in Nat /\ restUntil[a][x] \in Nat /\ lastFire[a][x] \in Nat /\ LeastRest(x) \in Nat
      BY <2>1, LeastRestBounds DEF IInv, TypeOK
    <2>5. QED
      BY <2>2, <2>3, <2>4
  <1>2. QED
    BY <1>1, Invariance, PTL DEF Spec, ExitsAreSpared

-----------------------------------------------------------------------------
(* The probe keeps to its switch. *)

LEMMA SwitchInit == Init => Switch!Init
  BY DEF Init, MemoryInit, Switch!Init, Stage, Flying, InFlight, NoRun, Gone

\* What the switch shows is read off these four variables.
LEMMA SwitchFrame ==
  ASSUME UNCHANGED <<worker, claims>>, run'.running = run.running, run'.canceled = run.canceled
  PROVE  UNCHANGED Switch!probe
  BY DEF Switch!probe, Stage, Flying, InFlight

\* A worker without a run asked for, or with one, moves within its stage.
LEMMA WorkerStage ==
  ASSUME TypeOK, OneSweep, NEW a \in Accounts, WorkerStep(a)
  PROVE  /\ Stage' = Stage
         /\ Stage = "running" <=> ~run.canceled
         /\ \E w \in WorkerStates :
               /\ worker' = [worker EXCEPT ![a] = w]
               /\ GoesOn(a, w) \/ IsThrough(a, w)
               /\ worker'[a] = w /\ \A b \in Accounts \ {a} : worker'[b] = worker[b]
  <1>1. PICK w \in WorkerStates : /\ worker' = [worker EXCEPT ![a] = w]
                                  /\ GoesOn(a, w) \/ IsThrough(a, w)
    BY WorkerShape
  <1>2. worker'[a] = w /\ \A b \in Accounts \ {a} : worker'[b] = worker[b]
    BY <1>1 DEF TypeOK
  <1>3. run'.running = run.running /\ run'.canceled = run.canceled
    BY <1>1, CountedType DEF GoesOn, IsThrough
  <1>4. a \in Live
    BY WorkerShape DEF Live
  <1>5. run.running
    BY <1>4 DEF OneSweep
  <1>6. QED
    BY <1>1, <1>2, <1>3, <1>5 DEF Stage

\* An account that is taken up is one more, within the limit.
LEMMA RoomForAnother ==
  ASSUME OneSweep, NEW a \in Accounts, worker[a].pc = "start"
  PROVE  a \notin claims /\ Cardinality(claims) < MaxInFlight
  <1>1. claims \subseteq Live \ {a} /\ a \in Live
    BY DEF OneSweep, Live, Harvesting
  <1>2. IsFiniteSet(Live) /\ IsFiniteSet(Live \ {a}) /\ Cardinality(Live) \in Nat
    BY LiveFinite, FS_Subset
  <1>3. Cardinality(Live \ {a}) = Cardinality(Live) - 1
    BY <1>1, <1>2, FS_RemoveElement
  <1>4. Cardinality(claims) <= Cardinality(Live \ {a}) /\ Cardinality(claims) \in Nat
    BY <1>1, <1>2, FS_Subset, FS_CardinalityType
  <1>5. QED
    BY <1>1, <1>2, <1>3, <1>4 DEF OneSweep

\* Each step of a worker is a step of the switch, or none.
LEMMA WorkerSwitch ==
  ASSUME TypeOK, OneSweep, NEW a \in Accounts, WorkerStep(a)
  PROVE  Switch!Next \/ UNCHANGED Switch!probe
  <1>1. PICK w \in WorkerStates :
               /\ worker' = [worker EXCEPT ![a] = w]
               /\ GoesOn(a, w) \/ IsThrough(a, w)
               /\ worker'[a] = w /\ \A b \in Accounts \ {a} : worker'[b] = worker[b]
    BY WorkerStage
  <1>2. Stage' = Stage /\ (Stage = "running" <=> ~run.canceled)
    BY WorkerStage
  <1>3. /\ a \in claims <=> Harvesting(worker[a].pc)
        /\ a \in Flying <=> worker[a].pc \in {"fly", "rotfly"}
        /\ Flying \subseteq claims
    BY DEF OneSweep, Flying, InFlight, Harvesting
  <1>4. Flying' = (Flying \ {a}) \cup {b \in {a} : w.pc \in {"fly", "rotfly"}}
    BY <1>1 DEF Flying, InFlight
  <1>5. CASE IsThrough(a, w)
    <2>1. claims' = claims \ {a} /\ Flying' = Flying \ {a}
      BY <1>4, <1>5 DEF IsThrough, Gone
    <2>2. CASE a \notin claims
      <3>1. claims' = claims /\ Flying' = Flying
        BY <1>3, <2>1, <2>2
      <3>2. QED
        BY <1>2, <3>1 DEF Switch!probe
    <2>3. CASE a \in Flying
      <3>1. Switch!Answer(a)
        BY <1>2, <2>1, <2>3 DEF Switch!Answer
      <3>2. QED
        BY <3>1 DEF Switch!Next
    <2>4. CASE a \in claims \ Flying
      <3>1. Switch!Leave(a)
        BY <1>2, <2>1, <2>4 DEF Switch!Leave
      <3>2. QED
        BY <3>1 DEF Switch!Next
    <2>5. QED
      BY <2>2, <2>3, <2>4
  <1>6. CASE GoesOn(a, w)
    <2>1. Harvesting(w.pc) /\ claims' = claims \cup {a}
      BY <1>6 DEF GoesOn
    <2>2. CASE worker[a].pc = "start"
      <3>1. ~run.canceled /\ w.pc = "walk"
        BY <1>1, <2>1, <2>2 DEF WorkerStep, Answer, Drop, Decline, Claim, StopWalk, PassExit, Fire,
           StartRotating, NoRotating, RotatingAttempt, RotatingOver, Stored, Limited, TryNext, InFlight,
           Harvesting, Gone, TypeOK, WorkerStates
      <3>2. Flying' = Flying
        BY <1>3, <1>4, <2>2, <3>1
      <3>3. a \notin claims /\ Cardinality(claims) < MaxInFlight
        BY <2>2, RoomForAnother
      <3>4. Switch!Cardinality(claims) = Cardinality(claims)
        BY Zenon DEF Switch!Cardinality, Cardinality
      <3>5. Switch!TakeUp(a)
        BY <1>2, <2>1, <3>1, <3>2, <3>3, <3>4 DEF Switch!TakeUp
      <3>6. QED
        BY <3>5 DEF Switch!Next
    <2>3. CASE worker[a].pc \in {"walk", "rotate"}
      <3>1. claims' = claims /\ a \in claims \ Flying
        BY <1>3, <2>1, <2>3 DEF Harvesting
      <3>2. CASE w.pc \in {"fly", "rotfly"}
        <4>1. ~run.canceled
          <5>1. SUFFICES ASSUME run.canceled PROVE FALSE
            OBVIOUS
          <5>2. StopWalk(a) \/ StartRotating(a) \/ NoRotating(a) \/ RotatingOver(a)
            BY <2>3, <5>1 DEF WorkerStep, Answer, Drop, Decline, Claim, PassExit, Fire, RotatingAttempt,
               Stored, Limited, TryNext, InFlight
          <5>3. worker' = [worker EXCEPT ![a] = Gone] \/ worker' = [worker EXCEPT ![a].pc = "rotate"]
            BY <5>2 DEF StopWalk, StartRotating, NoRotating, RotatingOver, Leave, Moves
          <5>4. worker'[a].pc \in {"gone", "rotate"}
            BY <5>3 DEF Gone, TypeOK, WorkerStates
          <5>5. QED
            BY <1>1, <3>2, <5>4
        <4>2. Switch!Fire(a)
          BY <1>2, <1>4, <3>1, <3>2, <4>1 DEF Switch!Fire
        <4>3. QED
          BY <4>2 DEF Switch!Next
      <3>3. CASE w.pc \notin {"fly", "rotfly"}
        <4>1. Flying' = Flying
          BY <1>4, <3>1, <3>3
        <4>2. QED
          BY <1>2, <3>1, <4>1 DEF Switch!probe
      <3>4. QED
        BY <3>2, <3>3
    <2>4. CASE worker[a].pc \in {"fly", "rotfly"}
      <3>1. w.pc \notin {"fly", "rotfly"}
        <4>1. Stored(a) \/ Limited(a) \/ TryNext(a)
          BY <2>4 DEF WorkerStep, Answer, Drop, Decline, Claim, StopWalk, PassExit, Fire,
             StartRotating, NoRotating, RotatingAttempt, RotatingOver
        <4>2. \/ worker' = [worker EXCEPT ![a] = Gone]
              \/ \E pc \in {"walk", "rotate"} : worker' = [worker EXCEPT ![a].pc = pc]
          BY <4>1 DEF Stored, Limited, TryNext, Leave, Moves
        <4>3. worker'[a].pc \in {"gone", "walk", "rotate"}
          BY <4>2 DEF Gone, TypeOK, WorkerStates
        <4>4. QED
          BY <1>1, <4>3
      <3>2. claims' = claims /\ a \in Flying /\ Flying' = Flying \ {a}
        BY <1>3, <1>4, <2>1, <2>4, <3>1 DEF Harvesting
      <3>3. Switch!Answer(a)
        BY <1>2, <3>2 DEF Switch!Answer
      <3>4. QED
        BY <3>3 DEF Switch!Next
    <2>5. QED
      BY <2>2, <2>3, <2>4, WorkerShape DEF TypeOK, WorkerStates
  <1>7. QED
    BY <1>1, <1>5, <1>6

\* The sweep, and the requests that start and stop a run.
LEMMA RunSwitch ==
  ASSUME TypeOK, OneSweep, Separate, RunStep
  PROVE  Switch!Next \/ UNCHANGED Switch!probe
  <1>f. UNCHANGED claims
    BY RunStepFrame
  <1>r. run \in RunStates /\ worker \in [Accounts -> WorkerStates]
    BY DEF TypeOK
  <1>1. CASE StartCopies \/ StartRefused \/ RenewTick \/ Break \/ BatchEnd \/ Download
    BY <1>1, <1>f, SwitchFrame DEF StartCopies, StartRefused, RenewTick, Break, BatchEnd, Download
  <1>2. CASE StartRun
    <2>1. Stage = "idle" /\ Stage' = "running" /\ UNCHANGED worker
      BY <1>2 DEF StartRun, Stage, NoRun
    <2>2. Switch!Start
      BY <1>f, <2>1 DEF Switch!Start, Flying, InFlight
    <2>3. QED
      BY <2>2 DEF Switch!Next
  <1>3. CASE Cancel
    <2>1. run.running /\ run'.running /\ run'.canceled /\ UNCHANGED worker
      BY <1>3, <1>r DEF Cancel, RunStates
    <2>2. CASE run.canceled
      BY <1>f, <1>r, <2>1, <2>2 DEF Switch!probe, Stage, Flying, InFlight
    <2>3. CASE ~run.canceled
      <3>1. Switch!AskToStop
        BY <1>f, <2>1, <2>3 DEF Switch!AskToStop, Stage, Flying, InFlight
      <3>2. QED
        BY <3>1 DEF Switch!Next
    <2>4. QED
      BY <2>2, <2>3
  <1>4. CASE GiveUp \/ Stop
    <2>1. ~run'.running /\ UNCHANGED worker /\ sweep.pc \in {"prepare", "renew"}
      BY <1>4, <1>r DEF GiveUp, Stop, Finish, RunStates
    <2>2. run.running /\ Live = {}
      BY <2>1 DEF OneSweep
    <2>3. claims = {}
      BY <2>2 DEF OneSweep, Live, Harvesting
    <2>4. Switch!End
      BY <1>f, <2>1, <2>2, <2>3 DEF Switch!End, Stage, Flying, InFlight
    <2>5. QED
      BY <2>4 DEF Switch!Next
  <1>5. CASE Prepare
    <2>1. run'.running = run.running /\ run'.canceled = run.canceled /\ UNCHANGED worker
      BY <1>5, <1>r DEF Prepare, RunStates
    <2>2. QED
      BY <1>f, <2>1, SwitchFrame
  <1>6. CASE \E a \in Accounts : SkipAccount(a)
    <2>1. run' = Counted /\ UNCHANGED worker
      BY <1>6 DEF SkipAccount
    <2>2. QED
      BY <1>f, <2>1, CountedType, SwitchFrame
  <1>7. CASE \E a \in Accounts : Launch(a)
    <2>1. PICK a \in Accounts : Launch(a)
      BY <1>7
    <2>2. a \notin Live
      BY <2>1 DEF Launch, Separate
    <2>3. /\ worker[a].pc = "gone" /\ worker'[a].pc = "start"
          /\ \A b \in Accounts \ {a} : worker'[b] = worker[b]
      BY <1>r, <2>1, <2>2 DEF Launch, Live, Gone
    <2>4. Flying' = Flying
      BY <2>3 DEF Flying, InFlight
    <2>5. Stage' = Stage
      BY <2>1 DEF Launch, Stage
    <2>6. QED
      BY <1>f, <2>4, <2>5 DEF Switch!probe
  <1>8. QED
    BY <1>1, <1>2, <1>3, <1>4, <1>5, <1>6, <1>7 DEF RunStep, SweepStep

LEMMA SwitchStep == IInv /\ [Next]_vars => [Switch!Next]_Switch!probe
  <1> SUFFICES ASSUME IInv, [Next]_vars PROVE Switch!Next \/ UNCHANGED Switch!probe
    OBVIOUS
  <1>i. TypeOK /\ OneSweep /\ Separate
    BY DEF IInv
  <1>1. CASE UNCHANGED <<run, worker, claims>>
    BY <1>1, SwitchFrame
  <1>2. CASE RunStep
    BY <1>i, <1>2, RunSwitch
  <1>3. CASE \E a \in Accounts : WorkerStep(a)
    BY <1>i, <1>3, WorkerSwitch
  <1>4. CASE NewProcess
    <2>1. Stage' = "idle" /\ claims' = {} /\ Flying' = {}
      BY <1>4 DEF NewProcess, Stage, Flying, InFlight, NoRun, Gone
    <2>2. Switch!Vanish
      BY <2>1 DEF Switch!Vanish
    <2>3. QED
      BY <2>2 DEF Switch!Next
  <1>5. QED
    BY <1>1, <1>2, <1>3, <1>4, StepsOfNext DEF Aside, Tick, memory, vars

\* Every behaviour of the runner is one of the switch: however many starts, stops,
\* renewals and restarts there are, nothing is taken up or fired out of a run or
\* after its stop, and a run ends with nothing of it left.
THEOREM ImplementsSwitch == Spec => KeepsSwitch
  BY SwitchInit, SwitchStep, Invariance, PTL DEF Spec, KeepsSwitch, Switch!Spec

-----------------------------------------------------------------------------
(***************************************************************************)
(* Why a stop ends: the variant behind StopEnds.                           *)
(*                                                                         *)
(* Every step that a worker or the sweep of a stopped run takes brings it  *)
(* nearer to its end, and no other step takes it back.                     *)
(***************************************************************************)

Stopped == run.running /\ run.canceled

\* How far a worker is from being gone, and the sweep from its end.
WorkerRank(w) == CASE w.pc = "gone" -> 0
                   [] w.pc \in {"start", "rotate"} -> 1
                   [] w.pc = "rotfly" -> 2
                   [] w.pc = "walk" -> 3
                   [] OTHER -> 4
SweepRank(s) == CASE s.pc = "off" -> 0
                  [] s.pc = "renew" -> 1
                  [] s.pc = "batch" -> 2
                  [] OTHER -> 3

\* The sweep is in a later part of its work, or has fewer accounts to go.
Nearer ==
    \/ SweepRank(sweep') < SweepRank(sweep)
    \/ /\ SweepRank(sweep') = SweepRank(sweep)
       /\ sweep'.todo \subseteq sweep.todo /\ sweep'.todo # sweep.todo

WindsDown ==
    Stopped =>
        /\ run'.running => run'.canceled
        /\ \A a \in Accounts : WorkerRank(worker'[a]) <= WorkerRank(worker[a])
        /\ \A a \in Accounts : WorkerStep(a) => WorkerRank(worker'[a]) < WorkerRank(worker[a])
        /\ sweep' = sweep \/ Nearer
        /\ SweepStep => Nearer

LEMMA WorkerRanks ==
  ASSUME NEW w
  PROVE  /\ WorkerRank(w) \in 0..4 /\ (WorkerRank(w) = 0 <=> w.pc = "gone")
         /\ w.pc \in {"start", "rotate"} => WorkerRank(w) = 1
         /\ w.pc = "rotfly" => WorkerRank(w) = 2
         /\ w.pc = "walk" => WorkerRank(w) = 3
         /\ w.pc = "fly" => WorkerRank(w) = 4
  BY DEF WorkerRank

LEMMA SweepRanks ==
  ASSUME NEW s
  PROVE  /\ s.pc = "off" => SweepRank(s) = 0
         /\ s.pc = "renew" => SweepRank(s) = 1
         /\ s.pc = "batch" => SweepRank(s) = 2
         /\ s.pc \in {"prepare", "download"} => SweepRank(s) = 3
  BY DEF SweepRank

\* A worker of a stopped run answers, leaves, or passes to the rotating list to leave there.
LEMMA WorkerWindsDown ==
  ASSUME TypeOK, OneSweep, run.canceled, NEW a \in Accounts, WorkerStep(a)
  PROVE  /\ WorkerRank(worker'[a]) < WorkerRank(worker[a])
         /\ \A b \in Accounts \ {a} : worker'[b] = worker[b]
         /\ run'.canceled /\ sweep' = sweep /\ worker' # worker
  <1>t. worker \in [Accounts -> WorkerStates] /\ worker[a] \in WorkerStates
    BY DEF TypeOK
  <1>1. /\ sweep' = sweep /\ run'.canceled /\ worker[a].pc # "gone"
        /\ \A b \in Accounts \ {a} : worker'[b] = worker[b]
    BY WorkerStage, WorkerShape, CountedType DEF GoesOn, IsThrough
  <1>2. CASE worker' = [worker EXCEPT ![a] = Gone]
    <2>1. worker'[a].pc = "gone"
      BY <1>t, <1>2 DEF Gone
    <2>2. WorkerRank(worker'[a]) = 0 /\ WorkerRank(worker[a]) # 0
      BY <1>1, <2>1, WorkerRanks
    <2>3. WorkerRank(worker[a]) \in 0..4
      BY WorkerRanks
    <2>4. QED
      BY <1>1, <2>1, <2>2, <2>3
  <1>3. CASE worker' # [worker EXCEPT ![a] = Gone]
    <2>1. StartRotating(a) \/ TryNext(a)
      BY <1>1, <1>3 DEF WorkerStep, Answer, Drop, Decline, Claim, StopWalk, PassExit, Fire, NoRotating,
         RotatingAttempt, RotatingOver, Stored, Limited, Leave
    <2>2. \/ worker[a].pc = "walk" /\ worker' = [worker EXCEPT ![a].pc = "rotate"]
          \/ worker[a].pc = "fly" /\ worker' = [worker EXCEPT ![a].pc = "walk"]
          \/ worker[a].pc = "rotfly" /\ worker' = [worker EXCEPT ![a].pc = "rotate"]
      BY <2>1 DEF StartRotating, TryNext, Moves, InFlight
    <2>3. \/ worker[a].pc = "walk" /\ worker'[a].pc = "rotate"
          \/ worker[a].pc = "fly" /\ worker'[a].pc = "walk"
          \/ worker[a].pc = "rotfly" /\ worker'[a].pc = "rotate"
      BY <1>t, <2>2 DEF WorkerStates
    <2>4. WorkerRank(worker'[a]) < WorkerRank(worker[a])
      BY <2>3, WorkerRanks
    <2>5. QED
      BY <1>1, <2>3, <2>4
  <1>4. QED
    BY <1>2, <1>3

\* The sweep of a stopped run starts no worker and comes to its end.
LEMMA SweepWindsDown ==
  ASSUME TypeOK, OneSweep, run.canceled, SweepStep
  PROVE  Nearer /\ worker' = worker /\ (run'.running => run'.canceled)
  <1>t. run \in RunStates /\ sweep \in SweepStates
    BY DEF TypeOK
  <1>1. CASE GiveUp \/ Stop
    <2>1. sweep.pc \in {"prepare", "renew"} /\ sweep' = Off /\ worker' = worker /\ ~run'.running
      BY <1>1, <1>t DEF GiveUp, Stop, Finish, RunStates
    <2>2. SweepRank(sweep') = 0 /\ SweepRank(sweep) \in {1, 3}
      BY <2>1, SweepRanks DEF Off
    <2>3. QED
      BY <2>1, <2>2 DEF Nearer
  <1>2. CASE Prepare \/ Download
    <2>1. sweep.pc \in {"prepare", "download"} /\ sweep'.pc = "batch" /\ worker' = worker /\ run'.canceled
      BY <1>2, <1>t DEF Prepare, Download, SweepStates, RunStates
    <2>2. SweepRank(sweep') = 2 /\ SweepRank(sweep) = 3
      BY <2>1, SweepRanks
    <2>3. QED
      BY <2>1, <2>2 DEF Nearer
  <1>3. CASE BatchEnd
    <2>1. sweep.pc = "batch" /\ sweep'.pc = "renew" /\ worker' = worker /\ run' = run
      BY <1>3 DEF BatchEnd, Off
    <2>2. SweepRank(sweep') = 1 /\ SweepRank(sweep) = 2
      BY <2>1, SweepRanks
    <2>3. QED
      BY <2>1, <2>2 DEF Nearer
  <1>4. CASE Break \/ \E a \in Accounts : SkipAccount(a)
    <2>1. /\ sweep.pc = "batch" /\ sweep'.pc = "batch"
          /\ sweep'.todo \subseteq sweep.todo /\ sweep'.todo # sweep.todo
          /\ worker' = worker /\ run'.canceled
      <3>1. CASE Break
        BY <3>1, <1>t DEF Break, SweepStates
      <3>2. CASE \E a \in Accounts : SkipAccount(a)
        <4>1. PICK a \in Accounts : SkipAccount(a)
          BY <3>2
        <4>2. a \in sweep.todo /\ sweep'.todo = sweep.todo \ {a} /\ sweep'.pc = sweep.pc
          BY <4>1, <1>t DEF SkipAccount, SweepStates
        <4>3. worker' = worker /\ run'.canceled /\ sweep.pc = "batch"
          BY <4>1, CountedType DEF SkipAccount
        <4>4. QED
          BY <4>2, <4>3
      <3>3. QED
        BY <1>4, <3>1, <3>2
    <2>2. SweepRank(sweep') = SweepRank(sweep)
      BY <2>1, SweepRanks
    <2>3. QED
      BY <2>1, <2>2 DEF Nearer
  <1>5. ASSUME NEW a \in Accounts, Launch(a) PROVE FALSE
    BY <1>5 DEF Launch
  <1>6. QED
    BY <1>1, <1>2, <1>3, <1>4, <1>5 DEF SweepStep

\* A run that was asked to stop cannot be asked back, takes no step twice, and
\* is not kept up by renewals, changes of the settings or another start: the
\* part of StopEnds that needs no fairness, for any number of accounts and exits.
THEOREM StopsWindDown == Spec => [][WindsDown]_vars
  <1>1. ASSUME IInv, Next, Stopped PROVE WindsDown
    <2>i. TypeOK /\ OneSweep
      BY <1>1 DEF IInv
    <2>r. \A a \in Accounts : WorkerRank(worker[a]) \in 0..4 /\ WorkerRank(worker'[a]) \in 0..4
      BY WorkerRanks
    <2>1. CASE \E a \in Accounts : WorkerStep(a)
      <3>1. PICK a \in Accounts : WorkerStep(a)
        BY <2>1
      <3>2. /\ WorkerRank(worker'[a]) < WorkerRank(worker[a])
            /\ \A b \in Accounts \ {a} : worker'[b] = worker[b]
            /\ run'.canceled /\ sweep' = sweep /\ worker' # worker
        BY <1>1, <2>i, <3>1, WorkerWindsDown DEF Stopped
      <3>3. \A b \in Accounts : WorkerStep(b) => WorkerRank(worker'[b]) < WorkerRank(worker[b])
        BY <1>1, <2>i, WorkerWindsDown DEF Stopped
      <3>4. ~SweepStep
        BY <1>1, <2>i, <3>2, SweepWindsDown DEF Stopped
      <3>5. \A b \in Accounts : WorkerRank(worker'[b]) <= WorkerRank(worker[b])
        BY <2>r, <3>2
      <3>6. QED
        BY <3>2, <3>3, <3>4, <3>5 DEF WindsDown
    <2>2. CASE ~\E a \in Accounts : WorkerStep(a)
      <3>1. ASSUME worker' = worker PROVE \A b \in Accounts : WorkerRank(worker'[b]) <= WorkerRank(worker[b])
        BY <2>r, <3>1
      <3>2. CASE SweepStep
        BY <1>1, <2>2, <2>i, <3>1, <3>2, SweepWindsDown DEF Stopped, WindsDown
      <3>3. CASE NewProcess
        <4>1. /\ worker' = [a \in Accounts |-> Gone] /\ sweep' = Off /\ ~run'.running
          BY <3>3 DEF NewProcess, NoRun
        <4>2. \A a \in Accounts : WorkerRank(worker'[a]) = 0
          BY <4>1, WorkerRanks DEF Gone
        <4>3. SweepRank(sweep') = 0 /\ SweepRank(sweep) \in {1, 2, 3}
          BY <1>1, <2>i, <4>1, SweepRanks DEF Off, OneSweep, Stopped, TypeOK, SweepStates
        <4>4. QED
          BY <2>r, <2>2, <4>1, <4>2, <4>3 DEF WindsDown, Nearer
      <3>4. CASE ~SweepStep /\ ~NewProcess
        <4>1. UNCHANGED <<worker, sweep>> /\ (run'.running => run'.canceled)
          <5>1. CASE StartCopies \/ StartRefused \/ Tick \/ Aside
            BY <1>1, <5>1 DEF StartCopies, StartRefused, Tick, Aside, memory, Stopped
          <5>2. CASE Cancel
            BY <2>i, <5>2 DEF Cancel, TypeOK, RunStates
          <5>3. ~StartRun /\ ~RenewTick
            BY <1>1 DEF StartRun, RenewTick, Stopped
          <5>4. QED
            BY <1>1, <2>2, <3>4, <5>1, <5>2, <5>3, StepsOfNext DEF RunStep
        <4>2. QED
          BY <2>2, <3>1, <3>4, <4>1 DEF WindsDown
      <3>5. QED
        BY <3>2, <3>3, <3>4
    <2>3. QED
      BY <2>1, <2>2
  <1>2. IInv /\ [Next]_vars => [WindsDown]_vars
    BY <1>1 DEF WindsDown
  <1>3. QED
    BY <1>2, Invariance, PTL DEF Spec

-----------------------------------------------------------------------------
(***************************************************************************)
(* When the settings that were answered as kept are kept.                  *)
(*                                                                         *)
(* A request changes the memory under state.mu and a document without it,  *)
(* and configure reads both documents before it takes the lock.  What the  *)
(* dashboard answered holds as long as these two-step changes do not       *)
(* overlap in the same document or with configure.                         *)
(***************************************************************************)

\* One request at a time per document, and none while configure reads them.
Apart ==
    /\ \A q, r \in Requests :
          handler[q].pc = "override" /\ handler[r].pc = "override" => q = r
    /\ \A q, r \in Requests :
          handler[q].pc \in {"scope", "assign"} /\ handler[r].pc \in {"scope", "assign"} => q = r
    /\ reload # Idle => \A r \in Requests : handler[r] = Idle

\* The document of directory d says what was answered for setting f.
Written(d, f) ==
    IF f \in ListNames THEN scopeFile[d] # NoFile /\ scopeFile[d][f] = asked[f]
    ELSE override[d] # NoFile /\ (IF f = "role" THEN override[d].role ELSE override[d].dry) = asked[f]

\* What was answered as kept is in force, and configure will read it back.
Promises ==
    \A f \in SettingNames :
        asked[f] # Unset => /\ config.dir # NoDir
                            /\ InForce(config, f) = asked[f]
                            /\ Written(config.dir, f)

\* What a request has copied under the lock is still in force, but for what it asks.
CopiedOverride(h) ==
    /\ h.fields \in {{"dry"}, {"role"}}
    /\ h.config.dir = config.dir /\ h.config.role = config.role /\ h.config.dry = config.dry
CopiedScope(h) ==
    /\ h.fields \subseteq ListNames
    /\ h.config.dir = config.dir
    /\ \A l \in ListNames \ h.fields : h.config.scope[l] = config.scope[l]
    /\ h.pc = "assign" => scopeFile[config.dir] = h.config.scope
UnderWay ==
    \A r \in Requests :
        /\ handler[r].pc = "override" => CopiedOverride(handler[r])
        /\ handler[r].pc \in {"scope", "assign"} => CopiedScope(handler[r])
        /\ handler[r].pc # "idle" => \A f \in handler[r].fields : asked[f] = Unset

\* What configure has read so far agrees with what was answered.
Reread ==
    reload.pc # "idle" =>
        /\ reload.config.dir = reload.yaml.dir
        /\ reload.config.dir = config.dir =>
              \A f \in SettingNames :
                  asked[f] # Unset /\ (f \in ListNames => reload.pc = "swap")
                  => InForce(reload.config, f) = asked[f]

Settled == Promises /\ UnderWay /\ Reread

LEMMA InForceIs ==
  ASSUME NEW c
  PROVE  /\ InForce(c, "role") = c.role /\ InForce(c, "dry") = c.dry
         /\ \A l \in ListNames : InForce(c, l) = c.scope[l]
  BY DEF InForce, ListNames

LEMMA NamesOfSettings ==
  /\ "role" \notin ListNames /\ "dry" \notin ListNames
  /\ SettingNames = ListNames \cup {"dry", "role"}
  BY DEF SettingNames, ListNames

LEMMA ReplacedKeeps ==
  ASSUME NEW old \in Scopes, NEW ask \in ScopeAsks, NEW l \in ListNames \ ask.fields
  PROVE  Replaced(old, ask)[l] = old[l]
  BY DEF Replaced, Scopes, ListNames

\* What a request promises it has written when it answers; the rest stays.
LEMMA HandlerRecord ==
  ASSUME SettingsTypeOK, NEW r \in Requests, handler[r].pc # "idle"
  PROVE  /\ handler[r] # Idle /\ handler[r].config \in Configs
         /\ handler[r].config.scope \in Scopes
         /\ handler[r].fields \subseteq SettingNames
  BY DEF SettingsTypeOK, Handlings, Configs, Idle

\* A request of the dashboard keeps clear of configure.
LEMMA NoReload ==
  ASSUME SettingsTypeOK, Apart, Apart', NEW r \in Requests, RequestStep(r)
  PROVE  Reread' /\ reload' = reload
  <1>1. reload' = reload
    BY DEF RequestStep, SetDryRun, SetRole, WriteOverride, WriteFails, CopyScope, WriteScope, AssignScope
  <1>2. handler \in [Requests -> {Idle} \cup Handlings]
    BY DEF SettingsTypeOK
  <1>3. ASSUME NEW pc, NEW fields, NEW c, Begin(r, pc, fields, c), pc # "idle"
        PROVE  handler'[r] # Idle
    BY <1>2, <1>3 DEF Begin, Idle
  <1>4. handler[r] # Idle \/ handler'[r] # Idle
    <2>1. CASE SetDryRun(r) \/ SetRole(r)
      <3>1. \E s \in {"dry", "role"} : Begin(r, "override", {s}, config')
        BY <2>1 DEF SetDryRun, SetRole
      <3>2. QED
        BY <1>3, <3>1
    <2>2. CASE CopyScope(r)
      <3>1. PICK ask \in ScopeAsks :
              Begin(r, "scope", ask.fields, [config EXCEPT !.scope = Replaced(config.scope, ask)])
        BY <2>2 DEF CopyScope
      <3>2. QED
        BY <1>3, <3>1
    <2>3. CASE WriteOverride(r) \/ WriteFails(r) \/ WriteScope(r) \/ AssignScope(r)
      <3>1. handler[r].pc # "idle"
        BY <2>3 DEF WriteOverride, WriteFails, WriteScope, AssignScope
      <3>2. QED
        BY <3>1 DEF Idle
    <2>4. QED
      BY <2>1, <2>2, <2>3 DEF RequestStep
  <1>5. reload = Idle
    BY <1>1, <1>4 DEF Apart
  <1>6. QED
    BY <1>1, <1>5 DEF Reread, Idle

\* The role or dry_run is set, and its old promise is off.
LEMMA SetSettles ==
  ASSUME SettingsTypeOK, Settled, Apart', NEW r \in Requests, SetDryRun(r) \/ SetRole(r)
  PROVE  Promises' /\ UnderWay'
  <1>c. config \in Configs /\ handler \in [Requests -> {Idle} \cup Handlings]
    BY DEF SettingsTypeOK
  <1>1. PICK s \in {"dry", "role"} :
          /\ Begin(r, "override", {s}, config')
          /\ s = "dry" => config'.role = config.role
          /\ s = "role" => config'.dry = config.dry
          /\ config'.dir = config.dir /\ config'.scope = config.scope
          /\ UNCHANGED <<override, scopeFile>>
    BY <1>c DEF SetDryRun, SetRole, Configs
  <1>2. handler'[r] = [pc |-> "override", fields |-> {s}, config |-> config']
        /\ \A q \in Requests : q # r => handler'[q] = handler[q]
    BY <1>c, <1>1 DEF Begin
  <1>3. \A f \in SettingNames : asked'[f] = IF f = s THEN Unset ELSE asked[f]
    BY <1>1 DEF Begin
  <1>4. Promises'
    <2>1. SUFFICES ASSUME NEW f \in SettingNames, asked'[f] # Unset
                   PROVE  /\ config'.dir # NoDir
                          /\ InForce(config', f) = asked'[f]
                          /\ Written(config.dir, f)'
      BY <1>1 DEF Promises, Written
    <2>2. f # s /\ asked'[f] = asked[f]
      BY <1>3, <2>1
    <2>3. InForce(config', f) = InForce(config, f)
      BY <1>1, <2>2, InForceIs, NamesOfSettings
    <2>4. config.dir # NoDir /\ InForce(config, f) = asked[f] /\ Written(config.dir, f)
      BY <2>1, <2>2 DEF Settled, Promises
    <2>5. Written(config.dir, f)'
      BY <1>1, <2>2, <2>4 DEF Written
    <2>6. QED
      BY <1>1, <2>2, <2>3, <2>4, <2>5
  <1>5. UnderWay'
    <2>1. SUFFICES ASSUME NEW q \in Requests
                   PROVE  /\ handler'[q].pc = "override" => CopiedOverride(handler[q])'
                          /\ handler'[q].pc \in {"scope", "assign"} => CopiedScope(handler[q])'
                          /\ handler'[q].pc # "idle" => \A f \in handler'[q].fields : asked'[f] = Unset
      BY DEF UnderWay
    <2>2. CASE q = r
      BY <1>1, <1>2, <1>3, <2>2, NamesOfSettings DEF CopiedOverride
    <2>3. CASE q # r
      <3>1. handler'[q].pc # "override" /\ handler'[q] = handler[q]
        BY <1>2, <2>3 DEF Apart
      <3>2. /\ handler[q].pc \in {"scope", "assign"} => CopiedScope(handler[q])
            /\ handler[q].pc # "idle" => \A f \in handler[q].fields : asked[f] = Unset
        BY DEF Settled, UnderWay
      <3>3. handler[q].pc # "idle" => handler[q].fields \subseteq SettingNames
        BY HandlerRecord
      <3>4. QED
        BY <1>1, <1>3, <3>1, <3>2, <3>3 DEF CopiedScope
    <2>4. QED
      BY <2>2, <2>3
  <1>6. QED
    BY <1>4, <1>5

\* runtime.json is written with what is in force, and the request is answered.
LEMMA WriteOverrideSettles ==
  ASSUME SettingsTypeOK, Settled, Apart, NEW r \in Requests, WriteOverride(r)
  PROVE  Promises' /\ UnderWay'
  <1>c. config \in Configs /\ handler \in [Requests -> {Idle} \cup Handlings]
        /\ override \in [Stores -> Overrides \cup {NoFile}]
    BY DEF SettingsTypeOK
  <1>1. handler[r].pc = "override" /\ CopiedOverride(handler[r]) /\ config.dir \in Stores
    BY <1>c DEF WriteOverride, Settled, UnderWay, CopiedOverride, Configs, Stores
  <1>2. /\ override'[config.dir] = [role |-> config.role, dry |-> config.dry]
        /\ UNCHANGED <<config, scopeFile>>
    BY <1>c, <1>1 DEF WriteOverride, CopiedOverride
  <1>3. PICK s \in {"dry", "role"} : handler[r].fields = {s}
    BY <1>1 DEF CopiedOverride
  <1>4. handler' = [handler EXCEPT ![r] = Idle]
        /\ \A f \in SettingNames :
              asked'[f] = IF f = s THEN InForce(config, s) ELSE asked[f]
    <2>1. InForce(handler[r].config, s) = InForce(config, s)
      BY <1>1, InForceIs DEF CopiedOverride
    <2>2. QED
      BY <1>3, <2>1 DEF WriteOverride, AnswerKept
  <1>5. override'[config.dir] # NoFile
    <2>1. [role |-> config.role, dry |-> config.dry] \in Overrides
      BY <1>c DEF Overrides, Configs
    <2>2. QED
      BY <1>2, <2>1
  <1>6. Promises'
    <2>1. SUFFICES ASSUME NEW f \in SettingNames, asked'[f] # Unset
                   PROVE  /\ config.dir # NoDir
                          /\ InForce(config, f) = asked'[f]
                          /\ Written(config.dir, f)'
      BY <1>2 DEF Promises, Written
    <2>2. InForce(config, f) = asked'[f]
      BY <1>4, <2>1 DEF Settled, Promises
    <2>3. CASE f \in ListNames
      <3>1. asked'[f] = asked[f]
        BY <1>4, <2>3, NamesOfSettings
      <3>2. Written(config.dir, f)
        BY <2>1, <3>1 DEF Settled, Promises
      <3>3. QED
        BY <1>1, <1>2, <2>2, <2>3, <3>1, <3>2 DEF Written, Stores
    <2>4. CASE f \notin ListNames
      <3>1. f \in {"dry", "role"}
        BY <2>4, NamesOfSettings
      <3>2. (IF f = "role" THEN override'[config.dir].role ELSE override'[config.dir].dry) = asked'[f]
        BY <1>2, <2>2, <3>1, InForceIs
      <3>3. QED
        BY <1>1, <1>2, <1>5, <2>2, <2>4, <3>2 DEF Written, Stores
    <2>5. QED
      BY <2>3, <2>4
  <1>7. UnderWay'
    <2>1. SUFFICES ASSUME NEW q \in Requests
                   PROVE  /\ handler'[q].pc = "override" => CopiedOverride(handler[q])'
                          /\ handler'[q].pc \in {"scope", "assign"} => CopiedScope(handler[q])'
                          /\ handler'[q].pc # "idle" => \A f \in handler'[q].fields : asked'[f] = Unset
      BY DEF UnderWay
    <2>2. CASE q = r
      BY <1>c, <1>4, <2>2 DEF Idle
    <2>3. CASE q # r
      <3>1. handler[q].pc # "override" /\ handler'[q] = handler[q]
        BY <1>c, <1>1, <1>4, <2>3 DEF Apart
      <3>2. handler[q].pc \in {"idle", "scope", "assign"}
        BY <1>c, <3>1 DEF Handlings, Idle
      <3>3. /\ handler[q].pc \in {"scope", "assign"} => CopiedScope(handler[q])
            /\ handler[q].pc # "idle" => \A f \in handler[q].fields : asked[f] = Unset
        BY DEF Settled, UnderWay
      <3>4. handler[q].pc # "idle" => handler[q].fields \subseteq ListNames
        BY <3>2, <3>3 DEF CopiedScope
      <3>5. \A f \in ListNames : asked'[f] = asked[f]
        BY <1>4, NamesOfSettings
      <3>6. QED
        BY <1>2, <3>1, <3>3, <3>4, <3>5 DEF CopiedScope
    <2>4. QED
      BY <2>2, <2>3
  <1>8. QED
    BY <1>6, <1>7

\* A request that failed promises nothing.
LEMMA FailSettles ==
  ASSUME SettingsTypeOK, Settled, NEW r \in Requests, WriteFails(r)
  PROVE  Promises' /\ UnderWay'
  <1>1. handler' = [handler EXCEPT ![r] = Idle] /\ UNCHANGED <<config, override, scopeFile, asked>>
    BY DEF WriteFails
  <1>2. handler \in [Requests -> {Idle} \cup Handlings]
    BY DEF SettingsTypeOK
  <1>3. Promises'
    BY <1>1 DEF Settled, Promises, Written
  <1>4. UnderWay'
    BY <1>1, <1>2 DEF Settled, UnderWay, CopiedOverride, CopiedScope, Idle
  <1>5. QED
    BY <1>3, <1>4

\* The scope is copied, with the lists that were asked for put in.
LEMMA CopySettles ==
  ASSUME SettingsTypeOK, Settled, Apart', NEW r \in Requests, CopyScope(r)
  PROVE  Promises' /\ UnderWay'
  <1>c. config \in Configs /\ handler \in [Requests -> {Idle} \cup Handlings] /\ config.scope \in Scopes
    BY DEF SettingsTypeOK, Configs
  <1>1. PICK ask \in ScopeAsks :
          Begin(r, "scope", ask.fields, [config EXCEPT !.scope = Replaced(config.scope, ask)])
    BY DEF CopyScope
  <1>2. PICK c : c = [config EXCEPT !.scope = Replaced(config.scope, ask)]
    OBVIOUS
  <1>3. c.dir = config.dir /\ c.scope = Replaced(config.scope, ask)
    BY <1>c, <1>2 DEF Configs
  <1>4. \A l \in ListNames \ ask.fields : c.scope[l] = config.scope[l]
    BY <1>c, <1>3, ReplacedKeeps
  <1>5. handler'[r] = [pc |-> "scope", fields |-> ask.fields, config |-> c]
        /\ \A q \in Requests : q # r => handler'[q] = handler[q]
    BY <1>c, <1>1, <1>2 DEF Begin
  <1>6. \A f \in SettingNames : asked'[f] = IF f \in ask.fields THEN Unset ELSE asked[f]
    BY <1>1 DEF Begin
  <1>7. UNCHANGED <<config, override, scopeFile>> /\ ask.fields \subseteq ListNames
    BY DEF CopyScope
  <1>8. Promises'
    BY <1>6, <1>7 DEF Settled, Promises, Written
  <1>9. UnderWay'
    <2>1. SUFFICES ASSUME NEW q \in Requests
                   PROVE  /\ handler'[q].pc = "override" => CopiedOverride(handler[q])'
                          /\ handler'[q].pc \in {"scope", "assign"} => CopiedScope(handler[q])'
                          /\ handler'[q].pc # "idle" => \A f \in handler'[q].fields : asked'[f] = Unset
      BY DEF UnderWay
    <2>2. CASE q = r
      BY <1>3, <1>4, <1>5, <1>6, <1>7, <2>2, NamesOfSettings DEF CopiedScope
    <2>3. CASE q # r
      <3>1. handler'[q] = handler[q]
        BY <1>5, <2>3
      <3>2. /\ handler[q].pc = "override" => CopiedOverride(handler[q])
            /\ handler[q].pc \in {"scope", "assign"} => CopiedScope(handler[q])
            /\ handler[q].pc # "idle" => \A f \in handler[q].fields : asked[f] = Unset
        BY DEF Settled, UnderWay
      <3>3. handler[q].pc # "idle" => handler[q].fields \subseteq SettingNames
        BY HandlerRecord
      <3>4. QED
        BY <1>6, <1>7, <3>1, <3>2, <3>3 DEF CopiedScope, CopiedOverride
    <2>4. QED
      BY <2>2, <2>3
  <1>10. QED
    BY <1>8, <1>9

\* probe-scope.json is written: the lists nobody asked for are those in force.
LEMMA WriteScopeSettles ==
  ASSUME SettingsTypeOK, Settled, Apart, NEW r \in Requests, WriteScope(r)
  PROVE  Promises' /\ UnderWay'
  <1>c. config \in Configs /\ handler \in [Requests -> {Idle} \cup Handlings]
        /\ scopeFile \in [Stores -> Scopes \cup {NoFile}]
    BY DEF SettingsTypeOK
  <1>1. PICK h \in Handlings : h = handler[r] /\ h.pc = "scope"
    BY <1>c DEF WriteScope, Idle
  <1>2. /\ CopiedScope(h) /\ h.config.scope \in Scopes
        /\ \A f \in h.fields : asked[f] = Unset
    BY <1>1, HandlerRecord DEF Settled, UnderWay
  <1>3. config.dir \in Stores
    <2>1. config.dir # NoDir
      BY <1>1, <1>2 DEF SettingsTypeOK, CopiedScope
    <2>2. QED
      BY <1>c, <2>1 DEF Configs, Stores
  <1>4. /\ scopeFile'[config.dir] = h.config.scope
        /\ UNCHANGED <<config, override, asked>>
    BY <1>c, <1>1, <1>2, <1>3 DEF WriteScope, CopiedScope
  <1>5. PICK g : g = [h EXCEPT !.pc = "assign"]
    OBVIOUS
  <1>6. g.pc = "assign" /\ g.fields = h.fields /\ g.config = h.config
    BY <1>5 DEF Handlings
  <1>7. handler'[r] = g /\ \A q \in Requests : q # r => handler'[q] = handler[q]
    BY <1>c, <1>1, <1>5 DEF WriteScope
  <1>8. Promises'
    <2>1. SUFFICES ASSUME NEW f \in SettingNames, asked[f] # Unset
                   PROVE  /\ config.dir # NoDir
                          /\ InForce(config, f) = asked[f]
                          /\ Written(config.dir, f)'
      BY <1>4 DEF Promises, Written
    <2>2. config.dir # NoDir /\ InForce(config, f) = asked[f] /\ Written(config.dir, f)
      BY <2>1 DEF Settled, Promises
    <2>3. CASE f \in ListNames
      <3>1. f \notin h.fields
        BY <1>2, <2>1
      <3>2. h.config.scope[f] = asked[f]
        BY <1>2, <2>2, <2>3, <3>1, InForceIs DEF CopiedScope
      <3>3. QED
        BY <1>2, <1>4, <2>2, <2>3, <3>2 DEF Written
    <2>4. CASE f \notin ListNames
      BY <1>4, <2>2, <2>4 DEF Written
    <2>5. QED
      BY <2>3, <2>4
  <1>9. UnderWay'
    <2>1. SUFFICES ASSUME NEW q \in Requests
                   PROVE  /\ handler'[q].pc = "override" => CopiedOverride(handler[q])'
                          /\ handler'[q].pc \in {"scope", "assign"} => CopiedScope(handler[q])'
                          /\ handler'[q].pc # "idle" => \A f \in handler'[q].fields : asked'[f] = Unset
      BY DEF UnderWay
    <2>2. CASE q = r
      BY <1>2, <1>4, <1>6, <1>7, <2>2 DEF CopiedScope
    <2>3. CASE q # r
      <3>1. handler'[q] = handler[q] /\ handler[q].pc \notin {"scope", "assign"}
        BY <1>1, <1>7, <2>3 DEF Apart
      <3>2. /\ handler[q].pc = "override" => CopiedOverride(handler[q])
            /\ handler[q].pc # "idle" => \A f \in handler[q].fields : asked[f] = Unset
        BY DEF Settled, UnderWay
      <3>3. QED
        BY <1>4, <3>1, <3>2 DEF CopiedOverride
    <2>4. QED
      BY <2>2, <2>3
  <1>10. QED
    BY <1>8, <1>9

\* The scope that was written is put in force, and the request is answered.
LEMMA AssignSettles ==
  ASSUME SettingsTypeOK, Settled, Apart, NEW r \in Requests, AssignScope(r)
  PROVE  Promises' /\ UnderWay'
  <1>c. config \in Configs /\ handler \in [Requests -> {Idle} \cup Handlings]
    BY DEF SettingsTypeOK
  <1>1. PICK h \in Handlings : h = handler[r] /\ h.pc = "assign"
    BY <1>c DEF AssignScope, Idle
  <1>2. /\ CopiedScope(h) /\ h.config.scope \in Scopes
        /\ \A f \in h.fields : asked[f] = Unset
    BY <1>1, HandlerRecord DEF Settled, UnderWay
  <1>3. /\ config'.dir = config.dir /\ config'.role = config.role /\ config'.dry = config.dry
        /\ config'.scope = h.config.scope
        /\ UNCHANGED <<override, scopeFile>>
    BY <1>c, <1>1 DEF AssignScope, Configs
  <1>4. config.dir # NoDir
    BY <1>1, <1>2 DEF SettingsTypeOK, CopiedScope
  <1>5. /\ handler' = [handler EXCEPT ![r] = Idle]
        /\ \A f \in SettingNames :
              asked'[f] = IF f \in h.fields THEN h.config.scope[f] ELSE asked[f]
    <2>1. \A f \in h.fields : InForce(h.config, f) = h.config.scope[f]
      BY <1>2, InForceIs DEF CopiedScope
    <2>2. QED
      BY <1>1, <2>1 DEF AssignScope, AnswerKept
  <1>6. Promises'
    <2>1. SUFFICES ASSUME NEW f \in SettingNames, asked'[f] # Unset
                   PROVE  InForce(config', f) = asked'[f] /\ Written(config.dir, f)'
      BY <1>3, <1>4 DEF Promises, Written
    <2>2. CASE f \in ListNames
      <3>1. InForce(config', f) = h.config.scope[f] /\ InForce(config, f) = config.scope[f]
        BY <1>3, <2>2, InForceIs
      <3>2. asked'[f] = h.config.scope[f]
        BY <1>2, <1>5, <2>1, <2>2, <3>1 DEF CopiedScope, Settled, Promises
      <3>3. scopeFile'[config.dir] = h.config.scope /\ scopeFile'[config.dir] # NoFile
        BY <1>1, <1>2, <1>3 DEF CopiedScope
      <3>4. QED
        BY <1>3, <2>2, <3>1, <3>2, <3>3 DEF Written
    <2>3. CASE f \notin ListNames
      <3>1. asked'[f] = asked[f] /\ f \in {"dry", "role"}
        BY <1>2, <1>5, <2>3, NamesOfSettings DEF CopiedScope
      <3>2. InForce(config', f) = InForce(config, f)
        BY <1>3, <3>1, InForceIs
      <3>3. InForce(config, f) = asked[f] /\ Written(config.dir, f)
        BY <2>1, <3>1 DEF Settled, Promises
      <3>4. QED
        BY <1>3, <2>3, <3>1, <3>2, <3>3 DEF Written
    <2>4. QED
      BY <2>2, <2>3
  <1>7. UnderWay'
    <2>1. SUFFICES ASSUME NEW q \in Requests
                   PROVE  /\ handler'[q].pc = "override" => CopiedOverride(handler[q])'
                          /\ handler'[q].pc \in {"scope", "assign"} => CopiedScope(handler[q])'
                          /\ handler'[q].pc # "idle" => \A f \in handler'[q].fields : asked'[f] = Unset
      BY DEF UnderWay
    <2>2. CASE q = r
      BY <1>c, <1>5, <2>2 DEF Idle
    <2>3. CASE q # r
      <3>1. handler'[q] = handler[q] /\ handler[q].pc \in {"idle", "override"}
        <4>1. handler[q].pc \notin {"scope", "assign"}
          BY <1>1, <2>3 DEF Apart
        <4>2. QED
          BY <1>c, <1>5, <2>3, <4>1 DEF Handlings, Idle
      <3>2. /\ handler[q].pc = "override" => CopiedOverride(handler[q])
            /\ handler[q].pc # "idle" => \A f \in handler[q].fields : asked[f] = Unset
        BY DEF Settled, UnderWay
      <3>3. \A f \in {"dry", "role"} : asked'[f] = asked[f]
        BY <1>2, <1>5, NamesOfSettings DEF CopiedScope
      <3>4. QED
        BY <1>3, <3>1, <3>2, <3>3 DEF CopiedOverride
    <2>4. QED
      BY <2>2, <2>3
  <1>8. QED
    BY <1>6, <1>7

\* A document says what it holds, and nothing else changes.
LEMMA DocumentFields ==
  ASSUME NEW c \in Configs, NEW doc, doc # NoFile
  PROVE  /\ WithOverride(c, doc).dir = c.dir
         /\ WithOverride(c, doc).role = doc.role /\ WithOverride(c, doc).dry = doc.dry
         /\ WithScope(c, doc).dir = c.dir /\ WithScope(c, doc).scope = doc
         /\ WithScope(c, doc).role = c.role /\ WithScope(c, doc).dry = c.dry
  BY DEF WithOverride, WithScope, Configs

\* What configure makes of config.yaml and of documents that keep the promises.
LEMMA ConfiguredKeeps ==
  ASSUME SettingsTypeOK, Promises, NEW y \in Configs
  PROVE  /\ WithOverride(y, ReadOverride(y.dir)).dir = y.dir
         /\ y.dir = config.dir =>
               \A f \in {"dry", "role"} :
                   asked[f] # Unset => InForce(WithOverride(y, ReadOverride(y.dir)), f) = asked[f]
         /\ \A c \in Configs :
               /\ WithScope(c, ReadScope(y.dir)).dir = c.dir
               /\ WithScope(c, ReadScope(y.dir)).role = c.role
               /\ WithScope(c, ReadScope(y.dir)).dry = c.dry
               /\ y.dir = config.dir =>
                     \A f \in ListNames :
                         asked[f] # Unset => InForce(WithScope(c, ReadScope(y.dir)), f) = asked[f]
  <1>1. WithOverride(y, ReadOverride(y.dir)).dir = y.dir
    BY DocumentFields DEF WithOverride
  <1>2. ASSUME y.dir = config.dir, NEW f \in {"dry", "role"}, asked[f] # Unset
        PROVE  InForce(WithOverride(y, ReadOverride(y.dir)), f) = asked[f]
    <2>1. y.dir # NoDir /\ Written(y.dir, f)
      BY <1>2, NamesOfSettings DEF Promises
    <2>2. PICK ov : ov = override[y.dir] /\ ov # NoFile /\ ReadOverride(y.dir) = ov
      BY <2>1, <1>2, NamesOfSettings DEF Written, ReadOverride
    <2>3. asked[f] = IF f = "role" THEN ov.role ELSE ov.dry
      BY <1>2, <2>1, <2>2, NamesOfSettings DEF Written
    <2>4. PICK w : w = WithOverride(y, ov) /\ w.role = ov.role /\ w.dry = ov.dry
      BY <2>2, DocumentFields
    <2>5. WithOverride(y, ReadOverride(y.dir)) = w
      BY <2>2, <2>4
    <2>6. InForce(w, f) = IF f = "role" THEN ov.role ELSE ov.dry
      BY <1>2, <2>4, InForceIs
    <2>7. QED
      BY <2>3, <2>5, <2>6
  <1>3. ASSUME NEW c \in Configs
        PROVE  /\ WithScope(c, ReadScope(y.dir)).dir = c.dir
               /\ WithScope(c, ReadScope(y.dir)).role = c.role
               /\ WithScope(c, ReadScope(y.dir)).dry = c.dry
    BY DocumentFields DEF WithScope
  <1>4. ASSUME NEW c \in Configs, y.dir = config.dir, NEW f \in ListNames, asked[f] # Unset
        PROVE  InForce(WithScope(c, ReadScope(y.dir)), f) = asked[f]
    <2>1. y.dir # NoDir /\ Written(y.dir, f)
      BY <1>4, NamesOfSettings DEF Promises
    <2>2. PICK sc : sc = scopeFile[y.dir] /\ sc # NoFile /\ ReadScope(y.dir) = sc /\ sc[f] = asked[f]
      BY <2>1, <1>4 DEF Written, ReadScope
    <2>3. PICK w : w = WithScope(c, sc) /\ w.scope = sc
      BY <1>4, <2>2, DocumentFields
    <2>4. WithScope(c, ReadScope(y.dir)) = w
      BY <2>2, <2>3
    <2>5. InForce(w, f) = sc[f]
      BY <1>4, <2>3, InForceIs
    <2>6. QED
      BY <2>2, <2>4, <2>5
  <1>5. QED
    BY <1>1, <1>2, <1>3, <1>4

\* What is promised for the directory survives a change of configuration to
\* one that says the same; in another directory nothing is promised.
LEMMA PromisesCarryOver ==
  ASSUME Promises, Promised(config'.dir), UNCHANGED <<override, scopeFile>>,
         config'.dir = config.dir =>
            \A f \in SettingNames : asked[f] # Unset => InForce(config', f) = asked[f]
  PROVE  Promises'
  <1>1. CASE config'.dir # config.dir
    <2>1. \A f \in SettingNames : asked'[f] = Unset
      BY <1>1 DEF Promised
    <2>2. QED
      BY <2>1 DEF Promises
  <1>2. CASE config'.dir = config.dir
    <2>1. asked' = asked
      BY <1>2 DEF Promised
    <2>2. ASSUME NEW f \in SettingNames, asked'[f] # Unset
          PROVE  config'.dir # NoDir /\ InForce(config', f) = asked'[f] /\ Written(config.dir, f)'
      BY <1>2, <2>1, <2>2 DEF Promises, Written
    <2>3. QED
      BY <2>2 DEF Promises, Written
  <1>3. QED
    BY <1>1, <1>2

\* Nothing is under way.
LEMMA NothingUnderWay ==
  ASSUME \A r \in Requests : handler'[r] = Idle, reload' = Idle
  PROVE  UnderWay' /\ Reread'
  BY DEF UnderWay, Reread, Idle

\* configure reads, and swaps in what it has read.
LEMMA ReloadSettles ==
  ASSUME SettingsTypeOK, Settled, Apart, Apart', LoadOverride \/ LoadScope \/ Swap
  PROVE  Settled'
  <1>r. reload \in {Idle} \cup [pc : {"scope", "swap"}, yaml : Configs, config : Configs]
    BY DEF SettingsTypeOK
  <1>p. Promises /\ UnderWay /\ Reread
    BY DEF Settled
  <1>1. CASE LoadOverride
    <2>1. PICK y \in Yamls : reload' = [pc |-> "scope", yaml |-> y,
                                        config |-> WithOverride(y, ReadOverride(y.dir))]
      BY <1>1 DEF LoadOverride
    <2>2. UNCHANGED <<config, override, scopeFile, handler, asked>> /\ y \in Configs
      BY <1>1 DEF LoadOverride
    <2>3. Promises' /\ UnderWay'
      BY <1>p, <2>2 DEF Promises, Written, UnderWay, CopiedOverride, CopiedScope
    <2>4. PICK c : c = WithOverride(y, ReadOverride(y.dir))
      OBVIOUS
    <2>5. /\ c.dir = y.dir
          /\ y.dir = config.dir =>
                \A f \in {"dry", "role"} : asked[f] # Unset => InForce(c, f) = asked[f]
      BY <1>p, <2>2, <2>4, ConfiguredKeeps
    <2>6. reload'.pc = "scope" /\ reload'.yaml = y /\ reload'.config = c
      BY <2>1, <2>4
    <2>7. Reread'
      BY <2>2, <2>5, <2>6, NamesOfSettings DEF Reread
    <2>8. QED
      BY <2>3, <2>7 DEF Settled
  <1>2. CASE LoadScope
    <2>1. reload \in [pc : {"scope", "swap"}, yaml : Configs, config : Configs] /\ reload.pc = "scope"
      BY <1>2, <1>r DEF LoadScope, Idle
    <2>2. UNCHANGED <<config, override, scopeFile, handler, asked>>
      BY <1>2 DEF LoadScope
    <2>3. Promises' /\ UnderWay'
      BY <1>p, <2>2 DEF Promises, Written, UnderWay, CopiedOverride, CopiedScope
    <2>4. PICK c : c = WithScope(reload.config, ReadScope(reload.yaml.dir))
      OBVIOUS
    <2>5. reload'.pc = "swap" /\ reload'.yaml = reload.yaml /\ reload'.config = c
      BY <1>2, <2>1, <2>4 DEF LoadScope
    <2>6. /\ c.dir = reload.config.dir /\ c.role = reload.config.role /\ c.dry = reload.config.dry
          /\ reload.yaml.dir = config.dir =>
                \A f \in ListNames : asked[f] # Unset => InForce(c, f) = asked[f]
      BY <1>p, <2>1, <2>4, ConfiguredKeeps
    <2>7. /\ reload.config.dir = reload.yaml.dir
          /\ reload.config.dir = config.dir =>
                \A f \in {"dry", "role"} : asked[f] # Unset => InForce(reload.config, f) = asked[f]
      BY <1>p, <2>1, NamesOfSettings DEF Reread
    <2>8. \A f \in {"dry", "role"} : InForce(c, f) = InForce(reload.config, f)
      BY <2>6, InForceIs
    <2>9. Reread'
      BY <2>2, <2>5, <2>6, <2>7, <2>8, NamesOfSettings DEF Reread
    <2>10. QED
      BY <2>3, <2>9 DEF Settled
  <1>3. CASE Swap
    <2>1. reload.pc = "swap" /\ reload # Idle
      BY <1>3 DEF Swap, Idle
    <2>2. \A r \in Requests : handler'[r] = Idle
      BY <1>3, <2>1 DEF Swap, Apart
    <2>3. /\ config' = reload.config /\ reload' = Idle
          /\ Promised(config'.dir) /\ UNCHANGED <<override, scopeFile>>
      BY <1>3 DEF Swap
    <2>4. config'.dir = config.dir =>
            \A f \in SettingNames : asked[f] # Unset => InForce(config', f) = asked[f]
      BY <1>p, <2>1, <2>3 DEF Reread
    <2>5. QED
      BY <1>p, <2>2, <2>3, <2>4, PromisesCarryOver, NothingUnderWay DEF Settled
  <1>4. QED
    BY <1>1, <1>2, <1>3

\* A restart configures from what the documents say.
LEMMA RestartSettles ==
  ASSUME SettingsTypeOK, Settled, Restart
  PROVE  Settled'
  <1>p. Promises
    BY DEF Settled
  <1>1. PICK y \in Yamls : config' = WithScope(WithOverride(y, ReadOverride(y.dir)), ReadScope(y.dir))
    BY DEF Restart
  <1>2. PICK c \in Configs : c = WithOverride(y, ReadOverride(y.dir))
    BY DocumentsType
  <1>3. /\ config'.dir = y.dir /\ config'.role = c.role /\ config'.dry = c.dry
        /\ y.dir = config.dir =>
              /\ \A f \in {"dry", "role"} : asked[f] # Unset => InForce(c, f) = asked[f]
              /\ \A f \in ListNames : asked[f] # Unset => InForce(config', f) = asked[f]
    BY <1>p, <1>1, <1>2, ConfiguredKeeps
  <1>4. \A f \in {"dry", "role"} : InForce(config', f) = InForce(c, f)
    BY <1>3, InForceIs
  <1>5. /\ UNCHANGED <<override, scopeFile>> /\ Promised(config'.dir)
        /\ handler' = [r \in Requests |-> Idle] /\ reload' = Idle
    BY DEF Restart
  <1>6. config'.dir = config.dir =>
          \A f \in SettingNames : asked[f] # Unset => InForce(config', f) = asked[f]
    BY <1>3, <1>4, NamesOfSettings
  <1>7. Promises'
    BY <1>p, <1>5, <1>6, PromisesCarryOver
  <1>8. UnderWay' /\ Reread'
    BY <1>5, NothingUnderWay
  <1>9. QED
    BY <1>7, <1>8 DEF Settled

LEMMA SettledStep ==
  ASSUME IInv, Settled, Apart, Apart', [Next]_vars
  PROVE  Settled'
  <1>t. SettingsTypeOK
    BY DEF IInv, TypeOK
  <1>1. CASE SettingsStep
    <2>1. ASSUME NEW r \in Requests, RequestStep(r)
          PROVE  Settled'
      <3>1. Promises' /\ UnderWay'
        BY <1>t, <2>1, SetSettles, WriteOverrideSettles, FailSettles, CopySettles, WriteScopeSettles,
           AssignSettles DEF RequestStep
      <3>2. QED
        BY <1>t, <2>1, <3>1, NoReload DEF Settled
    <2>2. QED
      BY <1>1, <1>t, <2>1, ReloadSettles DEF SettingsStep
  <1>2. CASE UNCHANGED settingsVars
    BY <1>2 DEF settingsVars, Settled, Promises, Written, UnderWay, CopiedOverride, CopiedScope, Reread
  <1>3. CASE NewProcess
    BY <1>3, <1>t, RestartSettles DEF NewProcess
  <1>4. UNCHANGED settingsVars \/ SettingsStep \/ NewProcess
    BY StepsOfNext, RunStepFrame, WorkerFrame DEF Tick, vars
  <1>5. QED
    BY <1>1, <1>2, <1>3, <1>4

\* "Persisted" and "saved" are true, over every reconfiguration and restart and
\* every write that fails, as long as requests that change the same document do
\* not overlap and none overlaps with configure: run settings_kept breaks the
\* promise with two requests that do.
THEOREM KeptWhenApart == Spec /\ []Apart => []KeptSettingsHold
  <1>1. Init => Settled
    BY DEF Init, SettingsInit, Settled, Promises, UnderWay, Reread, Idle
  <1>2. Settled => KeptSettingsHold
    BY DEF Settled, Promises, KeptSettingsHold
  <1>3. IInv /\ Settled /\ Apart /\ Apart' /\ [Next]_vars => Settled'
    BY SettledStep
  <1>4. QED
    BY <1>1, <1>2, <1>3, InitIInv, IInvStep, PTL DEF Spec

=============================================================================
