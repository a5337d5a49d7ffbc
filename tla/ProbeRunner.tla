----------------------------- MODULE ProbeRunner -----------------------------
(* The probe of probe_runner.go: a run that is started and stopped from the
   dashboard, its sweep (one fill, then renewals until it is stopped), the
   workers that mint for one account each, and the rests of exits and accounts
   that outlive a run.  The scope it works on is the one of Settings.

   The order in which a worker walks its exits, and a batch its accounts, is
   any; the code rotates the list by the account's place.  The model it mints
   with is models[0] throughout: claims and rests are per account.            *)
EXTENDS Settings

CONSTANTS Rotating,         \* the one key under which the rotating list rests
          Unusable,         \* exits no client can be made for
          MaxInFlight,      \* probeMaxAccountsInFlight
          RotatingAttempts, \* probeRotatingAttempts
          ExitRest,         \* probeExitCooldown
          SuccessRest,      \* probeSuccessRest(cfg)
          RotatingRest,     \* probeRotatingCooldown
          AccountRest,      \* probeAccountBackoff
          MaxTime           \* bound of the clock

ASSUME ProbeAssumption ==
    /\ Rotating \notin Exits
    /\ Unusable \subseteq Exits
    /\ MaxInFlight \in Nat \ {0} /\ RotatingAttempts \in Nat /\ MaxTime \in Nat
    /\ ExitRest \in Nat /\ RotatingRest \in Nat /\ AccountRest \in Nat
    /\ SuccessRest \in 0..ExitRest

VARIABLES
    now,
    starter,    \* the request that starts a probe: idle, or the scope it copied
    run,        \* probeRunner: running, whether its context is canceled, done, total
    sweep,      \* the goroutine of probeSweep
    worker,     \* per account, its goroutine in probeFireBatch
    claims,     \* probeActive: accounts claimed
    restUntil,  \* probeCooldown: per account and exit
    backoff,    \* probeAccountRest: per account
    lastFire    \* history: per account and exit, the last fire (rotating: the last walk)

memory == <<starter, run, sweep, worker, claims, restUntil, backoff, lastFire>>
vars == <<settingsVars, now, memory>>

Never == -1
Keys == Exits \cup {Rotating}
NoRun == [running |-> FALSE, canceled |-> FALSE, done |-> 0, total |-> 0]
Off == [pc |-> "off", todo |-> {}, creds |-> {}, exits |-> {}, rotating |-> FALSE, counting |-> FALSE]
Gone == [pc |-> "gone", left |-> {}, exit |-> Rotating, tries |-> 0]

MemoryInit ==
    /\ starter = Idle
    /\ run = NoRun
    /\ sweep = Off
    /\ worker = [a \in Accounts |-> Gone]
    /\ claims = {}
    /\ restUntil = [a \in Accounts |-> [x \in Keys |-> 0]]
    /\ backoff = [a \in Accounts |-> Never]
    /\ lastFire = [a \in Accounts |-> [x \in Keys |-> Never]]

Init == SettingsInit /\ now = 0 /\ MemoryInit

-------------------------------------------------------------------------------
(* Helpers. *)

Live == {a \in Accounts : worker[a].pc # "gone"}
Harvesting(pc) == pc \in {"walk", "fly", "rotate", "rotfly"}

\* probeCooldownReady, probeAccountReady.
ExitReady(a, x) == now >= restUntil[a][x]
AccountReady(a) == now > backoff[a]

\* probeExits, and what probeHarvestBucket makes of two empty lists.
StaticExits(exits, rotating) ==
    IF exits # {} THEN exits ELSE IF rotating THEN {} ELSE {Direct}

\* probeBucketHasEligibleExit
HasEligibleExit(a, exits, rotating) ==
    \/ rotating /\ ExitReady(a, Rotating)
    \/ \E x \in StaticExits(exits, rotating) : ExitReady(a, x)

\* probeRunFinish, deferred by the sweep.
Finish == /\ run' = [run EXCEPT !.running = FALSE, !.canceled = FALSE]
          /\ sweep' = Off

Rest(a, x, until) == restUntil' = [restUntil EXCEPT ![a][x] = until]
Fired(a, x) == lastFire' = [lastFire EXCEPT ![a][x] = now]

-------------------------------------------------------------------------------
(* probeRunStart and probeRunCancel. *)

\* The settings are copied under state.mu; an empty list is refused.
StartCopies ==
    /\ starter = Idle
    /\ config.scope.accounts # {}
    /\ config.dir # NoDir
    /\ starter' = [pc |-> "copied", scope |-> config.scope]
    /\ UNCHANGED <<settingsVars, now, run, sweep, worker, claims, restUntil, backoff, lastFire>>

\* Under probeRunner.mu; the goroutine of the sweep starts.
StartRun ==
    /\ starter # Idle
    /\ ~run.running
    /\ run' = [NoRun EXCEPT !.running = TRUE]
    /\ sweep' = [Off EXCEPT !.pc = "prepare", !.todo = starter.scope.accounts, !.counting = TRUE,
                            !.exits = starter.scope.exits, !.rotating = starter.scope.rotating]
    /\ starter' = Idle
    /\ UNCHANGED <<settingsVars, now, worker, claims, restUntil, backoff, lastFire>>

StartRefused ==
    /\ starter # Idle
    /\ run.running
    /\ starter' = Idle
    /\ UNCHANGED <<settingsVars, now, run, sweep, worker, claims, restUntil, backoff, lastFire>>

Cancel ==
    /\ run.running
    /\ run' = [run EXCEPT !.canceled = TRUE]
    /\ UNCHANGED <<settingsVars, now, starter, sweep, worker, claims, restUntil, backoff, lastFire>>

-------------------------------------------------------------------------------
(* probeSweep: the fill. *)

\* The list of credentials, an account that is not in it, or no credential.
GiveUp ==
    /\ sweep.pc = "prepare"
    /\ Finish
    /\ UNCHANGED <<settingsVars, now, starter, worker, claims, restUntil, backoff, lastFire>>

Prepare ==
    /\ sweep.pc = "prepare"
    /\ \E creds \in SUBSET sweep.todo \ {{}} :
          sweep' = [sweep EXCEPT !.pc = "batch", !.creds = creds]
    /\ run' = [run EXCEPT !.total = Cardinality(sweep.todo)]
    /\ UNCHANGED <<settingsVars, now, starter, worker, claims, restUntil, backoff, lastFire>>

(* probeFireBatch: the accounts in turn, at most MaxInFlight at a time. *)

Counted == IF sweep.counting THEN [run EXCEPT !.done = @ + 1] ELSE run

\* Mutant: an account without a credential is skipped and not counted.
MutSkipUncounted(a) ==
    /\ sweep.pc = "batch"
    /\ a \in sweep.todo \ sweep.creds
    /\ sweep' = [sweep EXCEPT !.todo = @ \ {a}]
    /\ UNCHANGED <<settingsVars, now, starter, run, worker, claims, restUntil, backoff, lastFire>>

SkipAccount(a) ==
    /\ sweep.pc = "batch"
    /\ a \in sweep.todo \ sweep.creds
    /\ sweep' = [sweep EXCEPT !.todo = @ \ {a}]
    /\ run' = Counted
    /\ UNCHANGED <<settingsVars, now, starter, worker, claims, restUntil, backoff, lastFire>>

Launch(a) ==
    /\ sweep.pc = "batch"
    /\ a \in sweep.todo \cap sweep.creds
    /\ ~run.canceled
    /\ Cardinality(Live) < MaxInFlight
    /\ sweep' = [sweep EXCEPT !.todo = @ \ {a}]
    /\ worker' = [worker EXCEPT ![a] = [Gone EXCEPT !.pc = "start"]]
    /\ UNCHANGED <<settingsVars, now, starter, run, claims, restUntil, backoff, lastFire>>

Break ==
    /\ sweep.pc = "batch"
    /\ sweep.todo \cap sweep.creds # {}
    /\ run.canceled
    /\ sweep' = [sweep EXCEPT !.todo = {}]
    /\ UNCHANGED <<settingsVars, now, starter, run, worker, claims, restUntil, backoff, lastFire>>

\* Mutant: the batch does not wait for its workers.
MutBatchEndEarly ==
    /\ sweep.pc = "batch"
    /\ sweep.todo = {}
    /\ sweep' = [Off EXCEPT !.pc = "renew"]
    /\ UNCHANGED <<settingsVars, now, starter, run, worker, claims, restUntil, backoff, lastFire>>

\* wg.Wait: the batch ends with its last worker.
BatchEnd ==
    /\ sweep.pc = "batch"
    /\ sweep.todo = {}
    /\ Live = {}
    /\ sweep' = [Off EXCEPT !.pc = "renew"]
    /\ UNCHANGED <<settingsVars, now, starter, run, worker, claims, restUntil, backoff, lastFire>>

(* probeRenewLoop.  Whether the pool is low is the pool's: any tick may find it so. *)

Due(c) == {a \in c.scope.accounts :
              AccountReady(a) /\ HasEligibleExit(a, c.scope.exits, c.scope.rotating)}

RenewTick ==
    /\ sweep.pc = "renew"
    /\ ~run.canceled
    /\ Due(config) # {}
    /\ sweep' = [Off EXCEPT !.pc = "download", !.todo = Due(config),
                            !.exits = config.scope.exits, !.rotating = config.scope.rotating]
    /\ UNCHANGED <<settingsVars, now, starter, run, worker, claims, restUntil, backoff, lastFire>>

Download ==
    /\ sweep.pc = "download"
    /\ \E creds \in SUBSET sweep.todo :
          sweep' = [sweep EXCEPT !.pc = "batch", !.creds = creds]
    /\ UNCHANGED <<settingsVars, now, starter, run, worker, claims, restUntil, backoff, lastFire>>

\* Mutant: the renewal loop looks for a stop only when it has accounts to renew.
MutStopWhenDue ==
    /\ sweep.pc = "renew"
    /\ run.canceled
    /\ Due(config) # {}
    /\ Finish
    /\ UNCHANGED <<settingsVars, now, starter, worker, claims, restUntil, backoff, lastFire>>

Stop ==
    /\ sweep.pc = "renew"
    /\ run.canceled
    /\ Finish
    /\ UNCHANGED <<settingsVars, now, starter, worker, claims, restUntil, backoff, lastFire>>

-------------------------------------------------------------------------------
(* A worker: probeHarvestBucket for its account. *)

\* The worker is through: its claim is released and its target counted.
Leave(a) ==
    /\ worker' = [worker EXCEPT ![a] = Gone]
    /\ claims' = claims \ {a}
    /\ run' = Counted

Moves(a, pc) == worker' = [worker EXCEPT ![a].pc = pc]

\* A worker that finds its run stopped before its target begins counts nothing.
Drop(a) ==
    /\ worker[a].pc = "start"
    /\ run.canceled
    /\ worker' = [worker EXCEPT ![a] = Gone]
    /\ UNCHANGED <<settingsVars, now, starter, run, sweep, claims, restUntil, backoff, lastFire>>

\* The claim is another's, or the account rests: nothing is fired.
Decline(a) ==
    /\ worker[a].pc = "start"
    /\ ~run.canceled
    /\ a \in claims \/ ~AccountReady(a)
    /\ worker' = [worker EXCEPT ![a] = Gone]
    /\ run' = Counted
    /\ UNCHANGED <<settingsVars, now, starter, sweep, claims, restUntil, backoff, lastFire>>

Claim(a) ==
    /\ worker[a].pc = "start"
    /\ ~run.canceled
    /\ a \notin claims /\ AccountReady(a)
    /\ claims' = claims \cup {a}
    /\ worker' = [worker EXCEPT ![a].pc = "walk",
                                ![a].left = StaticExits(sweep.exits, sweep.rotating)]
    /\ UNCHANGED <<settingsVars, now, starter, run, sweep, restUntil, backoff, lastFire>>

\* The context is looked at before every exit and in the pause.
StopWalk(a) ==
    /\ \/ worker[a].pc = "walk" /\ worker[a].left # {}
       \/ worker[a].pc = "rotate" /\ worker[a].tries < RotatingAttempts
    /\ run.canceled
    /\ Leave(a)
    /\ UNCHANGED <<settingsVars, now, starter, sweep, restUntil, backoff, lastFire>>

PassExit(a, x) ==
    /\ worker[a].pc = "walk"
    /\ ~run.canceled
    /\ x \in worker[a].left
    /\ ~ExitReady(a, x) \/ x \in Unusable
    /\ worker' = [worker EXCEPT ![a].left = @ \ {x}]
    /\ UNCHANGED <<settingsVars, now, starter, run, sweep, claims, restUntil, backoff, lastFire>>

\* Mutant: an exit rests only once its answer was good.
MutFireUnmarked(a, x) ==
    /\ worker[a].pc = "walk"
    /\ ~run.canceled
    /\ x \in worker[a].left
    /\ ExitReady(a, x) /\ x \notin Unusable
    /\ worker' = [worker EXCEPT ![a].pc = "fly", ![a].exit = x, ![a].left = @ \ {x}]
    /\ Fired(a, x)
    /\ UNCHANGED <<settingsVars, now, starter, run, sweep, claims, restUntil, backoff>>

\* Mutant: the stop is looked for between accounts, not between exits.
MutFireStopped(a, x) ==
    /\ worker[a].pc = "walk"
    /\ x \in worker[a].left
    /\ ExitReady(a, x) /\ x \notin Unusable
    /\ worker' = [worker EXCEPT ![a].pc = "fly", ![a].exit = x, ![a].left = @ \ {x}]
    /\ Rest(a, x, now + ExitRest)
    /\ Fired(a, x)
    /\ UNCHANGED <<settingsVars, now, starter, run, sweep, claims, backoff>>

\* The exit is marked before the request leaves: whatever becomes of it, it was used.
Fire(a, x) ==
    /\ worker[a].pc = "walk"
    /\ ~run.canceled
    /\ x \in worker[a].left
    /\ ExitReady(a, x) /\ x \notin Unusable
    /\ worker' = [worker EXCEPT ![a].pc = "fly", ![a].exit = x, ![a].left = @ \ {x}]
    /\ Rest(a, x, now + ExitRest)
    /\ Fired(a, x)
    /\ UNCHANGED <<settingsVars, now, starter, run, sweep, claims, backoff>>

\* The static exits are through: the rotating list takes one rest for all its
\* addresses, before the first of them is tried.
StartRotating(a) ==
    /\ worker[a].pc = "walk" /\ worker[a].left = {}
    /\ sweep.rotating /\ ExitReady(a, Rotating)
    /\ Moves(a, "rotate")
    /\ Rest(a, Rotating, now + RotatingRest)
    /\ Fired(a, Rotating)
    /\ UNCHANGED <<settingsVars, now, starter, run, sweep, claims, backoff>>

NoRotating(a) ==
    /\ worker[a].pc = "walk" /\ worker[a].left = {}
    /\ ~(sweep.rotating /\ ExitReady(a, Rotating))
    /\ Leave(a)
    /\ UNCHANGED <<settingsVars, now, starter, sweep, restUntil, backoff, lastFire>>

\* One attempt: fired, or spent on an address no client can be made for.
RotatingAttempt(a) ==
    /\ worker[a].pc = "rotate"
    /\ ~run.canceled
    /\ worker[a].tries < RotatingAttempts
    /\ \E pc \in {"rotfly", "rotate"} :
          worker' = [worker EXCEPT ![a].pc = pc, ![a].exit = Rotating, ![a].tries = @ + 1]
    /\ UNCHANGED <<settingsVars, now, starter, run, sweep, claims, restUntil, backoff, lastFire>>

RotatingOver(a) ==
    /\ worker[a].pc = "rotate"
    /\ worker[a].tries = RotatingAttempts
    /\ Leave(a)
    /\ UNCHANGED <<settingsVars, now, starter, sweep, restUntil, backoff, lastFire>>

(* The answer of a fire: an error of the transport, or what probeConsume says. *)

InFlight(a) == worker[a].pc \in {"fly", "rotfly"}

\* probeOutcomeStored
Stored(a) ==
    /\ InFlight(a)
    /\ Rest(a, worker[a].exit, now + SuccessRest)
    /\ Leave(a)
    /\ UNCHANGED <<settingsVars, now, starter, sweep, backoff, lastFire>>

\* Mutant: after a 429 the next exit is tried.
MutLimitedGoesOn(a) ==
    /\ InFlight(a)
    /\ backoff' = [backoff EXCEPT ![a] = now + AccountRest]
    /\ Moves(a, IF worker[a].pc = "fly" THEN "walk" ELSE "rotate")
    /\ UNCHANGED <<settingsVars, now, starter, run, sweep, claims, restUntil, lastFire>>

\* probeOutcomeAccountLimited: 429, 401 or 403
Limited(a) ==
    /\ InFlight(a)
    /\ backoff' = [backoff EXCEPT ![a] = now + AccountRest]
    /\ Leave(a)
    /\ UNCHANGED <<settingsVars, now, starter, sweep, restUntil, lastFire>>

\* probeOutcomeTryNext, or no answer
TryNext(a) ==
    /\ InFlight(a)
    /\ Moves(a, IF worker[a].pc = "fly" THEN "walk" ELSE "rotate")
    /\ UNCHANGED <<settingsVars, now, starter, run, sweep, claims, restUntil, backoff, lastFire>>

Answer(a) == Stored(a) \/ Limited(a) \/ TryNext(a)

-------------------------------------------------------------------------------

Tick ==
    /\ now < MaxTime
    /\ now' = now + 1
    /\ UNCHANGED <<settingsVars, memory>>

\* The process ends: everything but the documents is gone.
NewProcess ==
    /\ Restart
    /\ starter' = Idle /\ run' = NoRun /\ sweep' = Off /\ claims' = {}
    /\ worker' = [a \in Accounts |-> Gone]
    /\ restUntil' = [a \in Accounts |-> [x \in Keys |-> 0]]
    /\ backoff' = [a \in Accounts |-> Never]
    /\ lastFire' = [a \in Accounts |-> [x \in Keys |-> Never]]
    /\ UNCHANGED now

SweepStep ==
    \/ GiveUp \/ Prepare \/ Break \/ BatchEnd \/ Download \/ Stop
    \/ \E a \in Accounts : SkipAccount(a) \/ Launch(a)

WorkerStep(a) ==
    \/ Drop(a) \/ Decline(a) \/ Claim(a) \/ StopWalk(a)
    \/ \E x \in Exits : PassExit(a, x) \/ Fire(a, x)
    \/ StartRotating(a) \/ NoRotating(a) \/ RotatingAttempt(a) \/ RotatingOver(a)
    \/ Answer(a)

Aside == UNCHANGED <<now, memory>>

\* The steps of SettingsStep, each of which the probe does not see.
SettingsAside ==
    \/ \E r \in Requests :
          \/ SetDryRun(r) /\ Aside
          \/ SetRole(r) /\ Aside
          \/ WriteOverride(r) /\ Aside
          \/ WriteFails(r) /\ Aside
          \/ CopyScope(r) /\ Aside
          \/ WriteScope(r) /\ Aside
          \/ AssignScope(r) /\ Aside
    \/ LoadOverride /\ Aside
    \/ LoadScope /\ Aside
    \/ Swap /\ Aside

Next ==
    \/ SettingsAside
    \/ StartCopies \/ StartRun \/ StartRefused \/ Cancel
    \/ SweepStep \/ RenewTick
    \/ \E a \in Accounts : WorkerStep(a)
    \/ Tick \/ NewProcess

Spec == Init /\ [][Next]_vars

\* Goroutines that can run are run: downloads, fires and pauses end by their
\* timers.  Neither the ticker, nor a stop, nor the clock is assumed.
Fairness == WF_vars(SweepStep) /\ \A a \in Accounts : WF_vars(WorkerStep(a))

FairSpec == Spec /\ Fairness

-------------------------------------------------------------------------------
(* Properties. *)

RunStates == [running : BOOLEAN, canceled : BOOLEAN, done : Nat, total : Nat]
SweepStates == [pc : {"off", "prepare", "batch", "renew", "download"},
                todo : SUBSET Accounts, creds : SUBSET Accounts,
                exits : SUBSET (Exits \ {Direct}), rotating : BOOLEAN, counting : BOOLEAN]
WorkerStates == [pc : {"gone", "start", "walk", "fly", "rotate", "rotfly"},
                 left : SUBSET Exits, exit : Keys, tries : 0..RotatingAttempts]

\* Every variable has its type.
TypeOK ==
    /\ SettingsTypeOK
    /\ now \in 0..MaxTime
    /\ starter \in {Idle} \cup [pc : {"copied"}, scope : Scopes]
    /\ run \in RunStates
    /\ sweep \in SweepStates
    /\ worker \in [Accounts -> WorkerStates]
    /\ claims \in SUBSET Accounts
    /\ restUntil \in [Accounts -> [Keys -> Nat]]
    /\ backoff \in [Accounts -> Nat \cup {Never}]
    /\ lastFire \in [Accounts -> [Keys -> Nat \cup {Never}]]

\* A run is over only when nothing of it is left: once it is reported as not
\* running, so that another may start (probe_runner.go:110), no sweep, no worker
\* and no claim remains; workers live only during a batch, at most MaxInFlight
\* of them, and each claim is that of a live worker.
OneSweep ==
    /\ run.running <=> sweep.pc # "off"
    /\ sweep.pc # "batch" => Live = {}
    /\ Cardinality(Live) <= MaxInFlight
    /\ claims = {a \in Accounts : Harvesting(worker[a].pc)}

\* The progress of a fill adds up: an uncanceled run that has come to its
\* renewals has counted every target exactly once, and renewals count none.
FillIsCounted ==
    /\ run.done <= run.total
    /\ ~run.canceled /\ sweep.pc \in {"renew", "download"} => run.done = run.total

\* An exit is not used again for an account before the shorter of its rests has
\* passed, whatever the outcome of the last use, and although runs are stopped
\* and started again and renewals go over the same exits (rests outlive the run;
\* they are set before the request leaves).  The rotating list likewise.
LeastRest(x) == IF x = Rotating /\ RotatingRest < SuccessRest THEN RotatingRest ELSE SuccessRest
Uses(a, x) ==
    /\ worker[a].pc = "walk"
    /\ \/ worker'[a].pc = "fly" /\ worker'[a].exit = x
       \/ worker'[a].pc = "rotate" /\ x = Rotating
ExitsAreSpared ==
    [][\A a \in Accounts, x \in Keys :
          Uses(a, x) => lastFire[a][x] = Never \/ now >= lastFire[a][x] + LeastRest(x)]_vars

\* An account that was answered 429, 401 or 403 is left alone until its rest is
\* over: by the other exits of that walk, the rotating list, renewals, new runs.
LimitedAccountsRest ==
    [][\A a \in Accounts :
          worker[a].pc \in {"walk", "rotate"} /\ worker'[a].pc \in {"fly", "rotfly"}
          => now > backoff[a]]_vars

\* What the one who starts and stops the probe sees of it.
Stage == IF ~run.running THEN "idle" ELSE IF run.canceled THEN "stopping" ELSE "running"
Flying == {a \in Accounts : InFlight(a)}
Switch == INSTANCE ProbeSwitch WITH stage <- Stage, working <- claims, flying <- Flying

\* The probe keeps to its switch (probe_runner.go:110-136, 289-306, 334-406): one
\* account is worked on by one worker, no account is taken up and no request is
\* fired without a run or once its stop was asked for, by no worker, exit,
\* rotating address or renewal, and the run is over only after the last answer.
KeepsSwitch == Switch!Spec

\* A run that is asked to stop does stop, wherever its workers are.
StopEnds == (run.running /\ run.canceled) ~> ~run.running
===============================================================================
