# A verification of the Codex turn-state plugin and its relay

This directory specifies, in TLA+, the concurrent core of the repository: the
CLIProxyAPI plugin (Go, the directory below `src/.svn`) and the cloud relay
(`src/relay/index.js`). TLC checks the specifications on small instances; TLAPS
proves the safety properties for every value of the constants.

## 1. The system

| part | source | state | operations | works with |
|---|---|---|---|---|
| Route-cookie pool | `route_cookies.go`, `route_cookie_revocation.go`, `main.go` | `state.cookies`, `cookiesDirty`, `cookiesFlushed`, `pendingAuth`, `route-cookies.json` | note, revoke, mark an outcome, choose, flush, load, clear all, reconfigure, shut down | interceptors, probe runner, management |
| Cloud mint service | `cloud_mint_service.go`, `cloud_mint_client.go`, `cloud_mint_seed.go`, `cloud_mint_config.go` | `cache`, `jobs`, `busy`, the service's context, `cloudServiceState` | intercept, get, start, run, reset, close | relay (HTTP), configure, dashboard |
| Stream guard | `main.go` 779-1056 | `pendingModelScans`, `blockedStreams` | scan a chunk or body for the served model, block a stream | pool (outcome marks), observations |
| Observations | `observations.go` | buckets, totals, recurring lengths, `dirty`, `writing`, `observations.json` | record, learn a length, flush in the background, load, delete, clear | interceptors, dashboard |
| Probe runner | `probe_runner.go`, `auth_catalog.go` | the run and its buckets, cancellation, exits that rest or are claimed, the renewal loop | start, cancel, sweep, consume, renew | pool, management API of the host |
| Scope and override files | `management.go`, `store.go`, `main.go` 1125-1209 | `probe-scope.json`, `runtime.json`, `state.config` | dry_run, role, save scope, reconfigure | all of the above |
| Request log and dashboard | `cloud_request_log.go`, `cloud_ws_chain.go`, `cloud_mint_dashboard.go`, `cloud_mint_log.go` | pending requests, 80 rows, websocket chains | remember, response, event, render | interceptors, cloud mint |
| Proxy check | `proxy_check.go` | none (six checks at a time) | check | management |
| Relay: mint | `relay/index.js` 520-1714 | `mintCache`, one run's attempts, pair, tickets, errors, deadline | pick or mint a seed pair, fire an attempt, verify, cool down, answer | plugin, upstream |
| Relay: websocket tunnel and bridge | `relay/index.js` 1875-2369 | sockets, setup tries, client queue, heartbeat | set up, queue, forward, close | clients, upstream, mint |
| Relay: transparent forwarding | `relay/index.js` 1716-1850 | none | forward, grade | clients, upstream |
| Dashboards | `ui.html`, `cloud_mint_ui.html` | presentation | | management |

Every handler of the plugin runs on a goroutine of the host and is a sequence of
short critical sections (`state.mu`, `pendingAuth.mu`, the service's `mu`,
`cloudServiceState`, the observations' `mu`); files are written with a rename,
sometimes under the lock and sometimes after it. The hard behaviours are
therefore: a decision made under one lock and used under the next; responses
handled in another order than they arrived; request ids used again; settings and
services replaced under running handlers; flushes that are throttled, fail, or
race a load; waits, timeouts and late outcomes; restarts.

What makes each part correct:

- pool: a pair is charged only with outcomes of requests that carried it; a
  removed pair stays out; sightings move forward; what is not dirty is on disk.
- cloud mint: every request is answered, with a ticket of its own work that is
  still good or as `fail_closed` says; slots, cache and busy groups are neither
  leaked nor exceeded; a late outcome serves the retries until it ends.
- stream guard: once a mismatch is seen nothing of that stream passes; the pair
  is charged once; a reused id does not inherit the block (see section 5).
- observations: a length counts as normal once it recurs; what is not dirty is
  in the file; flushes do not overlap; the background writer always gets to write
  again.
- probe runner: one run at a time, whose workers and claims end with their batch;
  a stop ends it; a fill counts each target once; a used exit and a limited account
  rest, over renewals and runs.
- override files: what the dashboard answered as kept is in force until another
  request names it, over reconfigurations and restarts; the probe role always has
  a directory.
- relay mint: the attempt budget and deadline are kept, a returned ticket is
  unexpired and belongs to the returned pair, every model is accounted for.
- bridge: messages of a client arrive in order and once; everything is shut down
  exactly once; a late upgrade leaks no socket.

## 2. Modules

| module | models |
|---|---|
| `RouteCookiePool` | the pool, its file, the records of requests, and every handler that touches them, one action per critical section |
| `RouteCookiePoolProofs`, `RouteCookiePoolSafety` | its theorems |
| `TicketGate` | the abstract promise of the cloud mint to a request |
| `CloudMintService` | the service as written: handlers, jobs, cache, reset and close; it implements `TicketGate` |
| `CloudMintServiceProofs` | its theorems |
| `TicketOffice` | the abstract promise of the relay's mint to a call |
| `RelayMint` | the mint as written: rounds, renewal, cooldown, budgets, stops, the shared cache; it implements `TicketOffice` |
| `RelayMintProofs`, `RelayMintOfficeProofs` | its theorems |
| `MessagePipe` | the abstract promise of the relay's websocket bridge to a client |
| `WsBridge` | one bridge as written: queue, setup tries, mint loop, upstream connection, shutdown; it implements `MessagePipe` |
| `WsBridgeProofs` | its theorems |
| `Observations` | the tally of serving states and its file: events, clears, flushes, loads, ends of the process |
| `ObservationsProofs` | its theorems |
| `Settings` | role, dry_run and scope, the two documents they are kept in, the requests that change them, reconfigurations and restarts |
| `ProbeSwitch` | the abstract promise of the probe to the one who starts and stops it |
| `ProbeRunner` | the probe as written, over `Settings`: runs, sweep, workers, claims, rests, new processes; it implements `ProbeSwitch` |
| `ProbeRunnerProofs` | theorems of both |
| `MC*` and `*.cfg` | instances for TLC |

### 2.1 RouteCookiePool

An attempt of a request walks through the sections of `interceptAfterAuth`
(`InterceptProbe` or `InterceptAfterAuth`, then `PassUnchanged`,
`RememberUnchanged` or `ChooseRoute` and `SendSteered`) and of
`harvestFromResponse` (`RecallRequestRecord`, `HarvestCookies`,
`HarvestOutcome`), then the scan of the body (`ServedModelMismatch`,
`ResponseDone`). `now` is read before the lock, as in the code, and kept in the
attempt (`t`), so a late handler brings an early instant. Every change of the
pool flushes in the same section (`ChangePool`): throttled, written, or failed.
A pair that is not in the map is the entry with `seen = 0`. `clear` is the handler
of "clear all", whose write is made without the lock. `gone`, `clearedAway` and
`offLock` are history.

Not modelled: the text of cookies, gateways and labels, an unreadable or legacy
file, and the bound of `pendingAuth`, which only drops expired records. A Go map
read outside the lock (clear all) is modelled as a consistent copy.

Two facts the properties are written around, both true of the code: `GoodAt` and
`BadAt` may move backwards, because a late handler stamps its own instant; and an
attempt that passed while the role was probe leaves the record of an earlier
attempt of its id in place (`bare` in `OnlyTheCarrierIsCharged`).

### 2.2 CloudMintService and TicketGate

A handler asks (`Ask`, the settings and the credential are fixed), binds the
current service (`Bind`) and calls `start`, whose outcomes are five actions in the
order of its tests; it waits on a channel with a timer and the service's context
(`WaitDone`, `WaitOver`) and answers (`Answer`), looking at the clock again. A job
calls the relay (`RelayGrants`, `RelayFails`) and ends in one locked section
(`Finish`). `Reset` is the new service that `configure` installs, `Close` the
shutdown. A work is what `cacheKey` identifies; `Group` gives its account and
token. `minted` is history and a variable of the gate. `landed` is history, too:
what the last job of a work has left, told from the jobs' ends alone, so that
`LateOutcomesServeRetries` can compare what a later handler is given with what an
earlier job brought, also when that job outlived its waiters or its deadline. It
forgets the other works when the cache is full, since the code then drops any one
of them.

`TicketGate` is what a caller may rely on: a request that asks is answered, with
a ticket minted for its own work that outlives its injection by more than a
second, refused, or forwarded bare if it is not `fail_closed`. The mapping takes
`asking` and `out` from the handlers.

Requests are one-shot and services are numbered, so a run ends when all requests
have left: its cfg switches the deadlock check off. What a request in the same
service finds later is covered by the other requests.

### 2.3 RelayMint and TicketOffice

A call is a record of the locals of `mintWithLifetime`; `pc` says at which await
it is (`fly`, `verify`, `cool`) or which part of the code between two awaits comes
next (`next`, `judge`, `reply`). Node runs that code to its end: `Quiet` lets
other calls, the clock and aborts in only when every call is at an await.
`Begin` reads the cache; `Shoot`, `Unable`, `GiveUp`, `ModelsDone` and `RoundDone`
are the heads of the loops; `Land` and `Cut` end `runAttempt`, with the pair
adopted and cached (`Adopt`, `StorePair`); `Refused`, `Unfit` and `Fit` are the
tests of `mintModelRound` in their order, `Echo` and `EchoFails` the verification,
`Keep` what follows it; `Cooled`, `CoolCut` end the cooldown, `Reply` is the end of
the handler and `Abort` the lifetime's timer and close event.

A lane is what a cache key holds besides kind and model: credential, transport,
target and seed. A ticket carries what the upstream knows of it (lane, model,
length, issue, node, strength), so a property can say whether it is what the
caller asked for. An attempt brings back one of `Shots`: success, a refusal of the
model, of the credential, or a failure, with or without a ticket, a whole pair or
half a one. A full cache gives up any entry (the code: the oldest), so that the
properties do not lean on the order of insertion; an entry of no life is one that
is dropped when read.

`TicketOffice`: a visitor arrives or is turned away, and leaves once, with
nothing, a refusal, or tickets of its own lane, of the length asked for, on its
target, unexpired and within the life it allows, next to a live pair.

Calls are handled once, so the runs switch the deadlock check off.

### 2.4 WsBridge and MessagePipe

One bridge, from the accepted upgrade on; bridges share nothing but the mint's
upstream. Every callback is one action: a message, close frame or close event of
the client (`ClientMessage`, `ClientStops`, `ClientClosed`), the setup timer, the
end of an attempt or of its verification in `bridgeMintTicket` (`AttemptEnds`,
`VerifyEnds`), error, answer or upgrade of the upstream request (`RequestFails`,
`LateError`, `Upgrade`) and the upstream's messages and end. `Shutdown` and
`TrySetup` are the two functions they call; both take the requests as they will
be. `ClientBreaks` and `UpstreamBreaks` are the moments at which Node destroys a
socket, some time before its close event: what is written in between is lost.

A round is one try of the setup and stands for its exit, its ticket and its
connection, so `token` and `up` are rounds and can be compared. Messages are
numbered in the order they are read; `arrived` holds what was written to the
upstream, with the ticket it carries. `setupStarted`, `upReady` and `producedOutput`
are read off `tries`, `up` and `outputs`, with which the code sets them. `settled`
is `request[r] # "pending"`.

Left out: the heartbeat and pongs (control frames, no state), the refusal of a
request that is no upgrade, the formats and limits of frames: any message may be
followed by a stop. An upgrade that carries bytes is an upgrade and then a
message. A bridge ends, so its run switches the deadlock check off.

`MessagePipe`: a pipe in both directions, in order and whole, that ends once with
a last word.

True of the code and not forbidden here: after the client has gone, an attempt
that was in flight may still be verified (`VerifyEnds` of a closed bridge), which
costs the account requests but no attempt; and `shutdown` leaves a request without
an upgrade to its peer.

### 2.5 Observations

One action per critical section of `observations.mu`, and one for the rename of
the file: an event (`Record`, with the eviction), the clears of the dashboard,
the steps of one call of `flushObservations` (`Begin` takes the snapshot and marks
memory clean, `Write` or `WriteFails`, `Remember` marks it dirty after a failure, `End`
gives the writer back), a load, the shutdown with its own flush, and the end of
the process at any moment. `flushes` are the calls under way; each keeps the
directory of its call. `rested` is the test of `observationsFlushInterval` against
`lastOut`.

A bucket is the second of its last event, which is what eviction compares and
what tells a stale file from a current one; counts, hourly slots, learned lengths
and the feed of recent events change in the same critical sections and go
through the same snapshot. A missing, foreign or unreadable file reads as empty.

An event reads the clock just before the lock; the model reads it inside. An
earlier instant would only change which bucket is the oldest, and let a due write
wait for the next event.

Left out: the learned lengths (counters of the same sections and snapshot), the
summaries of the status page, the error of a marshalling that cannot fail, and
that a snapshot copies a bucket but shares its `Hourly` slice and its
`SignedLens` map with memory (`observations.go` 378-391): an event during the
marshalling writes what the marshaller reads without the lock, which the Go
runtime may end with a fatal error. The end of the process by it is an `Exit`; a
file whose hourly slots are newer than its totals has no counterpart here.

### 2.6 Settings

`config` is `state.config`; a reconfiguration reads `runtime.json`, then
`probe-scope.json`, before it takes the lock (`LoadOverride`, `LoadScope`, `Swap`).
The requests for dry_run and role change the config under the lock and write the
copy they took there (`SetDryRun`, `SetRole`, then `WriteOverride` or `WriteFails`);
a saved scope is copied under the lock, written without it, and assigned under it
(`CopyScope`, `WriteScope` or `WriteFails`, `AssignScope`). `Restart` is the end of
the process at any moment and the `configure` of the next. A document is a record,
missing, malformed and empty ones are one value, and `asked` is history: what each
setting was last answered as kept.

Left out: the models list (it travels with the other lists in the same copy and
document), the normalisation of lists, and the wording of the answers.

### 2.7 ProbeRunner

`ProbeRunner` extends `Settings`. A start copies the scope under `state.mu`
(`StartCopies`) and installs the run under the runner's lock (`StartRun`,
`StartRefused`); `Cancel` cancels its context. The sweep is one goroutine:
`Prepare` or `GiveUp`, the batch of the fill (`SkipAccount`, `Launch`, `Break`,
`BatchEnd`), then the renewals (`RenewTick`, `Download`, the batch again) until it is
stopped (`Stop`). A worker looks for the stop (`Drop`), claims its account or
declines, walks its static exits (`PassExit`, `Fire`), then the rotating list
(`StartRotating`, `RotatingAttempt`), and every fire is answered (`Stored`,
`Limited`, `TryNext`). `restUntil` and `backoff` are `probeCooldown` and
`probeAccountRest`: they outlive a run and are forgotten by `NewProcess`.
`lastFire` is history.

`ProbeSwitch`: no run, a run, or a run that was asked to stop; accounts are taken up,
`MaxInFlight` at most, and requests fired only in a run that was not asked to stop,
and a run ends when no account is worked on. The claims are its accounts. `Fire` and
`RotatingAttempt` hold the look for a stop, the rest of the exit and the request
together: the request carries the run's context (`probe_runner.go` 762), so one whose
run was canceled in between fails at once, which is a request canceled right after it.
A launch holds the look for a stop and the wait for a slot together: a worker that
starts after a stop drops its cell by its own look (`Drop`). A claim that the
account's rest gives back at once is no claim.

Abstracted: the model is `models[0]` throughout, so that claims and rests are per
account; the order of accounts and of exits is any (the code rotates it by the
account's place); which credentials are usable is any; whether the pool is low,
which lets a renewal tick act, is any at each tick. What a good answer puts into
the pool is `ProbeConsume` of `RouteCookiePool`. The two clocks of the rests test
differently, and so does the model: an exit is ready at the end of its rest, an
account only after it.

## 3. Runs

| run | instance | shows |
|---|---|---|
| `pool_storage` | 2 pairs, 1 request, 2 directories and none, both roles, dry_run, one reload, one clear, cut by `SmallCases` | `TypeOK`, `CleanPoolIsDurable`, `RemovedPairsStayOut`, `OnlyTheCarrierIsCharged`, `SightingsMoveForward`, `ShutdownKeepsThePool` |
| `pool_cleared` | 1 pair, 1 directory | violated: `ClearedPairsAreNotSteered` |
| `mint_gate` | 2 requests, 3 works of 2 credentials, one refused when it fails, 2 workers, 1 cache place, 1 reset | `TypeOK`, `SlotsMatchJobs`, `WaitersHaveAJob`, `LateOutcomesServeRetries`, `KeepsTheGate`, `JobsEnd` |
| `mint_accounts` | 2 requests, an old and a refreshed token of one account, 2 workers | violated: `AccountsAreSerial` |
| `relay_rounds` | 1 call, 3 models, with or without a pair of its own, 4 attempts, 3 instants | `StoppedCallsAccountForAll`, `ShotsAreWarranted`, `KeepsOffice`, `CallsEnd` |
| `relay_cache` | 2 calls, 2 lanes, 1 model, 2 cache places, 2 lengths, lives and strengths, verified | `TypeOK`, `CacheIsSound`, `KeepsOffice` |
| `relay_vanished` | 1 call, 2 models | violated: `ModelsAccounted` |
| `bridge` | 1 bridge, 3 tries of 2 attempts, verified or not, 3 messages, one without a ticket, 2 outputs | `TypeOK`, `OneSetup`, `TicketMatchesDoor`, `AttemptsBounded`, `NothingLeaks`, `NoShotForNobody`, `KeepsPipe`, `MessagesServed` |
| `observations_stores` | 2 buckets and place for 1, 2 directories, 2 seconds, 1 failing write | `TypeOK`, `OneWriter`, `CleanIsSaved`, `SavesGoOn` |
| `observations_storeless` | 1 bucket, 1 directory and none | violated: `SavesGoOn` |
| `probe_runs` | 1 or 2 accounts, 1 exit and the rotating list, or the direct exit, or no directory, 2 instants, any number of starts, stops, renewals, saves, reconfigurations and restarts, cut by four constraints | `TypeOK`, `OneSweep`, `FillIsCounted`, `ProbesHaveAStore`, `KeptSettingsHold`, `ExitsAreSpared`, `LimitedAccountsRest`, `KeepsSwitch`, `StopEnds` |
| `settings_kept` | 2 requests that name different settings, 2 accounts, 1 directory | violated: `KeptSettingsHold` |

The bounds (`MaxTime`, `MaxReloads`, `MaxClears`, `MaxServices`) are just large
enough for the cases to meet: two instants let a handler be overtaken by a later
one, a throttle of two lets a change wait and miss its flush, a `PendingTTL` of
one lets a record expire, one reload brings a file back, one cache place and two
works force evictions, a wait and a timeout of one instant let an outcome come late
and a job outlive its deadline. In
the relay, four attempts leave one for each of three models and one for a renewal,
one attempt per model and round makes a cooldown come early, and tickets that
live one instant run out in it. The bridge has the code's own three tries; three
messages are one to start with, one for the queue and one for the open connection,
and two attempts per try are one to repeat and one to end with. In
`Observations` two seconds tell an event during a flush from one before it, one
failed write followed by a good one shows the retry, two buckets with place for one
make evictions, and two directories move the store; starts, clears and flushes are
not bounded. In `ProbeRunner` one worker at a time already waits for its turn behind
another account; within its two instants the rest after a success ends and the
longer one after a failure does not, so both outcomes of a renewal occur; nothing else is
bounded but the clock. `SYMMETRY` is used where no property tells the permuted values apart and no
liveness is checked. The proofs do without the bounds and without the cuts below.

Three instances are cut by action constraints. What a cut leaves out of a passing run
is either independent of what the run asks, as said below, or covered by the proofs,
which know no cut:

- `SmallCases` of `pool_storage`: either one pair meets files and a clear, or there
  is no directory and two pairs meet responses in any order and dry_run. A clear
  together with a restart or reconfiguration meets requests only between their
  handlers; each of them alone meets every step of a handler. The combination is left to
  the theorems of `RouteCookiePoolSafety`.
- `probe_runs`: requests and reconfigurations come one at a time (`OneAtATime`:
  concurrent ones are the question of `settings_kept`, which violates
  `KeptSettingsHold`); `config.yaml` changes directory and exits only while the plugin
  is down (`SameYaml`); no request or reconfiguration is under way during a batch
  (`BetweenBatches`: a batch works on the copy it took, so the two commute); role and
  dry_run are changed only in a process that probes nothing (`RolesApart`: no step of
  the probe reads them).
- `settings_kept` leaves concurrent requests that name the
  same setting out (`DifferentSettings`), because it has no answer which of them
  should win.

Each property of a passing run is paired, in `PROJECT.json`, with a mutant: an
operator next to the one it replaces that makes a plausible mistake (a flush that
forgets its failure, a record that survives its id, a slot count that ignores
the busy group) and violates the property.

Fairness (`FairSpec`): weakly fair are the handlers and the jobs, because a
goroutine that can run is run, the call to the relay carries a deadline and
`RelayFails` is what its end looks like, and a wait ends with its timer, the
context or the channel. The clock, resets and requests are not fair. In
`RelayMint` the loop of each call is weakly fair: code that can run runs, every
request and every wait of a call has its own timer. Neither the deadline of the
call nor the departure of the client is assumed to happen: `CallsEnd` holds by the
budgets alone. In `WsBridge` the setup timer fires, attempts and verifications end by
their timers, and destroyed sockets emit their close events; clients, upstream
requests and connections may do nothing for ever. `MessagesServed` needs no more. In `Observations` flushes run, the interval passes,
and events keep coming: the last is an assumption on the clients, for the code
starts a writer only at an event. In `ProbeRunner` the sweep and each worker are
weakly fair: downloads, fires and pauses end by their timers. The ticker of the
renewals, a stop and the clock are not assumed, so `StopEnds` says that a run
asked to stop ends by the steps of its own goroutines.

### Disagreements

Each run that expects a violation has a theorem that says when the promise does hold
(section 4); for `SavesGoOn` it is the safety behind it.

- `ClearedPairsAreNotSteered`: clear all answers success when the rewrite of the
  file failed (`management.go` 940-942), and the next reload brings the pairs
  back; `ui.html` line 1179 promises the opposite.
- `AccountsAreSerial`: jobs are serial per account and access token, not per
  account (`cloud_mint_service.go` 102); `cloud_mint_ui.html` line 36 says per account.
- `ModelsAccounted`: a model refused while it renews the pair (`relay/index.js`
  1611) whose ticket then runs out in the cooldown is in neither `tickets` nor
  `errors`; `relay/README.md` line 169 says it is in `errors`.
- `SavesGoOn`: an event that is due while `store_dir` is empty claims the writer and
  starts none (`observations.go` 304-313); once a directory is configured no event is
  ever due, and `observations.json` is first written by the shutdown. `main.go` line 599
  says that `store_dir` holds that file, `config.example.yaml` line 30 that only the
  empty string keeps the plugin from writing.
- `KeptSettingsHold`: with two requests at once that change different settings, the
  older copy of role and dry_run may be the last one written to `runtime.json`
  (`management.go` 410-420, 437-451), and a saved scope assigns the copy it took
  before another one was saved (769-813). A restart, or the assignment itself, undoes
  what was answered as persisted (line 428) or as saved and in force, over
  `config.yaml` (line 832). `keyless_test.go` line 169 and `probe_scope_test.go` line
  346 demand that both survive a restart. One request at a time keeps the property
  (`probe_runs`).

Met but not checked by a run of their own: `CleanIsSaved` is stated up to the next
load or shutdown that meets a flush under way (`overlapped`). Without that TLC
shows ways to lose observations: the shutdown's flush finds memory clean or
writes a newer snapshot while a background writer still holds an older one, which
is then lost or renamed over it; a load of the same directory again reads the
file that a background writer is about to replace; and a flush called for one directory takes its
snapshot after a load of another one, and writes the buckets of the second into
the file of the first. Also met: the requests of `verifyFullStrength` are neither
counted nor cut off at the deadline of 75 s, which `relay/README.md` (lines 136,
139, 210) says bounds the whole call. `Echo` and `EchoFails` are therefore free of
`stop`.

## 4. Proofs

| theorem | states |
|---|---|
| `RouteCookiePoolProofs!TypeCorrect` | `Spec => []TypeOK` |
| `RouteCookiePoolSafety!CleanPoolDurable`, `RemovedStayOut`, `ShutdownSaves`, `SightingsForward` | the storage properties and the order of sightings |
| `RouteCookiePoolSafety!CarrierCharged` | `Spec => OnlyTheCarrierIsCharged` |
| `RouteCookiePoolSafety!ClearsHold` | `Spec /\ [][ClearsGoWell]_vars => ClearedPairsAreNotSteered` |
| `CloudMintServiceProofs!TypeCorrect`, `SlotsMatch`, `NobodyWaitsInVain` | the invariants of the service |
| `CloudMintServiceProofs!Retries` | `Spec => LateOutcomesServeRetries` |
| `CloudMintServiceProofs!AccountsSerialWithOneToken` | `OneTokenPerAccount => (Spec => []AccountsAreSerial)` |
| `CloudMintServiceProofs!ImplementsGate` | `Spec => Gate!Safe`: the refinement, without its fairness |
| `RelayMintProofs!TypeCorrect`, `CacheSound`, `StoppedAccount` | the invariants of the mint |
| `RelayMintProofs!AccountsForAll` | `Spec /\ [][RefusedKeepTickets]_vars => []ModelsAccounted` |
| `RelayMintOfficeProofs!ShotsWarranted` | `Spec => ShotsAreWarranted` |
| `RelayMintOfficeProofs!ImplementsOffice` | `Spec => KeepsOffice`: the mint implements `TicketOffice` |
| `RelayMintOfficeProofs!CallsWindDown` | `Spec => [][WindsDown]_vars`: the variant behind `CallsEnd` |
| `WsBridgeProofs!TypeCorrect`, `SetupIsOne`, `TicketAndDoor`, `NothingIsLeft`, `CostIsBounded` | the invariants of the bridge |
| `WsBridgeProofs!NobodyIsServed` | `Spec => NoShotForNobody` |
| `WsBridgeProofs!ImplementsPipe` | `Spec => KeepsPipe`: the bridge implements `MessagePipe` |
| `ObservationsProofs!TypeCorrect`, `WriterIsAlone`, `CleanMeansSaved` | the invariants of the tallies and their file |
| `ObservationsProofs!ClaimsAreUsed` | `Spec /\ [][DueHasAStore]_vars => []ClaimIsUsed` |
| `ProbeRunnerProofs!TypeCorrect`, `ProbesAlwaysHaveAStore`, `RunsDoNotOverlap`, `FillCounts` | the invariants of the probe and of its settings |
| `ProbeRunnerProofs!LimitedAccountsAreLeftAlone`, `ExitsRest` | `Spec => LimitedAccountsRest`, `Spec => ExitsAreSpared` |
| `ProbeRunnerProofs!KeptWhenApart` | `Spec /\ []Apart => []KeptSettingsHold` |
| `ProbeRunnerProofs!ImplementsSwitch` | `Spec => KeepsSwitch`: the probe implements `ProbeSwitch` |
| `ProbeRunnerProofs!StopsWindDown` | `Spec => [][WindsDown]_vars`: the variant behind `StopEnds` |

Assumptions: `BridgeAssumption` makes the bounds of the bridge naturals, its tries
and attempts positive. `RelayAssumption` gives the constants of the mint their types, finite
sets of models and lanes and positive budgets. `PoolConstants` and `MintConstants`, which only give the constants
their types, a positive `MaxTime`, `CacheMax` and `MaxServices`, and say that works
with the same group have the same account and that a granted ticket outlives the
margin (`validateCloudMint` refuses others). `ObservationsAssumption` types the constants of
the tallies. `SettingsAssumption` says that the accounts are
finite, that the direct exit is an exit, that documents and requests are of
their types and that a missing document is none of them; `ProbeAssumption` that the rotating list is no exit, that the limits
and rests are naturals, and that a success rests an exit no longer than a failure.

- Charges: a handler past its choice carries what its record names, and a record
  of an attempt is replaced when the id begins again; so the key that a response
  recalls is the one its attempt carried.
- Storage: the invariant ties the clean pool to its file entry by entry and says
  when the last flush was stamped; the exception for entries newer than that
  stamp is what makes it inductive.
- Cloud mint: `IInv` adds to the types that jobs and cache of a service are
  finite and within their limits and match `busy` (`SlotsOf`), what a handler
  knows at its program point (`HandlerInv`: a waiter whose channel is open has its
  job in the map; a waiter that was woken, or a handler that has an outcome, holds
  one of its own work), and that every good outcome anywhere was minted for its
  work (`Genuine`). The refinement then is one lemma per action. `Retries` needs that
  the history and the cache agree (`Remembered`, from `Finish` and the room a full
  cache makes) and that a handler with a service moves by its own start only.
- Relay mint: `IInv` says slot by slot what the cache may hold (`SlotGood`) and, for
  each call, that a shot under way has its model and a try left, that what is held
  is due to what the call wants (`Due`), that missing models are neither held nor
  refused, and that an error stands only for a model without a ticket. The last
  two are what makes the answer consistent and the requests warranted.
- Bridge: `DoorInv` says that a request that can still be upgraded, or a connection,
  is the current round's and that nothing is minted next to it; it is what makes a
  late error or upgrade harmless. `OrderInv` says where the client's messages are:
  all in the queue before the upgrade, all written after it while the connection
  is open, and a prefix once it broke. `CostInv` adds what each round has spent.
- Observations: clean memory need not be in the file yet. `Fresh` says where it is:
  in the file, or in the snapshot of the one writer on its way there; `Solo` says
  that this writer is the only one, unless a load or a shutdown overlapped it.
- Probe: accounts still to be launched have no worker (`Separate`), so a launch
  overwrites none; done targets, live workers and targets still to come add up to the
  total (`FillAddsUp`); every exit used rests at least its shorter rest since that use
  (`Resting`), because the mark precedes the request and a success, which shortens it,
  comes no earlier than the use; and an account with a limit has left its walk
  (`Rested`). A reconfiguration under way carries a directory if it carries the probe
  role (`ReloadUsable`), which makes `ProbesHaveAStore` inductive.

The promises of the documentation that the code does not keep are proved under a
hypothesis that names the one thing the code leaves open; without it TLC finds the
property violated (section 3):

- `ClearsHold`: the write of a clear succeeds, no configure comes between its
  sections, and the store stays the same. The invariant (`Swept`) follows the cleared
  pairs through the sections of the clear: out of the map first, and out of the file
  once the document that was rendered without them is renamed.
- `AccountsSerialWithOneToken`: no account asks with two tokens, so that the group of
  a work is its account; then it is `SlotsMatchJobs`.
- `AccountsForAll`: no refused model loses, in the cooldown, a ticket it has. Then
  every model of a call that was not stopped has a ticket, an error or its turn to
  come at every point (`Covered`).
- `ClaimsAreUsed`: no event comes due without a directory. Then a claimed writer always
  has a flush under way, which is what `SavesGoOn` needs besides fairness.
- `KeptWhenApart`: requests that change the same document do not overlap, and none
  overlaps with configure. The invariant ties memory to the documents: what was
  answered is in memory and in the file of its directory, or in the write under way,
  or in what configure has already read.

Liveness is out of the prover's reach. Two of the properties rest on a step property
that is not, and that is the part of the argument which is about the code: each step of the
loop has a rank, and with weak fairness of the loops what is left is counting.

- `CallsWindDown`: a step of a call ends it, spends an attempt or lowers its rank, and
  no other step raises it. The rank puts a round that may
  go on to a cooldown (`Hopeful`) above the cooldown, and that above the round it
  begins: until such a round sends a request it can only end in the answer.
  Attempts are limited, so a call takes at most
  `(MaxTotal + 1) * (10 + 2 * Cardinality(Models))` steps.
- `StopsWindDown`: once its stop is asked for, a run is not asked back; a worker only
  answers, passes to the rotating list or leaves, the sweep only empties its batch and
  passes on to its end, and neither is started anew.

Only model-checked: that the loops are in fact taken (`CallsEnd`, `JobsEnd`,
`MessagesServed`, `SavesGoOn`, `StopEnds`, the fairness of `TicketGate`). No recursive
operator is used in a module that is proved about.

## 5. Not modelled

Everything that was planned is modelled, checked and, but for liveness, proved:
the pool, the mint of both sides with their promises, the bridge with its promise,
the tallies, the settings, the probe with its promise. What could still be proved are
the variants behind `JobsEnd` and `MessagesServed`. What is left out:

- the tables of the stream guard (`main.go` 893-990). They are maps from the host's
  request ids to instants: that a block is dropped after 15 minutes, or a scan met by
  another stream, depends on when the host uses an id again and how it spaces the
  chunks of a stream. That code is not in this repository, and any assumption about
  it would decide the properties. The mark a mismatch makes is in `RouteCookiePool`.
- the request log, the websocket chains and the rows of the dashboard
  (`cloud_request_log.go`, `cloud_ws_chain.go`, `cloud_mint_dashboard.go`,
  `cloud_mint_log.go`): bounded rows in memory for display; nothing is decided from
  them.
- `proxy_check.go`: six checks at a time, no state between calls.
- `wsRelay` (two sockets spliced) and the transparent forwarding and grading of the
  relay: I/O and functions of one answer.
- `ui.html`, `cloud_mint_ui.html`: presentation.
- parsing and formatting throughout, unless a property is about it.
