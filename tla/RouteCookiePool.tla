--------------------------- MODULE RouteCookiePool ---------------------------
(***************************************************************************)
(* The process-wide pool of route-cookie pairs of the Go plugin: every     *)
(* response feeds it, every Codex request in the business role is steered  *)
(* with its best live pair, and a file in store_dir carries it across a    *)
(* restart.                                                                *)
(*                                                                         *)
(* A handler is a sequence of critical sections; each of them is one       *)
(* action, so that whatever the code reads under one lock and uses under   *)
(* the next may have changed in between.  Instants are naturals (the pool  *)
(* stores RFC 3339 seconds); 0 is Go's zero time.Time.                     *)
(***************************************************************************)
EXTENDS Naturals, FiniteSets

CONSTANTS
    Pairs,          \* the values a __cflb/__oailb pair can take
    Requests,       \* request ids of the host
    Dirs,           \* store directories an operator may configure
    NoDir,          \* store_dir ""
    Configs,        \* the settings an operator chooses from
    NoPair,         \* no pair (an empty key, a request without route cookies)
    TTL,            \* ttl_seconds
    Penalty,        \* routeCookieBadPenalty
    FlushInterval,  \* routeCookieFlushInterval
    PendingTTL,     \* pendingAuthTTL
    Lifetimes,      \* Max-Age values a response may declare; 0: none declared
    MaxTime,        \* bound: the clock stops here
    MaxReloads,     \* bound: reconfigurations and restarts
    MaxClears       \* bound: "clear all" requests

\* What the pool reads of state.config.  configure refuses the probe role
\* without a store_dir.
Config == {c \in [dir: Dirs \cup {NoDir}, dryRun: BOOLEAN, probe: BOOLEAN] :
              c.probe => c.dir # NoDir}

ASSUME PoolConstants ==
    /\ {TTL, Penalty, FlushInterval, PendingTTL, MaxTime, MaxReloads, MaxClears}
         \subseteq Nat
    /\ MaxTime > 0
    /\ Lifetimes \subseteq Nat
    /\ NoPair \notin Pairs
    /\ NoDir \notin Dirs
    /\ Configs \subseteq Config

VARIABLES
    now,            \* the wall clock
    mode,           \* "up", or how the process ended: "stopped", "crashed"
    cfg,            \* state.config: store_dir, dry_run, role = probe
    pool,           \* state.cookies
    dirty,          \* state.cookiesDirty
    flushedAt,      \* state.cookiesFlushed
    disk,           \* route-cookies.json of every directory
    pending,        \* pendingAuth.byID
    att,            \* the handlers of the current attempt of every request
    clear,          \* the handler of a "clear all" request
    reloads,        \* how often the pool was loaded from a file
    clears,         \* how many clears have begun
    gone,           \* history: pairs removed since the last load, not seen since
    clearedAway,    \* history: pairs a clear removed, not seen since
    offLock         \* history: directories whose file a clear wrote last

reqVars   == <<pending, att>>
fileVars  == <<dirty, flushedAt, disk, offLock>>
clearVars == <<clear, clears>>
vars == <<now, mode, cfg, pool, dirty, flushedAt, disk, pending, att, clear,
          reloads, clears, gone, clearedAway, offLock>>

-----------------------------------------------------------------------------
(* Pool entries. *)

Entry == [seen: Nat, expire: Nat, good: Nat, bad: Nat]

\* A pair that is not in the map: the zero routeCookieEntry.
NoEntry == [seen |-> 0, expire |-> 0, good |-> 0, bad |-> 0]

EmptyPool == [k \in Pairs |-> NoEntry]

InPool(p, k) == p[k].seen # 0

\* No entry without a sighting: pool files and the map hold what was noted.
WellFormed(p) == \A k \in Pairs : InPool(p, k) \/ p[k] = NoEntry

\* Past its life: ttl after it was last seen, or its own deadline.
Lapsed(e, t) == t >= e.seen + TTL \/ (e.expire # 0 /\ t >= e.expire)

EntryUsable(e, t) == e.seen # 0 /\ e.seen <= t /\ ~Lapsed(e, t)

EntryBad(e, t) == e.bad # 0 /\ t < e.bad + Penalty

EntryScore(e) == IF e.good > e.seen THEN e.good ELSE e.seen

Usable(p, t)  == {k \in Pairs : EntryUsable(p[k], t)}
Healthy(p, t) == {k \in Usable(p, t) : ~EntryBad(p[k], t)}

\* bestRouteCookie: the highest score among the usable pairs that no recent
\* outcome condemns, among all usable pairs when there is none.  Go's map
\* order breaks ties.
BestRouteCookie(p, t) ==
    LET from == IF Healthy(p, t) # {} THEN Healthy(p, t) ELSE Usable(p, t)
    IN  {k \in from : \A j \in from : EntryScore(p[k]) >= EntryScore(p[j])}

-----------------------------------------------------------------------------
(* The file. *)

\* writeRouteCookiePool keeps the entries usable at the instant it is given.
Persisted(p, t) == [k \in Pairs |-> IF EntryUsable(p[k], t) THEN p[k] ELSE NoEntry]

\* loadRouteCookiePool.
Load(dir) == IF dir = NoDir THEN EmptyPool ELSE disk[dir]

Throttled(t) == flushedAt # 0 /\ t < flushedAt + FlushInterval

\* Mutant of ChangePool: a failed write is forgotten.
MutForgetFailedFlush(p, t) ==
    /\ pool' = p
    /\ \/ /\ dirty' = (cfg.dir = NoDir \/ Throttled(t))
          /\ UNCHANGED <<flushedAt, disk, offLock>>
       \/ /\ cfg.dir # NoDir
          /\ ~Throttled(t)
          /\ disk' = [disk EXCEPT ![cfg.dir] = Persisted(p, t)]
          /\ dirty' = FALSE
          /\ flushedAt' = t
          /\ offLock' = offLock \ {cfg.dir}

\* The pool becomes p and flushRouteCookiesLocked(t) runs under the same lock:
\* no directory or too early, a write, or a failed write that leaves it dirty.
ChangePool(p, t) ==
    /\ pool' = p
    /\ \/ /\ dirty' = TRUE
          /\ UNCHANGED <<flushedAt, disk, offLock>>
       \/ /\ cfg.dir # NoDir
          /\ ~Throttled(t)
          /\ disk' = [disk EXCEPT ![cfg.dir] = Persisted(p, t)]
          /\ dirty' = FALSE
          /\ flushedAt' = t
          /\ offLock' = offLock \ {cfg.dir}

\* parseSetCookieLine: the deadline a response of instant t declares.
Deadline(t, life) == IF life = 0 THEN 0 ELSE t + life

\* Mutant of NoteRouteCookies: the handler that comes last sets SeenAt.
MutNoteLastHandlerWins(k, seenAt, deadline) ==
    /\ ChangePool([pool EXCEPT ![k].seen = seenAt,
                               ![k].expire = IF deadline # 0 THEN deadline ELSE @], now)
    /\ gone' = gone \ {k}
    /\ clearedAway' = clearedAway \ {k}

\* noteRouteCookiesLocked: the sighting of pair k stamped seenAt, with the
\* deadline it declared (0: none).  Only a later sighting moves SeenAt.
NoteRouteCookies(k, seenAt, deadline) ==
    LET e == pool[k]
        noted == [seen   |-> IF seenAt > e.seen THEN seenAt ELSE e.seen,
                  expire |-> IF deadline # 0 THEN deadline ELSE e.expire,
                  good   |-> e.good,
                  bad    |-> e.bad]
    IN  /\ ChangePool([pool EXCEPT ![k] = noted], now)
        /\ gone' = gone \ {k}
        /\ clearedAway' = clearedAway \ {k}

\* Mutant of RevokeRouteCookie: the removal does not make the pool dirty.
MutRevokeInMemoryOnly(k, t) ==
    /\ pool' = IF k \in Pairs THEN [pool EXCEPT ![k] = NoEntry] ELSE pool
    /\ gone' = IF k \in Pairs /\ InPool(pool, k) THEN gone \cup {k} ELSE gone
    /\ UNCHANGED <<dirty, flushedAt, disk, offLock, clearedAway>>

\* revokeRouteCookieLocked.
RevokeRouteCookie(k, t) ==
    IF k \in Pairs /\ InPool(pool, k)
    THEN /\ ChangePool([pool EXCEPT ![k] = NoEntry], t)
         /\ gone' = gone \cup {k}
         /\ UNCHANGED clearedAway
    ELSE UNCHANGED <<pool, dirty, flushedAt, disk, offLock, gone, clearedAway>>

\* The entry after an outcome of the given kind at instant t.
Marked(e, kind, t) == IF kind = "limited" THEN [e EXCEPT !.bad = t]
                                          ELSE [e EXCEPT !.good = t]

\* Mutant of MarkRouteCookieOutcome: an outcome creates the entry it does not find.
MutMarkCreatesEntry(k, kind, t) ==
    LET marked == [j \in Pairs \cup {k} |->
                      IF j # k THEN pool[j]
                      ELSE Marked(IF k \in Pairs THEN pool[k] ELSE NoEntry, kind, t)]
    IN  /\ IF kind # "silent" THEN ChangePool(marked, t)
                              ELSE UNCHANGED <<pool, dirty, flushedAt, disk, offLock>>
        /\ UNCHANGED <<gone, clearedAway>>

\* markRouteCookieOutcomeLocked: a pair that left the pool is not recreated,
\* and a response without turn state says nothing about its pair.
MarkRouteCookieOutcome(k, kind, t) ==
    /\ IF k \in Pairs /\ InPool(pool, k) /\ kind # "silent"
       THEN ChangePool([pool EXCEPT ![k] = Marked(pool[k], kind, t)], t)
       ELSE UNCHANGED <<pool, dirty, flushedAt, disk, offLock>>
    /\ UNCHANGED <<gone, clearedAway>>

-----------------------------------------------------------------------------
(* Requests. *)

Keys == Pairs \cup {NoPair}

\* An entry of pendingAuth; known = FALSE: the id is not in the map.
Record == [known: BOOLEAN, steered: BOOLEAN, key: Keys, at: Nat]

NoRecord == [known |-> FALSE, steered |-> FALSE, key |-> NoPair, at |-> 0]

\* One attempt of a request.
\*   pc       the critical section its handler has reached
\*   dry      dry_run as interceptAfterAuth read it
\*   bare     it went out through the probe role, without any bookkeeping
\*   carried  the pair in the Cookie header: the client's, later the steered one
\*   key, steered, t   locals: the chosen or recalled pair, and the handler's now
Attempt == [pc: {"idle", "begun", "chosen", "sent", "recalled", "harvested", "scanning"},
            dry: BOOLEAN, bare: BOOLEAN, carried: Keys,
            key: Keys, steered: BOOLEAN, t: Nat]

Idle == [pc |-> "idle", dry |-> FALSE, bare |-> FALSE, carried |-> NoPair,
         key |-> NoPair, steered |-> FALSE, t |-> 0]

ClearState == [pc: {"idle", "begun", "emptied", "copied"},
               dir: Dirs \cup {NoDir}, doc: [Pairs -> Entry]]

NoClear == [pc |-> "idle", dir |-> NoDir, doc |-> EmptyPool]

\* The host offers the credential-selected request again when an attempt ended
\* without a response: the id is reused.
BeginAttempt(r, carried, dry, bare) ==
    /\ att[r].pc \in {"idle", "sent"}
    /\ att' = [att EXCEPT ![r] = [Idle EXCEPT !.pc = IF bare THEN "sent" ELSE "begun",
                                              !.carried = carried,
                                              !.dry = dry, !.bare = bare]]

\* interceptAfterAuth in the probe role: nothing is remembered or changed.
InterceptProbe(r, carried) ==
    /\ mode = "up"
    /\ cfg.probe
    /\ BeginAttempt(r, carried, FALSE, TRUE)
    /\ UNCHANGED <<now, mode, cfg, pool, fileVars, pending, clearVars, reloads,
                   gone, clearedAway>>

\* Mutant of InterceptAfterAuth: a record of the id that is already there stays.
MutInterceptKeepsRecord(r, carried, named) ==
    /\ mode = "up"
    /\ ~cfg.probe
    /\ BeginAttempt(r, carried, cfg.dryRun, FALSE)
    /\ pending' = [pending EXCEPT ![r] =
                      IF named /\ ~@.known THEN [NoRecord EXCEPT !.known = TRUE, !.at = now]
                                           ELSE @]
    /\ UNCHANGED <<now, mode, cfg, pool, fileVars, clearVars, reloads, gone, clearedAway>>

\* interceptAfterAuth up to rememberRequestAuth: the config is copied and the
\* id's record replaced, or deleted when the host names no credential.
InterceptAfterAuth(r, carried, named) ==
    /\ mode = "up"
    /\ ~cfg.probe
    /\ BeginAttempt(r, carried, cfg.dryRun, FALSE)
    /\ pending' = [pending EXCEPT ![r] =
                      IF named THEN [NoRecord EXCEPT !.known = TRUE, !.at = now]
                               ELSE NoRecord]
    /\ UNCHANGED <<now, mode, cfg, pool, fileVars, clearVars, reloads, gone, clearedAway>>

\* The request goes out as the client wrote it: not a Codex account, an empty
\* pool, or a pair withheld by dry_run.
PassUnchanged(r) ==
    /\ att[r].pc = "begun"
    /\ att' = [att EXCEPT ![r] = [@ EXCEPT !.pc = "sent", !.dry = FALSE]]
    /\ UNCHANGED <<now, mode, cfg, pool, fileVars, pending, clearVars, reloads,
                   gone, clearedAway>>

\* The best pair is the one the client carries: rememberUnchangedRoute.
RememberUnchanged(r) ==
    /\ att[r].pc = "begun"
    /\ att[r].carried \in BestRouteCookie(pool, now)
    /\ att' = [att EXCEPT ![r] = [@ EXCEPT !.pc = "sent", !.dry = FALSE]]
    /\ pending' = [pending EXCEPT ![r] = [@ EXCEPT !.key = IF pending[r].known
                                                           THEN att[r].carried ELSE NoPair]]
    /\ UNCHANGED <<now, mode, cfg, pool, fileVars, clearVars, reloads, gone, clearedAway>>

\* bestRouteCookieLocked chose a pair the client does not carry.
ChooseRoute(r, k) ==
    /\ att[r].pc = "begun"
    /\ ~att[r].dry
    /\ k \in BestRouteCookie(pool, now)
    /\ k # att[r].carried
    /\ att' = [att EXCEPT ![r] = [@ EXCEPT !.pc = "chosen", !.key = k]]
    /\ UNCHANGED <<now, mode, cfg, pool, fileVars, pending, clearVars, reloads,
                   gone, clearedAway>>

\* markRequestSteered, and the request leaves with the merged Cookie header.
SendSteered(r) ==
    /\ att[r].pc = "chosen"
    /\ att' = [att EXCEPT ![r] = [@ EXCEPT !.pc = "sent", !.carried = att[r].key,
                                           !.key = NoPair]]
    /\ pending' = [pending EXCEPT ![r] = IF @.known
                                         THEN [@ EXCEPT !.steered = TRUE, !.key = att[r].key]
                                         ELSE @]
    /\ UNCHANGED <<now, mode, cfg, pool, fileVars, clearVars, reloads, gone, clearedAway>>

-----------------------------------------------------------------------------
(* Responses: the sections of harvestFromResponse, then the body. *)

\* The locals of harvestFromResponse once it has the record.
Recalled(a, rec, t) == [a EXCEPT !.pc = "recalled", !.key = rec.key,
                                 !.steered = rec.steered, !.t = t]

\* recallRequestRecord: the record is taken out, and ignored when it is too old.
RecallRequestRecord(r) ==
    LET live == pending[r].known /\ now <= pending[r].at + PendingTTL
        rec  == IF live THEN pending[r] ELSE NoRecord
    IN  /\ att[r].pc = "sent"
        /\ pending' = [pending EXCEPT ![r] = NoRecord]
        /\ att' = [att EXCEPT ![r] = Recalled(@, rec, now)]
        /\ UNCHANGED <<now, mode, cfg, pool, fileVars, clearVars, reloads, gone, clearedAway>>

\* The Set-Cookie lines revoke what the request carried, or else bring a pair.
HarvestCookies(r) ==
    /\ att[r].pc = "recalled"
    /\ att' = [att EXCEPT ![r] = [@ EXCEPT !.pc = "harvested"]]
    /\ \/ RevokeRouteCookie(att[r].key, att[r].t)
       \/ \E k \in Pairs, life \in Lifetimes :
             NoteRouteCookies(k, att[r].t, Deadline(att[r].t, life))
       \/ UNCHANGED <<pool, fileVars, gone, clearedAway>>
    /\ UNCHANGED <<now, mode, cfg, pending, clearVars, reloads>>

\* A steered request's turn-state length is charged to its pair.
HarvestOutcome(r, kind) ==
    /\ att[r].pc = "harvested"
    /\ IF att[r].steered
       THEN MarkRouteCookieOutcome(att[r].key, kind, att[r].t)
       ELSE UNCHANGED <<pool, fileVars, gone, clearedAway>>
    /\ att' = [att EXCEPT ![r] = [@ EXCEPT !.pc = "scanning", !.t = 0]]
    /\ UNCHANGED <<now, mode, cfg, pending, clearVars, reloads>>

\* The body named another model than the request: the steered pair is limited.
ServedModelMismatch(r) ==
    /\ att[r].pc = "scanning"
    /\ att[r].steered
    /\ MarkRouteCookieOutcome(att[r].key, "limited", now)
    /\ att' = [att EXCEPT ![r] = Idle]
    /\ UNCHANGED <<now, mode, cfg, pending, clearVars, reloads>>

\* The body named the requested model, none at all, or came too late to look.
ResponseDone(r) ==
    /\ att[r].pc = "scanning"
    /\ att' = [att EXCEPT ![r] = Idle]
    /\ UNCHANGED <<now, mode, cfg, pool, fileVars, pending, clearVars, reloads,
                   gone, clearedAway>>

\* probeConsume pools the pair of every minting answer, whatever its status.
ProbeConsume(k, life) ==
    /\ mode = "up"
    /\ NoteRouteCookies(k, now, Deadline(now, life))
    /\ UNCHANGED <<now, mode, cfg, reqVars, clearVars, reloads>>

-----------------------------------------------------------------------------
(* Operations. *)

\* clearBuckets {"all": true}: the directory is read under the lock, ...
ClearBegin ==
    /\ mode = "up"
    /\ clear.pc = "idle"
    /\ clears < MaxClears
    /\ clears' = clears + 1
    /\ clear' = [NoClear EXCEPT !.pc = "begun", !.dir = cfg.dir]
    /\ UNCHANGED <<now, mode, cfg, pool, fileVars, reqVars, reloads, gone, clearedAway>>

\* ... the map is replaced under the lock, ...
ClearMemory ==
    /\ clear.pc = "begun"
    /\ pool' = EmptyPool
    /\ dirty' = TRUE
    /\ gone' = gone \cup {k \in Pairs : InPool(pool, k)}
    /\ clearedAway' = clearedAway \cup {k \in Pairs : InPool(pool, k)}
    /\ clear' = IF clear.dir = NoDir THEN NoClear ELSE [clear EXCEPT !.pc = "emptied"]
    /\ UNCHANGED <<now, mode, cfg, flushedAt, disk, offLock, reqVars, clears, reloads>>

\* ... and state.cookies, read again without the lock, is rendered ...
ClearRender ==
    /\ clear.pc = "emptied"
    /\ clear' = [clear EXCEPT !.pc = "copied", !.doc = Persisted(pool, now)]
    /\ UNCHANGED <<now, mode, cfg, pool, fileVars, reqVars, clears, reloads, gone, clearedAway>>

\* ... and renamed over the file; a failure is only logged.
ClearWrite ==
    /\ clear.pc = "copied"
    /\ \/ /\ disk' = [disk EXCEPT ![clear.dir] = clear.doc]
          /\ offLock' = offLock \cup {clear.dir}
       \/ UNCHANGED <<disk, offLock>>
    /\ clear' = NoClear
    /\ UNCHANGED <<now, mode, cfg, pool, dirty, flushedAt, reqVars, clears, reloads,
                   gone, clearedAway>>

\* handleDryRunResource and handleRoleResource change one setting, never the
\* directory, so that swapConfigLocked keeps the pool.
Toggle(c) ==
    /\ mode = "up"
    /\ c.dir = cfg.dir
    /\ c.dryRun = cfg.dryRun \/ c.probe = cfg.probe
    /\ cfg' = c
    /\ UNCHANGED <<now, mode, pool, fileVars, reqVars, clearVars, reloads, gone, clearedAway>>

\* configure: whatever the directory, the pool becomes what its file holds.
Reload(c) ==
    /\ reloads' = reloads + 1
    /\ cfg' = c
    /\ pool' = Load(c.dir)
    /\ dirty' = FALSE
    /\ flushedAt' = 0
    /\ gone' = {}
    /\ UNCHANGED <<now, disk, offLock, reqVars, clearVars, clearedAway>>

Reconfigure(c) ==
    /\ mode = "up"
    /\ reloads < MaxReloads
    /\ UNCHANGED mode
    /\ Reload(c)

\* The memory of the process is lost, with every handler it was running.
GoDown ==
    /\ mode = "up"
    /\ reloads < MaxReloads
    /\ pool' = EmptyPool
    /\ dirty' = FALSE
    /\ flushedAt' = 0
    /\ gone' = {}
    /\ pending' = [r \in Requests |-> NoRecord]
    /\ att' = [r \in Requests |-> Idle]
    /\ clear' = NoClear
    /\ clearedAway' = IF clear.pc = "idle" THEN clearedAway ELSE {}
    /\ UNCHANGED <<now, cfg, reloads, clears>>

\* The process is killed, or the write of its shutdown fails and is only logged.
Crash ==
    /\ GoDown
    /\ mode' = "crashed"
    /\ UNCHANGED <<disk, offLock>>

\* Mutant of Shutdown: the flush throttle also holds at shutdown.
MutShutdownThrottled ==
    /\ GoDown
    /\ mode' = "stopped"
    /\ IF dirty /\ cfg.dir # NoDir /\ ~Throttled(now)
       THEN /\ disk' = [disk EXCEPT ![cfg.dir] = Persisted(pool, now)]
            /\ offLock' = offLock \ {cfg.dir}
       ELSE UNCHANGED <<disk, offLock>>

\* cliproxyPluginShutdown: a dirty pool is written once more, throttle or not.
Shutdown ==
    /\ GoDown
    /\ mode' = "stopped"
    /\ IF dirty /\ cfg.dir # NoDir
       THEN /\ disk' = [disk EXCEPT ![cfg.dir] = Persisted(pool, now)]
            /\ offLock' = offLock \ {cfg.dir}
       ELSE UNCHANGED <<disk, offLock>>

Start(c) ==
    /\ mode # "up"
    /\ mode' = "up"
    /\ Reload(c)

Tick ==
    /\ now < MaxTime
    /\ now' = now + 1
    /\ UNCHANGED <<mode, cfg, pool, fileVars, reqVars, clearVars, reloads, gone, clearedAway>>

-----------------------------------------------------------------------------
(* Specification. *)

\* A first start: no file has been written yet.
Init ==
    /\ now = 1
    /\ mode = "up"
    /\ cfg \in Configs
    /\ pool = EmptyPool
    /\ dirty = FALSE
    /\ flushedAt = 0
    /\ disk = [d \in Dirs |-> EmptyPool]
    /\ pending = [r \in Requests |-> NoRecord]
    /\ att = [r \in Requests |-> Idle]
    /\ clear = NoClear
    /\ reloads = 0
    /\ clears = 0
    /\ gone = {}
    /\ clearedAway = {}
    /\ offLock = {}

Intercept(r) ==
    \/ \E c \in Keys : InterceptProbe(r, c)
    \/ \E c \in Keys, named \in BOOLEAN : InterceptAfterAuth(r, c, named)
    \/ PassUnchanged(r)
    \/ RememberUnchanged(r)
    \/ \E k \in Pairs : ChooseRoute(r, k)
    \/ SendSteered(r)

Respond(r) ==
    \/ RecallRequestRecord(r)
    \/ HarvestCookies(r)
    \/ \E kind \in {"limited", "silent", "normal"} : HarvestOutcome(r, kind)
    \/ ServedModelMismatch(r)
    \/ ResponseDone(r)

Clear == ClearBegin \/ ClearMemory \/ ClearRender \/ ClearWrite

Operate ==
    \/ \E c \in Configs : Toggle(c) \/ Reconfigure(c) \/ Start(c)
    \/ Crash
    \/ Shutdown

Next ==
    \/ \E r \in Requests : Intercept(r) \/ Respond(r)
    \/ \E k \in Pairs, life \in Lifetimes : ProbeConsume(k, life)
    \/ Clear
    \/ Operate
    \/ Tick

Spec == Init /\ [][Next]_vars

-----------------------------------------------------------------------------
(* Properties. *)

\* Every variable has its type; outcome marks exist only on pairs with a sighting.
TypeOK ==
    /\ now \in 1..MaxTime
    /\ mode \in {"up", "stopped", "crashed"}
    /\ cfg \in Config
    /\ pool \in [Pairs -> Entry] /\ WellFormed(pool)
    /\ dirty \in BOOLEAN
    /\ flushedAt \in Nat
    /\ disk \in [Dirs -> [Pairs -> Entry]] /\ \A d \in Dirs : WellFormed(disk[d])
    /\ pending \in [Requests -> Record]
    /\ att \in [Requests -> Attempt]
    /\ clear \in ClearState /\ WellFormed(clear.doc)
    /\ reloads \in Nat
    /\ clears \in Nat
    /\ gone \subseteq Pairs
    /\ clearedAway \subseteq Pairs
    /\ offLock \subseteq Dirs

\* The file of the configured directory was last written under the lock and no
\* change waits for a flush.
Clean == mode = "up" /\ ~dirty /\ cfg.dir \in Dirs \ offLock

\* What a restart reads back for pair k is what memory holds; the file may only
\* lack a pair that is past its life, or one seen after the instant the last
\* flush was stamped with (a handler stamps it with the clock it read first).
Saved(k) ==
    \/ disk[cfg.dir][k] = pool[k]
    \/ /\ disk[cfg.dir][k] = NoEntry
       /\ Lapsed(pool[k], now) \/ pool[k].seen > flushedAt

\* A pool that is not dirty is durable: flushRouteCookiesLocked and configure
\* clear cookiesDirty only when the file and the map agree.
CleanPoolIsDurable == Clean => \A k \in Pairs : Saved(k)

\* A revoked or cleared pair returns to the pool only with a new sighting, and
\* once the pool is clean a restart cannot bring it back either: no late
\* outcome mark recreates it, no flush writes it.
RemovedPairsStayOut ==
    \A k \in gone : /\ ~InPool(pool, k)
                    /\ Clean => ~InPool(disk[cfg.dir], k)

\* The handler of r moved in this step.
Moved(r) == att'[r] # att[r]

\* A response condemns, praises or revokes only the pair its own attempt
\* carried, whatever earlier attempts under the same request id carried.
\* Excepted: an attempt that passed the probe role, which leaves the record of
\* an earlier attempt of that id in pendingAuth.
OnlyTheCarrierIsCharged ==
    [][\A k \in Pairs :
          /\ mode' = "up" /\ reloads' = reloads /\ clear' = clear
          /\ InPool(pool, k)
          /\ <<pool'[k].good, pool'[k].bad>> # <<pool[k].good, pool[k].bad>>
          => \E r \in Requests : Moved(r) /\ (att[r].carried = k \/ att[r].bare)]_vars

\* A pair's last sighting, from which its life is counted, never moves back
\* while it is in the pool, even when responses are handled out of order.
SightingsMoveForward ==
    [][\A k \in Pairs :
          reloads' = reloads /\ InPool(pool, k) /\ InPool(pool', k)
          => pool'[k].seen >= pool[k].seen]_vars

\* An orderly shutdown leaves every pair that is still usable in the file,
\* whether it was flushed long ago or is still waiting for a flush.
ShutdownKeepsThePool ==
    [][mode = "up" /\ mode' = "stopped" /\ cfg.dir \in Dirs \ offLock'
       => \A k \in Usable(pool, now) :
             \/ disk'[cfg.dir][k] = pool[k]
             \/ ~dirty /\ pool[k].seen > flushedAt]_vars

\* What the dashboard promises of "clear all" (ui.html): once it has returned,
\* no request is steered with a pair that has not been harvested since.
ClearedPairsAreNotSteered ==
    [][\A r \in Requests :
          clear.pc = "idle" /\ att[r].pc = "begun" /\ att'[r].pc = "chosen"
          => att'[r].key \notin clearedAway]_vars

=============================================================================
