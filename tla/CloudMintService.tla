--------------------------- MODULE CloudMintService ---------------------------
(***************************************************************************)
(* The cloud mint of the Go plugin: requests that need a ticket ask the    *)
(* current service, which answers from its cache, joins them to the job of *)
(* their work, starts a job, or turns them away; a job asks the relay once *)
(* and its outcome, good or bad, is cached.  A reconfiguration closes the  *)
(* service and puts a new one in its place while handlers and jobs of the  *)
(* old one still run.                                                      *)
(*                                                                         *)
(* The done channel of a job is what its waiting handlers find in res: a   *)
(* job leaves the jobs map in the critical section that closes it.         *)
(***************************************************************************)
EXTENDS Naturals, FiniteSets

CONSTANTS
    Requests,       \* requests, each with its handler
    Works,          \* cacheKey: settings, credential, proxy and seed cookie
    NoWork,
    Accounts,       \* AuthIDs
    Account,        \* the AuthID of a work
    Group,          \* the group of a work: its AuthID and access token
    FailClosed,     \* the works whose settings are fail_closed
    WorkersMax,     \* cloudWorkersMax
    CacheMax,       \* cloudCacheMax
    Cooldown,       \* cloudFailureCooldown
    Margin,         \* the second a cached outcome or a ticket must still last
    Wait,           \* wait_ms
    Timeout,        \* timeout_ms
    Lifetimes,      \* how long a ticket may still live when the relay returns it
    MaxTime,        \* bound: the clock stops here
    MaxServices     \* bound: services, one more than the resets

ASSUME MintConstants ==
    /\ {WorkersMax, CacheMax, Cooldown, Margin, Wait, Timeout, MaxTime, MaxServices}
         \subseteq Nat
    /\ CacheMax > 0 /\ MaxTime > 0 /\ MaxServices > 0
    /\ NoWork \notin Works
    /\ FailClosed \subseteq Works
    /\ Account \in [Works -> Accounts]
    /\ \A v, w \in Works : Group[v] = Group[w] => Account[v] = Account[w]
    /\ Lifetimes \subseteq {l \in Nat : l > Margin}     \* validateCloudMint

VARIABLES
    now,            \* the wall clock
    current,        \* cloudServiceState.service: services are numbered
    closed,         \* services whose context is canceled
    cache,          \* per service: the cached outcome of a work
    job,            \* per service: the job of a work and its goroutine
    busy,           \* per service: groups with a job
    req,            \* the request handlers
    minted,         \* history: every ticket a job has produced
    landed          \* history, per service: the outcome of the last job of a work,
                    \* forgotten when a full cache has to make room for another

vars == <<now, current, closed, cache, job, busy, req, minted, landed>>

Services == 1..MaxServices

-----------------------------------------------------------------------------
(* Outcomes, jobs and handlers. *)

\* The entry and error of a mint; a failure is cached as well, until its
\* cooldown ends.
Outcome == [ok: BOOLEAN, work: Works \cup {NoWork}, until: Nat]

Failed == [ok |-> FALSE, work |-> NoWork, until |-> 0]

\* until = 0: not in the map.
Uncached == Failed

Cached(s) == {w \in Works : cache[s][w] # Uncached}

\* A job: in its call to the relay, or back from it and not yet under the lock.
Job == [pc: {"none", "calling", "back"}, deadline: Nat, res: Outcome]

NoJob == [pc |-> "none", deadline |-> 0, res |-> Failed]

Calling(deadline) == [NoJob EXCEPT !.pc = "calling", !.deadline = deadline]
Back(j, res)      == [j EXCEPT !.pc = "back", !.res = res]

Jobs(s) == {w \in Works : job[s][w].pc # "none"}

\* The job's context: canceled with its service, or past its deadline.
ContextDone(s, w) == s \in closed \/ now >= job[s][w].deadline

\* A handler in interceptCloudMint.
\*   pc     asked: it has its settings and credential; bound: it holds a
\*          service; waiting: for a job; got: it has an outcome
\*   done   the job it waits for has closed its channel
\*   out    how the request left
Out == [kind: {"nothing", "refused", "bare"}, work: {NoWork}, until: {0}]
         \cup [kind: {"ticket"}, work: Works, until: Nat]

Plain(kind) == [kind |-> kind, work |-> NoWork, until |-> 0]
With(e)     == [kind |-> "ticket", work |-> e.work, until |-> e.until]

Handler == [pc: {"idle", "asked", "bound", "waiting", "got", "left"},
            work: Works \cup {NoWork}, service: Services, since: Nat, done: BOOLEAN,
            res: Outcome, out: Out]

Idle == [pc |-> "idle", work |-> NoWork, service |-> 1, since |-> 0, done |-> FALSE,
         res |-> Failed, out |-> Plain("nothing")]

\* How a handler moves on: with an outcome, with a service, to a job's channel,
\* and out of interceptCloudMint.
Got(h, res)   == [Idle EXCEPT !.pc = "got", !.work = h.work, !.res = res]
Bound(h, s)   == [h EXCEPT !.pc = "bound", !.service = s]
Waiting(h)    == [h EXCEPT !.pc = "waiting", !.since = now, !.done = FALSE]
Woken(h, res) == [h EXCEPT !.done = TRUE, !.res = res]
Asked(w)      == [Idle EXCEPT !.pc = "asked", !.work = w]
Left(out)     == [Idle EXCEPT !.pc = "left", !.out = out]

-----------------------------------------------------------------------------
(* interceptCloudMint and getWithRoute. *)

\* The settings are copied, the client carries no usable ticket and the
\* credential is resolved.  What passes before that touches nothing.
Ask(r, w) ==
    /\ req[r].pc = "idle"
    /\ req' = [req EXCEPT ![r] = Asked(w)]
    /\ UNCHANGED <<now, current, closed, cache, job, busy, minted, landed>>

\* No model name that can be minted for: refused, fail_closed or not.
Unsupported(r) ==
    /\ req[r].pc = "asked"
    /\ req' = [req EXCEPT ![r] = Left(Plain("refused"))]
    /\ UNCHANGED <<now, current, closed, cache, job, busy, minted, landed>>

\* No ticket before the service is asked: an unusable seed cookie, relay key or
\* proxy.
Reject(r) ==
    /\ req[r].pc = "asked"
    /\ req' = [req EXCEPT ![r] = Got(@, Failed)]
    /\ UNCHANGED <<now, current, closed, cache, job, busy, minted, landed>>

\* currentCloudMintService.
Bind(r) ==
    /\ req[r].pc = "asked"
    /\ req' = [req EXCEPT ![r] = Bound(@, current)]
    /\ UNCHANGED <<now, current, closed, cache, job, busy, minted, landed>>

\* Mutant of Full: only the number of jobs counts.
MutFullCountsJobs(s, w) == Cardinality(Jobs(s)) >= WorkersMax

\* What start(work) of service s does with a work, in the order of its tests.
Hit(s, w)  == cache[s][w].until > now + Margin
Full(s, w) == Cardinality(Jobs(s)) >= WorkersMax \/ Group[w] \in busy[s]

StartClosed(r) ==
    /\ req[r].pc = "bound"
    /\ req[r].service \in closed
    /\ req' = [req EXCEPT ![r] = Got(@, Failed)]
    /\ UNCHANGED <<now, current, closed, cache, job, busy, minted, landed>>

StartHit(r) ==
    LET s == req[r].service
        w == req[r].work
    IN  /\ req[r].pc = "bound"
        /\ s \notin closed
        /\ Hit(s, w)
        /\ req' = [req EXCEPT ![r] = Got(@, cache[s][w])]
        /\ UNCHANGED <<now, current, closed, cache, job, busy, minted, landed>>

StartJoin(r) ==
    LET s == req[r].service
        w == req[r].work
    IN  /\ req[r].pc = "bound"
        /\ s \notin closed
        /\ ~Hit(s, w)
        /\ w \in Jobs(s)
        /\ req' = [req EXCEPT ![r] = Waiting(@)]
        /\ UNCHANGED <<now, current, closed, cache, job, busy, minted, landed>>

StartBusy(r) ==
    LET s == req[r].service
        w == req[r].work
    IN  /\ req[r].pc = "bound"
        /\ s \notin closed
        /\ ~Hit(s, w)
        /\ w \notin Jobs(s)
        /\ Full(s, w)
        /\ req' = [req EXCEPT ![r] = Got(@, Failed)]
        /\ UNCHANGED <<now, current, closed, cache, job, busy, minted, landed>>

\* The goroutine of the job starts with a fresh deadline.
StartJob(r) ==
    LET s == req[r].service
        w == req[r].work
    IN  /\ req[r].pc = "bound"
        /\ s \notin closed
        /\ ~Hit(s, w)
        /\ w \notin Jobs(s)
        /\ ~Full(s, w)
        /\ job' = [job EXCEPT ![s][w] = Calling(now + Timeout)]
        /\ busy' = [busy EXCEPT ![s] = @ \cup {Group[w]}]
        /\ req' = [req EXCEPT ![r] = Waiting(@)]
        /\ UNCHANGED <<now, current, closed, cache, minted, landed>>

\* The select of getWithRoute: whichever is ready, in no order.
WaitDone(r) ==
    /\ req[r].pc = "waiting"
    /\ req[r].done
    /\ req' = [req EXCEPT ![r] = Got(@, @.res)]
    /\ UNCHANGED <<now, current, closed, cache, job, busy, minted, landed>>

WaitOver(r) ==
    /\ req[r].pc = "waiting"
    /\ req[r].service \in closed \/ now >= req[r].since + Wait
    /\ req' = [req EXCEPT ![r] = Got(@, Failed)]
    /\ UNCHANGED <<now, current, closed, cache, job, busy, minted, landed>>

\* Mutant of Answer: the error that came with the entry is not looked at.
MutAnswerIgnoresError(r) ==
    LET e == req[r].res
        out == IF e.until > now + Margin THEN With(e)
               ELSE Plain(IF req[r].work \in FailClosed THEN "refused" ELSE "bare")
    IN  /\ req[r].pc = "got"
        /\ req' = [req EXCEPT ![r] = Left(out)]
        /\ UNCHANGED <<now, current, closed, cache, job, busy, minted, landed>>

\* Mutant of Answer: the ticket is not checked again after the wait.
MutAnswerStaleTicket(r) ==
    LET e == req[r].res
        out == IF e.ok THEN With(e)
               ELSE Plain(IF req[r].work \in FailClosed THEN "refused" ELSE "bare")
    IN  /\ req[r].pc = "got"
        /\ req' = [req EXCEPT ![r] = Left(out)]
        /\ UNCHANGED <<now, current, closed, cache, job, busy, minted, landed>>

\* A ticket that still outlives the margin is injected; without one a
\* fail_closed request is refused and any other goes out bare.
Answer(r) ==
    LET e == req[r].res
        out == IF e.ok /\ e.until > now + Margin THEN With(e)
               ELSE Plain(IF req[r].work \in FailClosed THEN "refused" ELSE "bare")
    IN  /\ req[r].pc = "got"
        /\ req' = [req EXCEPT ![r] = Left(out)]
        /\ UNCHANGED <<now, current, closed, cache, job, busy, minted, landed>>

-----------------------------------------------------------------------------
(* run. *)

\* requestCloudMint returns: a validated ticket while its context lasts, or
\* an error, which it also returns when the context ends.
RelayAnswers(s, w, res) ==
    /\ job[s][w].pc = "calling"
    /\ job' = [job EXCEPT ![s][w] = Back(@, res)]
    /\ UNCHANGED <<now, current, closed, cache, busy, req, minted, landed>>

RelayGrants(s, w) ==
    /\ ~ContextDone(s, w)
    /\ \E life \in Lifetimes :
          RelayAnswers(s, w, [ok |-> TRUE, work |-> w, until |-> now + life])

RelayFails(s, w) == RelayAnswers(s, w, Failed)

\* The cache with the outcome of w stored, after a random eviction when it is
\* full.
Stored(c, w, e) ==
    LET used == {v \in Works : c[v] # Uncached}
        left == IF Cardinality(used) >= CacheMax
                THEN {[c EXCEPT ![v] = Uncached] : v \in used}
                ELSE {c}
    IN  {[d EXCEPT ![w] = e] : d \in left}

\* What the jobs of s have left once outcome e of w has landed: an open service
\* keeps it, and a full cache may have lost any of the others for it.
Landed(s, w, e) ==
    IF s \in closed THEN landed[s]
    ELSE [v \in Works |-> IF v = w THEN e
                          ELSE IF Cardinality(Cached(s)) >= CacheMax THEN Uncached
                          ELSE landed[s][v]]

\* Mutant of Finish: an ended context returns before the channel is closed.
MutFinishLeavesWaiters(s, w) ==
    LET over == ContextDone(s, w)
        res == IF over THEN Failed ELSE job[s][w].res
    IN  /\ job[s][w].pc = "back"
        /\ job' = [job EXCEPT ![s][w] = NoJob]
        /\ busy' = [busy EXCEPT ![s] = @ \ {Group[w]}]
        /\ req' = [r \in Requests |->
                      IF /\ ~over /\ req[r].pc = "waiting" /\ ~req[r].done
                         /\ req[r].service = s /\ req[r].work = w
                      THEN Woken(req[r], res)
                      ELSE req[r]]
        /\ minted' = IF res.ok THEN minted \cup {[work |-> w, until |-> res.until]}
                               ELSE minted
        /\ UNCHANGED <<now, current, closed, cache, landed>>

\* Mutant of Finish: a failed job keeps its place in the map.
MutFinishKeepsFailedJob(s, w) ==
    LET res == IF ContextDone(s, w) THEN Failed ELSE job[s][w].res
    IN  /\ job[s][w].pc = "back"
        /\ job' = IF res.ok THEN [job EXCEPT ![s][w] = NoJob] ELSE job
        /\ busy' = [busy EXCEPT ![s] = @ \ {Group[w]}]
        /\ req' = [r \in Requests |->
                      IF /\ req[r].pc = "waiting" /\ ~req[r].done
                         /\ req[r].service = s /\ req[r].work = w
                      THEN Woken(req[r], res)
                      ELSE req[r]]
        /\ minted' = IF res.ok THEN minted \cup {[work |-> w, until |-> res.until]}
                               ELSE minted
        /\ UNCHANGED <<now, current, closed, cache, landed>>

\* Mutant of Finish: a job whose context has ended leaves no outcome in the cache.
MutFinishForgetsTimeouts(s, w) ==
    LET res == IF ContextDone(s, w) THEN Failed ELSE job[s][w].res
        stored == IF res.ok THEN res ELSE [Failed EXCEPT !.until = now + Cooldown]
    IN  /\ job[s][w].pc = "back"
        /\ job' = [job EXCEPT ![s][w] = NoJob]
        /\ busy' = [busy EXCEPT ![s] = @ \ {Group[w]}]
        /\ IF ContextDone(s, w) THEN UNCHANGED cache
           ELSE \E c \in Stored(cache[s], w, stored) : cache' = [cache EXCEPT ![s] = c]
        /\ req' = [r \in Requests |->
                      IF /\ req[r].pc = "waiting" /\ ~req[r].done
                         /\ req[r].service = s /\ req[r].work = w
                      THEN Woken(req[r], res)
                      ELSE req[r]]
        /\ minted' = IF res.ok THEN minted \cup {[work |-> w, until |-> res.until]}
                               ELSE minted
        /\ landed' = [landed EXCEPT ![s] = Landed(s, w, stored)]
        /\ UNCHANGED <<now, current, closed>>

\* The locked end of run: the outcome is decided, stored unless the service is
\* closed, the slot freed and the channel closed.
Finish(s, w) ==
    LET res == IF ContextDone(s, w) THEN Failed ELSE job[s][w].res
        stored == IF res.ok THEN res ELSE [Failed EXCEPT !.until = now + Cooldown]
    IN  /\ job[s][w].pc = "back"
        /\ job' = [job EXCEPT ![s][w] = NoJob]
        /\ busy' = [busy EXCEPT ![s] = @ \ {Group[w]}]
        /\ IF s \in closed THEN UNCHANGED cache
           ELSE \E c \in Stored(cache[s], w, stored) : cache' = [cache EXCEPT ![s] = c]
        /\ req' = [r \in Requests |->
                      IF /\ req[r].pc = "waiting" /\ ~req[r].done
                         /\ req[r].service = s /\ req[r].work = w
                      THEN Woken(req[r], res)
                      ELSE req[r]]
        /\ minted' = IF res.ok THEN minted \cup {[work |-> w, until |-> res.until]}
                               ELSE minted
        /\ landed' = [landed EXCEPT ![s] = Landed(s, w, stored)]
        /\ UNCHANGED <<now, current, closed>>

-----------------------------------------------------------------------------
(* Operations on the service. *)

\* resetCloudMintService, after configure has swapped the settings.
Reset ==
    /\ current < MaxServices
    /\ closed' = closed \cup {current}
    /\ current' = current + 1
    /\ UNCHANGED <<now, cache, job, busy, req, minted, landed>>

\* cliproxyPluginShutdown closes the current service and keeps it.
Close ==
    /\ closed' = closed \cup {current}
    /\ UNCHANGED <<now, current, cache, job, busy, req, minted, landed>>

Tick ==
    /\ now < MaxTime
    /\ now' = now + 1
    /\ UNCHANGED <<current, closed, cache, job, busy, req, minted, landed>>

-----------------------------------------------------------------------------
(* Specification. *)

Init ==
    /\ now = 1
    /\ current = 1
    /\ closed = {}
    /\ cache = [s \in Services |-> [w \in Works |-> Uncached]]
    /\ job = [s \in Services |-> [w \in Works |-> NoJob]]
    /\ busy = [s \in Services |-> {}]
    /\ req = [r \in Requests |-> Idle]
    /\ minted = {}
    /\ landed = cache

\* What a handler does once it has asked.
Handle(r) ==
    \/ Unsupported(r) \/ Reject(r) \/ Bind(r)
    \/ StartClosed(r) \/ StartHit(r) \/ StartJoin(r) \/ StartBusy(r) \/ StartJob(r)
    \/ WaitDone(r) \/ WaitOver(r)
    \/ Answer(r)

Run(s, w) == RelayGrants(s, w) \/ RelayFails(s, w) \/ Finish(s, w)

Next ==
    \/ \E r \in Requests : (\E w \in Works : Ask(r, w)) \/ Handle(r)
    \/ \E s \in Services, w \in Works : Run(s, w)
    \/ Reset \/ Close \/ Tick

Spec == Init /\ [][Next]_vars

\* A handler goroutine that can proceed does.  A call to the relay returns, at
\* the latest with its context's deadline; the goroutine then takes the lock.
Fairness ==
    /\ \A r \in Requests : WF_vars(Handle(r))
    /\ \A s \in Services, w \in Works : WF_vars(Run(s, w))

FairSpec == Spec /\ Fairness

-----------------------------------------------------------------------------
(* Properties. *)

\* Every variable has its type.
TypeOK ==
    /\ now \in 1..MaxTime
    /\ current \in Services
    /\ closed \subseteq Services
    /\ cache \in [Services -> [Works -> Outcome]]
    /\ job \in [Services -> [Works -> Job]]
    /\ busy \in [Services -> SUBSET {Group[w] : w \in Works}]
    /\ req \in [Requests -> Handler]
    /\ minted \subseteq [work: Works, until: Nat]
    /\ landed \in [Services -> [Works -> Outcome]]

\* A service never runs two jobs with one credential nor more than the workers
\* allow, and busy holds exactly the groups of its jobs: no outcome, timeout or
\* cancellation leaks a slot or frees a slot that is still in use.
SlotsMatchJobs ==
    \A s \in Services :
        /\ busy[s] = {Group[w] : w \in Jobs(s)}
        /\ \A v, w \in Jobs(s) : Group[v] = Group[w] => v = w
        /\ Cardinality(Jobs(s)) <= WorkersMax
        /\ Cardinality(Cached(s)) <= CacheMax

\* The outcome of a job serves the retries, also when every handler gave up on
\* it before, the job was late or it failed: as long as it lasts and no full cache
\* had to make room, a handler that comes to the open service gets that outcome
\* at once, whatever jobs and handlers did in between - never a second job,
\* another wait or a busy service.
LateOutcomesServeRetries ==
    [][\A r \in Requests :
          LET s == req[r].service
              w == req[r].work
          IN  /\ req[r].pc = "bound" /\ s \notin closed
              /\ landed[s][w].until > now + Margin
              /\ req'[r] # req[r]
              => req'[r].pc = "got" /\ req'[r].res = landed[s][w]]_vars

\* A handler that waits can count on its job: as long as the channel it waits on
\* is open, the job is in the map of its service, to be finished and closed.
WaitersHaveAJob ==
    \A r \in Requests :
        req[r].pc = "waiting" /\ ~req[r].done => req[r].work \in Jobs(req[r].service)

\* Every job ends and frees its slot, whatever the relay does.
JobsEnd ==
    \A s \in Services, w \in Works : job[s][w].pc # "none" ~> job[s][w].pc = "none"

\* The promise of the gate, with its history of minted tickets.
Gate == INSTANCE TicketGate
          WITH asking <- [r \in Requests |-> req[r].work],
               out <- [r \in Requests |-> req[r].out]

\* Every request is answered, with a ticket that was minted for its own work
\* and outlives its injection, or bare only when it is not fail_closed.
KeepsTheGate == Gate!Spec

\* What the dashboard says of the workers (cloud_mint_ui.html): jobs of one
\* account run one after the other.
AccountsAreSerial ==
    \A s \in Services : \A v, w \in Jobs(s) : Account[v] = Account[w] => v = w

=============================================================================
