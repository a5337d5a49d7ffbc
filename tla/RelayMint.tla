------------------------------ MODULE RelayMint ------------------------------
(***************************************************************************)
(* The minting side of the relay (relay/index.js, mintTickets and          *)
(* mintWithLifetime): one HTTP call asks for a ticket for each of a list   *)
(* of models and for the route pair they are used with.  A call takes what *)
(* the process-wide cache still holds, mints the models that are missing   *)
(* one after the other, renews a pair that is gone, cools down and starts  *)
(* another round while something can be retried, and answers once.         *)
(*                                                                         *)
(* Calls run in one Node process and interleave at their awaits; the cache *)
(* is shared by them all.  The code between two awaits takes several steps *)
(* here, and nothing else happens until the last of them: Quiet holds when *)
(* every call is at an await.                                              *)
(*                                                                         *)
(* A lane is what a cache key stands for besides kind and model: the       *)
(* caller's credential, the transport, the target gateway and the digest   *)
(* of the pair the caller brought (its seed).  A ticket carries what the   *)
(* upstream knows of it: the lane and model it was minted for, its length, *)
(* when it was issued, the node it lives on and whether it is worth full   *)
(* strength.                                                               *)
(***************************************************************************)
EXTENDS Naturals, FiniteSets

CONSTANTS
    Calls,          \* HTTP calls, each handled once
    Models,         \* the models asked for, by their position in the list
    Lanes,          \* credential, transport, target and seed of a call
    Gateways,       \* the nodes behind the edge
    AnyNode,        \* target of a lane that takes every node; an unknown node
    Target,         \* the node a lane is after
    Seed,           \* the pair the caller of a lane brings, or Nothing
    Lens,           \* lengths of tickets
    WantLens,       \* lengths a caller may insist on; 0: any
    Ttls,           \* lives of tickets a caller may ask for; 0: no cache
    Strengths,      \* what the upstream mints: full strength or not
    MaxAttempts,    \* want.maxAttempts: shots per model and round
    MaxTotal,       \* maxTotalAttempts: shots per call
    CacheMax,       \* MINT_CACHE_MAX
    Verify,         \* cfg.mint.verifyState
    MaxTime,        \* bound of the clock
    MaxLag          \* bound on how old a freshly minted ticket may be

Nothing == [none |-> TRUE]
PairSlot == 0       \* the slot of a lane's pair next to its models

Pairs == [gw : Gateways, exp : 0 .. (MaxTime + 1)]
Tickets == [lane : Lanes, model : Models, len : Lens, issued : 0 .. MaxTime,
            node : Gateways \cup {AnyNode}, full : Strengths]
Holdings == [ticket : Tickets, exp : Nat]
Wants == [lane : Lanes, ttl : Ttls, len : WantLens]
Slots == Lanes \X (Models \cup {PairSlot})

(* What one upstream request brings back.  "ok" is a complete answer of    *)
(* success, "refused" a status or event that will not change for this      *)
(* model (400, 404, 422, a terminal event), "denied" a rejected credential *)
(* (401, 403), "failed" the rest: limits, server and transport errors,     *)
(* timeouts.  No ticket also stands for one that comes without a           *)
(* declaration of the asked model.  A whole pair or only a part of one may *)
(* come with it; of an answer that is no success, just that is looked at.  *)
Mints == [len : Lens, issued : 0 .. MaxTime, full : Strengths]
Part == [none |-> FALSE]
Shots ==
    [kind : {"ok"}, mint : Mints \cup {Nothing}, pair : Pairs \cup {Nothing, Part}]
    \cup [kind : {"refused", "denied", "failed"}, mint : {Nothing}, pair : {Nothing, Part}]

ASSUME RelayAssumption ==
    /\ Models \subseteq Nat \ {0} /\ Models # {} /\ IsFiniteSet(Models) /\ IsFiniteSet(Lanes)
    /\ AnyNode \notin Gateways /\ Target \in [Lanes -> Gateways \cup {AnyNode}]
    /\ Seed \in [Lanes -> Pairs \cup {Nothing}]
    /\ Lens \subseteq Nat \ {0} /\ WantLens \subseteq Nat /\ Ttls \subseteq Nat /\ Strengths \subseteq BOOLEAN
    /\ MaxAttempts \in Nat \ {0} /\ MaxTotal \in Nat \ {0} /\ CacheMax \in Nat \ {0}
    /\ Verify \in BOOLEAN /\ MaxTime \in Nat /\ MaxLag \in Nat

VARIABLES
    now,        \* Date.now(), coarse
    cache,      \* mintCache: a slot per lane and model, and one for the pair
    call        \* the locals of mintWithLifetime and of its lifetime

vars == <<now, cache, call>>

Empty == [m \in Models |-> Nothing]
(* pc: next - at the head of a loop; fly, verify, cool - awaiting a shot,  *)
(* the state echo, the cooldown; judge - a shot has landed; reply - the    *)
(* rounds are over.                                                        *)
Fresh(w) ==
    [pc |-> "next", phase |-> "mint", want |-> w, pair |-> Nothing,
     held |-> Empty, errors |-> {}, terminal |-> {}, missing |-> {},
     tries |-> 0, retry |-> FALSE, attempts |-> 0, stop |-> "none",
     sent |-> Nothing, shot |-> Nothing, answer |-> Nothing]
Idle == [Fresh(Nothing) EXCEPT !.pc = "idle"]

(* The locals of a finished call are gone, its answer is not. *)
Over(s, answer) ==
    [Fresh(s.want) EXCEPT !.pc = "done", !.stop = s.stop, !.answer = answer]

Init ==
    /\ now = 0
    /\ cache = [k \in Slots |-> Nothing]
    /\ call = [c \in Calls |-> Idle]

Put(c, s) == call' = [call EXCEPT ![c] = s]
Quiet == \A c \in Calls : call[c].pc \notin {"next", "judge", "reply"}

------------------------------------------------------------------------------
(* The cache. *)

Filled == {k \in Slots : cache[k] # Nothing}

(* Mutant: entries are only ever added. *)
MutStoreUnbounded(k, e) == cache' = [cache EXCEPT ![k] = e]
(* A full cache gives up an entry for the new one.  The code drops the one *)
(* inserted first; which one goes is left open here.                       *)
Store(k, e) ==
    IF Cardinality(Filled) < CacheMax
    THEN cache' = [cache EXCEPT ![k] = e]
    ELSE \E victim \in Filled : cache' = [cache EXCEPT ![victim] = Nothing, ![k] = e]

(* Mutant: a cached ticket is taken for what its first caller asked.       *)
MutPassesAnyLength(w, h) == h # Nothing /\ h.exp > now /\ h.ticket.issued + w.ttl > now
(* A cached ticket has to pass what this caller asks of it, and lasts no   *)
(* longer than either life allows.                                         *)
Passes(w, h) ==
    /\ h # Nothing
    /\ h.exp > now
    /\ w.len = 0 \/ h.ticket.len = w.len
    /\ h.ticket.issued + w.ttl > now
Shortened(w, h) ==
    [h EXCEPT !.exp = IF h.ticket.issued + w.ttl < h.exp THEN h.ticket.issued + w.ttl ELSE h.exp]
CachedTicket(w, m) ==
    LET h == cache[<<w.lane, m>>]
    IN  IF w.ttl > 0 /\ Passes(w, h) THEN Shortened(w, h) ELSE Nothing
CachedPair(w) ==
    LET p == cache[<<w.lane, PairSlot>>]
    IN  IF w.ttl > 0 /\ p # Nothing /\ p.exp > now THEN p ELSE Seed[w.lane]

(* Reading an entry past its life drops it. *)
Read(w) ==
    cache' = IF w.ttl = 0 THEN cache
             ELSE [k \in Slots |-> IF k[1] = w.lane /\ cache[k] # Nothing /\ cache[k].exp <= now
                                   THEN Nothing ELSE cache[k]]

------------------------------------------------------------------------------
(* Terms of a call.  First is the model whose turn it is. *)

OnTarget(w, gw) == Target[w.lane] = AnyNode \/ gw = Target[w.lane]
Live(w, p) == p # Nothing /\ p.exp > now /\ OnTarget(w, p.gw)
Seeded(s) == Seed[s.want.lane] # Nothing
Dead(w, h) == w.ttl > 0 /\ h.exp <= now

First(S) == CHOOSE m \in S : \A k \in S : m <= k
Absent(s) == {m \in Models : s.held[m] = Nothing}
Renewers(s) == Models \ (Absent(s) \cup s.terminal)
Aimed(s) == First(IF s.phase = "mint" THEN s.missing ELSE Renewers(s))

(* Where the loops stand: a shot is due, or the model or renewal is over.  *)
Wanting(s) ==
    /\ s.tries < MaxAttempts /\ s.stop = "none"
    /\ IF s.phase = "mint" THEN s.missing # {}
       ELSE Renewers(s) # {} /\ ~Live(s.want, s.pair)
SeedLost(s) == Seeded(s) /\ ~Live(s.want, s.pair)

(* A shot that ends the whole call leaves an error for its model if the    *)
(* model was being minted. *)
Ended(s) ==
    [s EXCEPT !.pc = "reply", !.sent = Nothing, !.shot = Nothing,
              !.errors = IF s.phase = "mint" THEN @ \cup {Aimed(s)} ELSE @]
NextModel(s) ==
    [s EXCEPT !.pc = "next", !.tries = 0, !.sent = Nothing, !.shot = Nothing,
              !.missing = @ \ {Aimed(s)}]
Again(s) == [s EXCEPT !.pc = "next", !.tries = @ + 1, !.sent = Nothing, !.shot = Nothing]

------------------------------------------------------------------------------
(* A call arrives.  A seed past its life or off target is refused before   *)
(* the cache is asked.                                                     *)
Begin(c) ==
    /\ Quiet /\ call[c].pc = "idle"
    /\ \E w \in Wants :
          IF Seed[w.lane] # Nothing /\ ~Live(w, Seed[w.lane])
          THEN Put(c, Over(Fresh(w), [kind |-> "invalid"])) /\ UNCHANGED cache
          ELSE LET held == [m \in Models |-> CachedTicket(w, m)]
               IN  /\ Read(w)
                   /\ Put(c, [Fresh(w) EXCEPT !.pair = CachedPair(w), !.held = held,
                                              !.missing = {m \in Models : held[m] = Nothing}])
    /\ UNCHANGED now

(* runAttempt up to its await: with a pair if a live one is at hand.       *)
Shoot(c) ==
    LET s == call[c]
    IN  /\ s.pc = "next" /\ Wanting(s)
        /\ ~SeedLost(s) /\ s.attempts < MaxTotal
        /\ Put(c, [s EXCEPT !.pc = "fly", !.attempts = @ + 1,
                            !.sent = IF Live(s.want, s.pair) THEN s.pair ELSE Nothing,
                            !.errors = IF s.phase = "mint" THEN @ \ {Aimed(s)} ELSE @])
        /\ UNCHANGED <<now, cache>>

(* Mutant: a lost seed counts as one more failure to retry. *)
MutUnableRetries(c) ==
    LET s == call[c]
    IN  /\ s.pc = "next" /\ Wanting(s)
        /\ SeedLost(s) \/ s.attempts >= MaxTotal
        /\ Put(c, IF SeedLost(s)
                  THEN [NextModel(s) EXCEPT !.errors = @ \cup {Aimed(s)}, !.retry = TRUE]
                  ELSE [Ended(s) EXCEPT !.stop = "total_attempt_limit"])
        /\ UNCHANGED <<now, cache>>
(* runAttempt without a shot: the seed is gone, or the call has used up    *)
(* its attempts, which stops it.                                           *)
Unable(c) ==
    LET s == call[c]
    IN  /\ s.pc = "next" /\ Wanting(s)
        /\ SeedLost(s) \/ s.attempts >= MaxTotal
        /\ Put(c, [Ended(s) EXCEPT !.stop = IF SeedLost(s) THEN "none" ELSE "total_attempt_limit"])
        /\ UNCHANGED <<now, cache>>

(* The model has used up its tries of this round, or the call is stopped.  *)
GiveUp(c) ==
    LET s == call[c]
    IN  /\ s.pc = "next" /\ s.phase = "mint" /\ s.missing # {} /\ ~Wanting(s)
        /\ Put(c, [NextModel(s) EXCEPT !.errors = @ \cup {Aimed(s)}, !.retry = TRUE])
        /\ UNCHANGED <<now, cache>>

ModelsDone(c) ==
    LET s == call[c]
    IN  /\ s.pc = "next" /\ s.phase = "mint" /\ s.missing = {}
        /\ Put(c, IF s.stop # "none" THEN [s EXCEPT !.pc = "reply"]
                  ELSE [s EXCEPT !.phase = "renew", !.tries = 0])
        /\ UNCHANGED <<now, cache>>

(* The renewal is over: cool down and go another round if there is         *)
(* something to retry and a shot left for it.                              *)
RoundDone(c) ==
    LET s == call[c]
        retry == s.retry \/ (Renewers(s) # {} /\ ~Live(s.want, s.pair))
    IN  /\ s.pc = "next" /\ s.phase = "renew" /\ ~Wanting(s)
        /\ Put(c, IF s.stop # "none" \/ ~retry THEN [s EXCEPT !.pc = "reply"]
                  ELSE IF s.attempts >= MaxTotal
                  THEN [s EXCEPT !.pc = "reply", !.stop = "total_attempt_limit"]
                  ELSE [s EXCEPT !.pc = "cool"])
        /\ UNCHANGED <<now, cache>>

------------------------------------------------------------------------------
(* A shot lands.  Whatever becomes of its ticket, a whole pair of an       *)
(* answer of success replaces the call's pair, is cached if it is of use   *)
(* and otherwise clears what the cache holds; a rejected credential is     *)
(* answered at once.                                                       *)
Adopt(s, a) ==
    IF a.pair \in Pairs THEN [s EXCEPT !.pair = a.pair]
    ELSE IF Seeded(s) /\ a.pair = Part THEN [s EXCEPT !.pair = Nothing]
    ELSE s
(* Mutant: a pair is cached wherever it leads. *)
MutStoreAnyPair(s, a) ==
    IF a.pair \in Pairs /\ s.want.ttl > 0 THEN Store(<<s.want.lane, PairSlot>>, a.pair)
    ELSE UNCHANGED cache
StorePair(s, a) ==
    LET slot == <<s.want.lane, PairSlot>>
    IN  IF a.pair \notin Pairs THEN UNCHANGED cache
        ELSE IF ~Live(s.want, a.pair) THEN cache' = [cache EXCEPT ![slot] = Nothing]
        ELSE IF s.want.ttl > 0 THEN Store(slot, a.pair)
        ELSE UNCHANGED cache

Land(c) ==
    LET s == call[c]
    IN  /\ Quiet /\ s.pc = "fly" /\ s.stop = "none"
        /\ \E a \in Shots :
              LET t == Adopt(s, a)
              IN  /\ a.mint # Nothing => a.mint.issued <= now /\ now - a.mint.issued <= MaxLag
                  /\ IF a.kind = "denied"
                     THEN Put(c, [Ended(s) EXCEPT !.answer = [kind |-> "rejected"]]) /\ UNCHANGED cache
                     ELSE /\ StorePair(s, a)
                          /\ Put(c, IF SeedLost(t) THEN Ended(t)
                                    ELSE [t EXCEPT !.pc = "judge", !.shot = a])
        /\ UNCHANGED now

(* A stopped call destroys its shot and takes nothing from it. *)
Cut(c) ==
    LET s == call[c]
    IN  /\ Quiet /\ s.pc = "fly" /\ s.stop # "none"
        /\ Put(c, Ended(s))
        /\ UNCHANGED <<now, cache>>

(* mintAttemptAccepted: the node of a ticket is that of the pair it came   *)
(* with, else of the pair its shot was steered with, else unknown.         *)
NodeOf(s) ==
    IF s.shot.pair \in Pairs THEN s.shot.pair.gw
    ELSE IF s.sent # Nothing /\ s.pair # Nothing THEN s.pair.gw ELSE AnyNode
Acceptable(s) ==
    /\ s.shot.kind = "ok" /\ s.shot.mint # Nothing
    /\ s.want.len = 0 \/ s.shot.mint.len = s.want.len
    /\ OnTarget(s.want, NodeOf(s))

(* What the upstream minted for this shot. *)
Ticket(s) ==
    [lane |-> s.want.lane, model |-> Aimed(s), len |-> s.shot.mint.len,
     issued |-> s.shot.mint.issued, full |-> s.shot.mint.full,
     node |-> IF s.shot.pair \in Pairs THEN s.shot.pair.gw
              ELSE IF s.sent # Nothing THEN s.sent.gw ELSE AnyNode]

(* A ticket that passed every test is held and cached, unless it has run   *)
(* out by now.                                                             *)
Keep(c) ==
    LET s == call[c]
        h == [ticket |-> Ticket(s), exp |-> s.shot.mint.issued + s.want.ttl]
    IN  IF Dead(s.want, h)
        THEN Put(c, Again(s)) /\ UNCHANGED cache
        ELSE /\ IF s.want.ttl > 0 THEN Store(<<s.want.lane, Aimed(s)>>, h) ELSE UNCHANGED cache
             /\ Put(c, [NextModel(s) EXCEPT !.held[Aimed(s)] = h])

(* The model is refused for good: no later round or renewal asks for it.   *)
Refused(c) ==
    LET s == call[c]
        t == [s EXCEPT !.terminal = @ \cup {Aimed(s)}]
    IN  /\ s.pc = "judge" /\ s.shot.kind = "refused"
        /\ Put(c, IF s.phase = "renew" THEN Again(t)
                  ELSE [NextModel(t) EXCEPT !.errors = @ \cup {Aimed(s)}])
        /\ UNCHANGED <<now, cache>>

(* A shot of the renewal has done its work when it landed; a ticket that   *)
(* fails a test, or cannot be verified for want of a pair, is shot again.  *)
HasPair(s) == s.shot.pair \in Pairs \/ s.pair # Nothing
Unfit(c) ==
    LET s == call[c]
    IN  /\ s.pc = "judge" /\ s.shot.kind # "refused"
        /\ s.phase = "renew" \/ ~Acceptable(s) \/ (Verify /\ ~HasPair(s))
        /\ Put(c, Again(s))
        /\ UNCHANGED <<now, cache>>

Fit(c) ==
    LET s == call[c]
    IN  /\ s.pc = "judge" /\ s.phase = "mint" /\ Acceptable(s)
        /\ Verify => HasPair(s)
        /\ IF Verify THEN Put(c, [s EXCEPT !.pc = "verify"]) /\ UNCHANGED cache ELSE Keep(c)
        /\ UNCHANGED now

(* verifyFullStrength: the ticket is echoed to the upstream, which mints   *)
(* another one unless this one is at full strength.  The echo is neither   *)
(* counted nor cut off when the call is stopped.                           *)
Echo(c) ==
    /\ Quiet /\ call[c].pc = "verify" /\ call[c].shot.mint.full
    /\ Keep(c)
    /\ UNCHANGED now
EchoFails(c) ==     \* degraded, or no answer in all the tries
    /\ Quiet /\ call[c].pc = "verify"
    /\ Put(c, Again(call[c]))
    /\ UNCHANGED <<now, cache>>

------------------------------------------------------------------------------
(* Mutant: every model without a ticket is missing again. *)
MutCooledForgetsRefusals(c) ==
    LET s == call[c]
        held == [m \in Models |-> IF s.held[m] # Nothing /\ Dead(s.want, s.held[m])
                                  THEN Nothing ELSE s.held[m]]
    IN  /\ Quiet /\ s.pc = "cool" /\ s.stop = "none"
        /\ Put(c, [s EXCEPT !.pc = "next", !.phase = "mint", !.tries = 0, !.retry = FALSE, !.held = held,
                            !.missing = {m \in Models : held[m] = Nothing}])
        /\ UNCHANGED <<now, cache>>
(* After the cooldown what has run out is dropped and what can be had is   *)
(* missing again.                                                          *)
Cooled(c) ==
    LET s == call[c]
        held == [m \in Models |-> IF s.held[m] # Nothing /\ Dead(s.want, s.held[m])
                                  THEN Nothing ELSE s.held[m]]
    IN  /\ Quiet /\ s.pc = "cool" /\ s.stop = "none"
        /\ Put(c, [s EXCEPT !.pc = "next", !.phase = "mint", !.tries = 0, !.retry = FALSE, !.held = held,
                            !.missing = {m \in Models : held[m] = Nothing} \ s.terminal])
        /\ UNCHANGED <<now, cache>>
CoolCut(c) ==
    /\ Quiet /\ call[c].pc = "cool" /\ call[c].stop # "none"
    /\ Put(c, [call[c] EXCEPT !.pc = "reply"])
    /\ UNCHANGED <<now, cache>>

(* The end of the handler.  Nothing is written to a client that is gone or *)
(* has its answer; tickets are tested once more, and a call answers with   *)
(* tickets only if it has one and a live pair to go with it.               *)
(* Mutant: tickets are not tested again. *)
MutGoodUntested(s) == {m \in Models : s.held[m] # Nothing}
Good(s) == {m \in Models : s.held[m] # Nothing /\ ~Dead(s.want, s.held[m])}
(* Mutant: only models that were tried are accounted for. *)
MutOutcomeForgets(s) ==
    LET late == {m \in Models : s.held[m] # Nothing} \ Good(s)
    IN  IF Good(s) = {} \/ ~Live(s.want, s.pair) THEN [kind |-> "exhausted"]
        ELSE [kind |-> "ok", pair |-> s.pair, errors |-> s.errors \cup late, at |-> now,
              tickets |-> [m \in Models |-> IF m \in Good(s) THEN s.held[m] ELSE Nothing]]
Outcome(s) ==
    LET late == {m \in Models : s.held[m] # Nothing} \ Good(s)
        unmet == IF s.stop # "none" THEN Absent(s) ELSE {}
    IN  IF Good(s) = {} \/ ~Live(s.want, s.pair) THEN [kind |-> "exhausted"]
        ELSE [kind |-> "ok", pair |-> s.pair, errors |-> s.errors \cup unmet \cup late, at |-> now,
              tickets |-> [m \in Models |-> IF m \in Good(s) THEN s.held[m] ELSE Nothing]]
Reply(c) ==
    LET s == call[c]
    IN  /\ s.pc = "reply"
        /\ Put(c, Over(s, IF s.stop = "client_closed" \/ s.answer # Nothing THEN s.answer
                          ELSE Outcome(s)))
        /\ UNCHANGED <<now, cache>>

(* mintLifetime: the client goes away, or the whole call takes too long.   *)
Abort(c) ==
    /\ Quiet /\ call[c].pc \notin {"idle", "done"} /\ call[c].stop = "none"
    /\ \E why \in {"client_closed", "total_timeout"} : Put(c, [call[c] EXCEPT !.stop = why])
    /\ UNCHANGED <<now, cache>>

Tick ==
    /\ Quiet /\ now < MaxTime
    /\ now' = now + 1
    /\ UNCHANGED <<cache, call>>

Loop(c) ==
    \/ Shoot(c) \/ Unable(c) \/ GiveUp(c) \/ ModelsDone(c) \/ RoundDone(c)
    \/ Land(c) \/ Cut(c) \/ Refused(c) \/ Unfit(c) \/ Fit(c) \/ Echo(c) \/ EchoFails(c)
    \/ Cooled(c) \/ CoolCut(c) \/ Reply(c)
Next ==
    \/ Tick
    \/ \E c \in Calls : Begin(c) \/ Loop(c) \/ Abort(c)

(* Code runs, every request and every wait has its timer. *)
Fairness == \A c \in Calls : WF_vars(Loop(c))
Spec == Init /\ [][Next]_vars /\ Fairness

------------------------------------------------------------------------------
(* Properties. *)

CallStates ==
    [pc : {"idle", "next", "fly", "judge", "verify", "cool", "reply", "done"},
     phase : {"mint", "renew"}, want : Wants \cup {Nothing}, pair : Pairs \cup {Nothing},
     held : [Models -> Holdings \cup {Nothing}], errors : SUBSET Models,
     terminal : SUBSET Models, missing : SUBSET Models, tries : 0 .. MaxAttempts,
     retry : BOOLEAN, attempts : 0 .. MaxTotal,
     stop : {"none", "client_closed", "total_timeout", "total_attempt_limit"},
     sent : Pairs \cup {Nothing}, shot : Shots \cup {Nothing},
     answer : {Nothing} \cup [kind : {"invalid", "rejected", "exhausted"}]
              \cup [kind : {"ok"}, tickets : [Models -> Holdings \cup {Nothing}],
                    pair : Pairs, errors : SUBSET Models, at : 0 .. MaxTime]]

(* Types: mintCache holds tickets under models and pairs under the pair's  *)
(* key, never more than MINT_CACHE_MAX of them; calls have the locals of   *)
(* mintWithLifetime, and a call under way knows what it wants.             *)
TypeOK ==
    /\ now \in 0 .. MaxTime
    /\ cache \in [Slots -> Holdings \cup Pairs \cup {Nothing}]
    /\ \A l \in Lanes : /\ cache[<<l, PairSlot>>] \in Pairs \cup {Nothing}
                        /\ \A m \in Models : cache[<<l, m>>] \in Holdings \cup {Nothing}
    /\ Cardinality(Filled) <= CacheMax
    /\ call \in [Calls -> CallStates]
    /\ \A c \in Calls : call[c].pc # "idle" => call[c].want \in Wants

(* No detour through the cache changes what a ticket is: every ticket      *)
(* cached, held or judged is one its upstream answer was fit for - of the  *)
(* lane and model of its key, on the lane's target, verified if that is    *)
(* on - and every cached pair is on the target of its lane ("off-target    *)
(* pairs never enter the cache").                                          *)
Sound(l, m, h) ==
    /\ h.ticket.lane = l /\ h.ticket.model = m
    /\ Target[l] = AnyNode \/ h.ticket.node = Target[l]
    /\ Verify => h.ticket.full
CacheIsSound ==
    \A l \in Lanes :
        /\ cache[<<l, PairSlot>>] # Nothing =>
              Target[l] = AnyNode \/ cache[<<l, PairSlot>>].gw = Target[l]
        /\ \A m \in Models : cache[<<l, m>>] # Nothing => Sound(l, m, cache[<<l, m>>])

(* A call that was stopped by its budget or its deadline and still answers *)
(* with tickets says of every other model why it is missing: models the    *)
(* rounds never reached do not vanish from the answer.                     *)
Accounted(a) == \A m \in Models : a.tickets[m] # Nothing \/ m \in a.errors
StoppedCallsAccountForAll ==
    \A c \in Calls :
        (call[c].answer # Nothing /\ call[c].answer.kind = "ok" /\ call[c].stop # "none")
            => Accounted(call[c].answer)

(* The documentation says it of every answer with tickets: what was        *)
(* refused for good is listed under errors.                                *)
ModelsAccounted ==
    \A c \in Calls :
        (call[c].answer # Nothing /\ call[c].answer.kind = "ok") => Accounted(call[c].answer)

(* Every request that is sent for a call has a reason, over all rounds and *)
(* renewals: the model was not refused for good before, and either the     *)
(* call has no ticket for it that would still be good, or it has no live   *)
(* pair; it carries a live pair on target if the call has one, and a call  *)
(* that brought a pair sends nothing without.                              *)
Warranted(s, t) ==
    /\ Aimed(s) \notin s.terminal
    /\ s.held[Aimed(s)] # Nothing => ~Live(s.want, s.pair)
    /\ Live(s.want, s.pair) => t.sent = s.pair
    /\ t.sent # Nothing => Live(s.want, t.sent)
    /\ Seeded(s) => t.sent # Nothing
ShotsAreWarranted ==
    [][\A c \in Calls : call'[c].attempts > call[c].attempts => Warranted(call[c], call'[c])]_vars

(* The mint keeps what TicketOffice promises: one answer to each call, of  *)
(* good tickets of the caller's own only.                                  *)
Office == INSTANCE TicketOffice WITH
    Visitors <- Calls, today <- now,
    visit <- [c \in Calls |->
                 [at |-> IF call[c].pc = "idle" THEN "out" ELSE IF call[c].pc = "done" THEN "left" ELSE "in",
                  want |-> call[c].want,
                  answer |-> IF call[c].pc = "done" THEN call[c].answer ELSE Nothing]]
KeepsOffice == Office!Safe

(* Every call is answered or abandoned in the end, whatever the upstream   *)
(* does: budgets, timers and cooldowns never add up to a loop.             *)
CallsEnd == Office!Served

==============================================================================
