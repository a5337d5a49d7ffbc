--------------------------- MODULE RelayMintProofs ---------------------------
(***************************************************************************)
(* Proofs about RelayMint, for every value of its constants: types, the    *)
(* soundness of the shared cache, and the warrant of every request sent.   *)
(***************************************************************************)
EXTENDS RelayMint, FiniteSetTheorems, WellFoundedInduction, TLAPS

USE RelayAssumption

-----------------------------------------------------------------------------
(* Whose turn it is. *)

LEMMA FirstIsIn ==
  ASSUME NEW S, S \subseteq Models, S # {}
  PROVE  First(S) \in S
  <1>1. PICK m \in S : \A k \in S : ~(<<k, m>> \in OpToRel(<, Nat))
    BY NatLessThanWellFounded, WFMin
  <1>2. \A k \in S : <<k, m>> \in Nat \X Nat
    OBVIOUS
  <1>3. \A k \in S : ~(k < m)
    BY <1>1, <1>2 DEF OpToRel
  <1>4. \A k \in S : m <= k
    BY <1>3
  <1>5. QED
    BY <1>4 DEF First

\* The models that may have their turn in the phase of a call.
Turn(s) == IF s.phase = "mint" THEN s.missing ELSE Renewers(s)

LEMMA AimedIsIn ==
  ASSUME NEW s \in CallStates, Turn(s) # {}
  PROVE  Aimed(s) \in Turn(s) /\ Aimed(s) \in Models
  <1>1. Turn(s) \subseteq Models
    BY DEF Turn, Renewers, CallStates
  <1>2. Aimed(s) = First(Turn(s))
    BY DEF Aimed, Turn
  <1>3. QED
    BY <1>1, <1>2, FirstIsIn

-----------------------------------------------------------------------------
(* The records. *)

LEMMA Null ==
  /\ Nothing \notin Pairs /\ Nothing \notin Shots /\ Nothing \notin Holdings /\ Nothing \notin Mints
  /\ Nothing \notin Wants /\ Part \notin Pairs /\ Nothing # Part
  BY DEF Nothing, Part, Pairs, Shots, Holdings, Mints, Wants

\* A call with one local set anew.
LEMMA Updates ==
  /\ \A s \in CallStates, v \in {"next", "fly", "judge", "verify", "cool", "reply"} :
        [s EXCEPT !.pc = v] \in CallStates
  /\ \A s \in CallStates, v \in {"mint", "renew"} : [s EXCEPT !.phase = v] \in CallStates
  /\ \A s \in CallStates, v \in Pairs \cup {Nothing} :
        [s EXCEPT !.pair = v] \in CallStates /\ [s EXCEPT !.sent = v] \in CallStates
  /\ \A s \in CallStates, v \in [Models -> Holdings \cup {Nothing}] : [s EXCEPT !.held = v] \in CallStates
  /\ \A s \in CallStates, v \in SUBSET Models :
        /\ [s EXCEPT !.errors = v] \in CallStates
        /\ [s EXCEPT !.terminal = v] \in CallStates
        /\ [s EXCEPT !.missing = v] \in CallStates
  /\ \A s \in CallStates, v \in 0 .. MaxAttempts : [s EXCEPT !.tries = v] \in CallStates
  /\ \A s \in CallStates, v \in 0 .. MaxTotal : [s EXCEPT !.attempts = v] \in CallStates
  /\ \A s \in CallStates, v \in BOOLEAN : [s EXCEPT !.retry = v] \in CallStates
  /\ \A s \in CallStates, v \in {"none", "client_closed", "total_timeout", "total_attempt_limit"} :
        [s EXCEPT !.stop = v] \in CallStates
  /\ \A s \in CallStates, v \in Shots \cup {Nothing} : [s EXCEPT !.shot = v] \in CallStates
  /\ \A s \in CallStates :
        [s EXCEPT !.answer = [kind |-> "rejected"]] \in CallStates
  <1>1. \A s \in CallStates, v \in {"next", "fly", "judge", "verify", "cool", "reply"} :
           [s EXCEPT !.pc = v] \in CallStates
    BY DEF CallStates
  <1>12. \A s \in CallStates, v \in {"mint", "renew"} : [s EXCEPT !.phase = v] \in CallStates
    BY DEF CallStates
  <1>2. \A s \in CallStates, v \in Pairs \cup {Nothing} :
           [s EXCEPT !.pair = v] \in CallStates /\ [s EXCEPT !.sent = v] \in CallStates
    BY DEF CallStates
  <1>3. \A s \in CallStates, v \in [Models -> Holdings \cup {Nothing}] : [s EXCEPT !.held = v] \in CallStates
    BY DEF CallStates
  <1>4. \A s \in CallStates, v \in SUBSET Models :
           /\ [s EXCEPT !.errors = v] \in CallStates
           /\ [s EXCEPT !.terminal = v] \in CallStates
           /\ [s EXCEPT !.missing = v] \in CallStates
    BY DEF CallStates
  <1>5. \A s \in CallStates, v \in 0 .. MaxAttempts : [s EXCEPT !.tries = v] \in CallStates
    BY DEF CallStates
  <1>6. \A s \in CallStates, v \in 0 .. MaxTotal : [s EXCEPT !.attempts = v] \in CallStates
    BY DEF CallStates
  <1>7. \A s \in CallStates, v \in BOOLEAN : [s EXCEPT !.retry = v] \in CallStates
    BY DEF CallStates
  <1>8. \A s \in CallStates, v \in {"none", "client_closed", "total_timeout", "total_attempt_limit"} :
           [s EXCEPT !.stop = v] \in CallStates
    BY DEF CallStates
  <1>9. \A s \in CallStates, v \in Shots \cup {Nothing} : [s EXCEPT !.shot = v] \in CallStates
    BY DEF CallStates
  <1>10. \A s \in CallStates : [s EXCEPT !.answer = [kind |-> "rejected"]] \in CallStates
    BY DEF CallStates
  <1>11. QED
    BY <1>1, <1>2, <1>3, <1>4, <1>5, <1>6, <1>7, <1>8, <1>9, <1>10, <1>12

LEMMA EndedType ==
  ASSUME NEW s \in CallStates, s.phase = "mint" => Aimed(s) \in Models
  PROVE  /\ Ended(s) \in CallStates
         /\ Ended(s).pc = "reply" /\ Ended(s).sent = Nothing /\ Ended(s).want = s.want
         /\ Ended(s).held = s.held /\ Ended(s).pair = s.pair /\ Ended(s).stop = s.stop
         /\ Ended(s).answer = s.answer
  <1>1. (IF s.phase = "mint" THEN s.errors \cup {Aimed(s)} ELSE s.errors) \in SUBSET Models
    BY DEF CallStates
  <1>2. Ended(s) \in CallStates
    BY <1>1, Updates DEF Ended
  <1>3. QED
    BY <1>2 DEF Ended, CallStates

LEMMA NextModelType ==
  ASSUME NEW s \in CallStates
  PROVE  /\ NextModel(s) \in CallStates
         /\ NextModel(s).pc = "next" /\ NextModel(s).sent = Nothing /\ NextModel(s).want = s.want
         /\ NextModel(s).held = s.held /\ NextModel(s).pair = s.pair /\ NextModel(s).stop = s.stop
         /\ NextModel(s).answer = s.answer /\ NextModel(s).phase = s.phase
         /\ NextModel(s).missing = s.missing \ {Aimed(s)}
         /\ NextModel(s).terminal = s.terminal /\ NextModel(s).errors = s.errors
  <1>1. s.missing \ {Aimed(s)} \in SUBSET Models /\ 0 \in 0 .. MaxAttempts
    BY DEF CallStates
  <1>2. NextModel(s) \in CallStates
    BY <1>1, Updates DEF NextModel
  <1>3. QED
    BY <1>2 DEF NextModel, CallStates

LEMMA AgainType ==
  ASSUME NEW s \in CallStates, s.tries < MaxAttempts
  PROVE  /\ Again(s) \in CallStates
         /\ Again(s).pc = "next" /\ Again(s).sent = Nothing /\ Again(s).want = s.want
         /\ Again(s).held = s.held /\ Again(s).pair = s.pair /\ Again(s).stop = s.stop
         /\ Again(s).answer = s.answer /\ Again(s).phase = s.phase /\ Again(s).missing = s.missing
         /\ Again(s).terminal = s.terminal /\ Again(s).errors = s.errors
  <1>1. s.tries + 1 \in 0 .. MaxAttempts
    BY DEF CallStates
  <1>2. Again(s) \in CallStates
    BY <1>1, Updates DEF Again
  <1>3. QED
    BY <1>2 DEF Again, CallStates

-----------------------------------------------------------------------------
(* The inductive invariant. *)

\* What may stand in a slot of the cache.
SlotGood(k, e) ==
    e # Nothing => IF k[2] = PairSlot
                   THEN e \in Pairs /\ (Target[k[1]] = AnyNode \/ e.gw = Target[k[1]])
                   ELSE e \in Holdings /\ Sound(k[1], k[2], e)

CacheGood ==
    /\ cache = [k \in Slots |-> cache[k]]
    /\ \A k \in Slots : SlotGood(k, cache[k])
    /\ Cardinality(Filled) <= CacheMax

\* A ticket a call with the wants w may hold for model m.
Due(w, m, h) ==
    /\ h \in Holdings /\ Sound(w.lane, m, h)
    /\ w.len = 0 \/ h.ticket.len = w.len
    /\ w.ttl > 0 => h.exp <= h.ticket.issued + w.ttl

Flying(s) == s.pc \in {"fly", "judge", "verify"}

\* What a call knows at its program point: a shot under way has its model, a
\* judged one its answer; what is held is due to the call, what is missing is
\* neither held nor refused, and an error stands for a model without ticket.
CallInv(s) ==
    /\ s.pc # "idle" => s.want \in Wants
    /\ Flying(s) => s.tries < MaxAttempts /\ Turn(s) # {}
    /\ Flying(s) /\ s.phase = "mint" => Aimed(s) \notin s.errors
    /\ s.pc \in {"judge", "verify"} => s.shot \in Shots
    /\ s.pc = "verify" => s.phase = "mint" /\ Acceptable(s)
    /\ s.sent # Nothing => OnTarget(s.want, s.sent.gw)
    /\ \A m \in Models : s.held[m] # Nothing => Due(s.want, m, s.held[m])
    /\ s.phase = "mint" => s.missing \subseteq Absent(s) \ s.terminal
    /\ s.errors \subseteq Absent(s)
    /\ s.answer # Nothing /\ s.answer.kind = "ok" /\ s.stop # "none" => Accounted(s.answer)
    /\ s.pc # "done" => s.answer \in {Nothing, [kind |-> "rejected"]}

IInv ==
    /\ now \in 0 .. MaxTime
    /\ CacheGood
    /\ call \in [Calls -> CallStates]
    /\ \A c \in Calls : CallInv(call[c])

LEMMA FreshType ==
  ASSUME NEW w \in Wants
  PROVE  Fresh(w) \in CallStates /\ CallInv(Fresh(w))
  <1>1. Empty \in [Models -> Holdings \cup {Nothing}] /\ \A m \in Models : Empty[m] = Nothing
    BY DEF Empty
  <1>2. Fresh(w) \in CallStates
    BY <1>1 DEF Fresh, CallStates
  <1>3. QED
    BY <1>1, <1>2 DEF Fresh, CallInv, Flying, Absent

LEMMA IdleType ==
  Idle \in CallStates /\ CallInv(Idle) /\ Idle.pc = "idle" /\ Idle.answer = Nothing /\ Idle.want = Nothing
  <1>1. Empty \in [Models -> Holdings \cup {Nothing}] /\ \A m \in Models : Empty[m] = Nothing
    BY DEF Empty
  <1>2. Fresh(Nothing) \in CallStates
    BY <1>1 DEF Fresh, CallStates
  <1>3. Idle \in CallStates
    BY <1>2 DEF Idle, CallStates
  <1>4. QED
    BY <1>1, <1>2, <1>3 DEF Idle, Fresh, CallInv, Flying, Absent

LEMMA InitInv == Init => IInv
  <1> SUFFICES ASSUME Init PROVE IInv
    OBVIOUS
  <1>1. Filled = {}
    BY DEF Init, Filled
  <1>2. Cardinality(Filled) = 0
    BY <1>1, FS_EmptySet
  <1>3. CacheGood
    BY <1>2 DEF CacheGood, Init, SlotGood
  <1>4. QED
    BY <1>3, IdleType DEF Init, IInv

-----------------------------------------------------------------------------
(* The cache. *)

LEMMA FilledIsFinite == IsFiniteSet(Slots) /\ IsFiniteSet(Filled) /\ IsFiniteSet(Filled')
  <1>1. IsFiniteSet(Models \cup {PairSlot})
    BY FS_AddElement
  <1>2. IsFiniteSet(Slots)
    BY <1>1, FS_Product DEF Slots
  <1>3. Filled \subseteq Slots /\ Filled' \subseteq Slots
    BY DEF Filled
  <1>4. QED
    BY <1>2, <1>3, FS_Subset

\* Entries may be dropped.
LEMMA DropStep ==
  ASSUME IInv, cache' = [k \in Slots |-> cache'[k]],
         \A k \in Slots : cache'[k] \in {cache[k], Nothing}
  PROVE  CacheGood'
  <1>1. Filled' \subseteq Filled
    BY DEF Filled
  <1>2. Cardinality(Filled') <= Cardinality(Filled)
    BY <1>1, FilledIsFinite, FS_Subset
  <1>3. Cardinality(Filled') \in Nat /\ Cardinality(Filled) \in Nat /\ Cardinality(Filled) <= CacheMax
    BY FilledIsFinite, FS_CardinalityType DEF IInv, CacheGood
  <1>4. \A k \in Slots : SlotGood(k, cache'[k])
    BY DEF IInv, CacheGood, SlotGood
  <1>5. QED
    BY <1>2, <1>3, <1>4 DEF CacheGood

LEMMA KeptStep ==
  ASSUME IInv, UNCHANGED cache
  PROVE  CacheGood'
  BY DropStep DEF IInv, CacheGood

\* A full cache makes room for what is stored.
LEMMA StoreStep ==
  ASSUME IInv, NEW k \in Slots, NEW e, SlotGood(k, e), Store(k, e)
  PROVE  CacheGood'
  <1> USE DEF IInv
  <1>1. cache = [j \in Slots |-> cache[j]] /\ (\A j \in Slots : SlotGood(j, cache[j]))
        /\ Cardinality(Filled) <= CacheMax /\ Cardinality(Filled) \in Nat
    BY FilledIsFinite, FS_CardinalityType DEF CacheGood
  <1>2. CASE Cardinality(Filled) < CacheMax
    <2>1. cache' = [cache EXCEPT ![k] = e]
      BY <1>2 DEF Store
    <2>2. \A j \in Slots : cache'[j] = IF j = k THEN e ELSE cache[j]
      BY <1>1, <2>1
    <2>3. Filled' \subseteq Filled \cup {k}
      BY <2>2 DEF Filled
    <2>4. IsFiniteSet(Filled \cup {k}) /\ Cardinality(Filled \cup {k}) <= Cardinality(Filled) + 1
      <3>1. Cardinality(Filled \cup {k}) \in {Cardinality(Filled), Cardinality(Filled) + 1}
        BY FilledIsFinite, FS_AddElement
      <3>2. QED
        BY <1>1, <3>1, FilledIsFinite, FS_AddElement
    <2>5. Cardinality(Filled') <= Cardinality(Filled \cup {k}) /\ Cardinality(Filled') \in Nat
          /\ Cardinality(Filled \cup {k}) \in Nat
      BY <2>3, <2>4, FilledIsFinite, FS_Subset, FS_CardinalityType
    <2>6. Cardinality(Filled') <= CacheMax
      BY <1>1, <1>2, <2>4, <2>5
    <2>7. QED
      BY <1>1, <2>1, <2>2, <2>6 DEF CacheGood
  <1>3. CASE ~(Cardinality(Filled) < CacheMax)
    <2>1. PICK victim \in Filled : cache' = [cache EXCEPT ![victim] = Nothing, ![k] = e]
      BY <1>3 DEF Store
    <2>2. victim \in Slots
      BY DEF Filled
    <2>3. \A j \in Slots : cache'[j] = IF j = k THEN e ELSE IF j = victim THEN Nothing ELSE cache[j]
      BY <1>1, <2>1, <2>2
    <2>4. Filled' \subseteq (Filled \ {victim}) \cup {k}
      BY <2>3 DEF Filled
    <2>5. IsFiniteSet(Filled \ {victim}) /\ Cardinality(Filled \ {victim}) = Cardinality(Filled) - 1
      BY FilledIsFinite, FS_RemoveElement, <2>1
    <2>6. /\ IsFiniteSet((Filled \ {victim}) \cup {k})
          /\ Cardinality((Filled \ {victim}) \cup {k}) <= Cardinality(Filled)
      <3>1. IsFiniteSet((Filled \ {victim}) \cup {k})
        BY <2>5, FS_AddElement
      <3>2. Cardinality((Filled \ {victim}) \cup {k})
              \in {Cardinality(Filled \ {victim}), Cardinality(Filled \ {victim}) + 1}
        BY <2>5, FS_AddElement
      <3>3. Cardinality((Filled \ {victim}) \cup {k}) <= Cardinality(Filled)
        BY <1>1, <2>5, <3>2
      <3>4. QED
        BY <3>1, <3>3
    <2>7. Cardinality(Filled') <= Cardinality((Filled \ {victim}) \cup {k}) /\ Cardinality(Filled') \in Nat
          /\ Cardinality((Filled \ {victim}) \cup {k}) \in Nat
      BY <2>4, <2>6, FilledIsFinite, FS_Subset, FS_CardinalityType
    <2>8. Cardinality(Filled') <= CacheMax
      BY <1>1, <2>6, <2>7
    <2>9. \A j \in Slots : SlotGood(j, cache'[j])
      BY <1>1, <2>3 DEF SlotGood
    <2>10. QED
      BY <1>1, <2>1, <2>8, <2>9 DEF CacheGood
  <1>4. QED
    BY <1>2, <1>3

\* One call moves and the cache stays good.
LEMMA MoveStep ==
  ASSUME IInv, NEW c \in Calls, NEW s \in CallStates, CallInv(s), Put(c, s), UNCHANGED now, CacheGood'
  PROVE  IInv'
  <1>1. call' \in [Calls -> CallStates] /\ \A d \in Calls : call'[d] = IF d = c THEN s ELSE call[d]
    BY DEF IInv, Put
  <1>2. \A d \in Calls : CallInv(call'[d])
    BY <1>1 DEF IInv
  <1>3. QED
    BY <1>1, <1>2 DEF IInv

-----------------------------------------------------------------------------
(* Every step keeps the invariant: first what the terms of a call keep. *)

LEMMA Parts ==
  ASSUME IInv, NEW c \in Calls
  PROVE  call[c] \in CallStates /\ CallInv(call[c])
  BY DEF IInv

LEMMA SameTurn ==
  ASSUME NEW s, NEW t, t.phase = s.phase, t.missing = s.missing, t.held = s.held, t.terminal = s.terminal
  PROVE  Turn(t) = Turn(s) /\ Aimed(t) = Aimed(s) /\ Absent(t) = Absent(s)
  BY DEF Turn, Aimed, Absent, Renewers

\* A model that has its turn to be minted is absent and was not refused.
LEMMA AimedIsAbsent ==
  ASSUME NEW s \in CallStates, CallInv(s), s.phase = "mint", s.missing # {}
  PROVE  Aimed(s) \in s.missing /\ Aimed(s) \in Absent(s) /\ Aimed(s) \notin s.terminal /\ Aimed(s) \in Models
  <1>1. Turn(s) = s.missing
    BY DEF Turn
  <1>2. Aimed(s) \in s.missing /\ Aimed(s) \in Models
    BY <1>1, AimedIsIn
  <1>3. QED
    BY <1>2 DEF CallInv

LEMMA EndedInv ==
  ASSUME NEW s \in CallStates, CallInv(s), s.pc \notin {"idle", "done"}, s.phase = "mint" => s.missing # {}
  PROVE  /\ Ended(s) \in CallStates /\ CallInv(Ended(s))
         /\ Ended(s).pc = "reply" /\ Ended(s).sent = Nothing
  <1>1. s.phase = "mint" => Aimed(s) \in Models /\ Aimed(s) \in Absent(s)
    BY AimedIsAbsent
  <1>2. PICK t \in CallStates : t = Ended(s)
    BY <1>1, EndedType
  <1>3. /\ t.pc = "reply" /\ t.sent = Nothing /\ t.want = s.want /\ t.held = s.held /\ t.stop = s.stop
        /\ t.answer = s.answer /\ t.phase = s.phase /\ t.missing = s.missing /\ t.terminal = s.terminal
        /\ t.errors = IF s.phase = "mint" THEN s.errors \cup {Aimed(s)} ELSE s.errors
    BY <1>2 DEF Ended, CallStates
  <1>4. Absent(t) = Absent(s)
    BY <1>3 DEF Absent
  <1>5. CallInv(t)
    BY <1>1, <1>3, <1>4 DEF CallInv, Flying
  <1>6. QED
    BY <1>2, <1>3, <1>5

LEMMA NextModelInv ==
  ASSUME NEW s \in CallStates, CallInv(s), s.pc \notin {"idle", "done"}
  PROVE  CallInv(NextModel(s)) /\ Absent(NextModel(s)) = Absent(s)
  <1>1. PICK t \in CallStates : t = NextModel(s)
    BY NextModelType
  <1>2. /\ t.pc = "next" /\ t.sent = Nothing /\ t.want = s.want /\ t.held = s.held /\ t.stop = s.stop
        /\ t.answer = s.answer /\ t.phase = s.phase /\ t.missing = s.missing \ {Aimed(s)}
        /\ t.terminal = s.terminal /\ t.errors = s.errors
    BY <1>1, NextModelType
  <1>3. Absent(t) = Absent(s)
    BY <1>2 DEF Absent
  <1>4. CallInv(t)
    BY <1>2, <1>3 DEF CallInv, Flying
  <1>5. QED
    BY <1>1, <1>3, <1>4

LEMMA AgainInv ==
  ASSUME NEW s \in CallStates, CallInv(s), Flying(s)
  PROVE  Again(s) \in CallStates /\ CallInv(Again(s))
  <1>1. s.tries < MaxAttempts /\ s.pc \notin {"idle", "done"}
    BY DEF CallInv, Flying
  <1>2. PICK t \in CallStates : t = Again(s)
    BY <1>1, AgainType
  <1>3. /\ t.pc = "next" /\ t.sent = Nothing /\ t.want = s.want /\ t.held = s.held /\ t.stop = s.stop
        /\ t.answer = s.answer /\ t.phase = s.phase /\ t.missing = s.missing
        /\ t.terminal = s.terminal /\ t.errors = s.errors
    BY <1>1, <1>2, AgainType
  <1>4. Absent(t) = Absent(s)
    BY <1>3 DEF Absent
  <1>5. CallInv(t)
    BY <1>1, <1>3, <1>4 DEF CallInv, Flying
  <1>6. QED
    BY <1>2, <1>5

-----------------------------------------------------------------------------
(* Steps between the awaits. *)

LEMMA ShootStep ==
  ASSUME IInv, NEW c \in Calls, Shoot(c)
  PROVE  IInv'
  <1>1. PICK s \in CallStates : s = call[c] /\ CallInv(s)
    BY Parts
  <1> DEFINE sent == IF Live(s.want, s.pair) THEN s.pair ELSE Nothing
             errors == IF s.phase = "mint" THEN s.errors \ {Aimed(s)} ELSE s.errors
  <1>2. s.attempts + 1 \in 0 .. MaxTotal /\ sent \in Pairs \cup {Nothing} /\ errors \in SUBSET Models
    BY <1>1 DEF Shoot, CallStates
  <1>3. PICK t \in CallStates :
          t = [s EXCEPT !.pc = "fly", !.attempts = s.attempts + 1, !.sent = sent, !.errors = errors]
    BY <1>2, Updates
  <1>4. /\ t.pc = "fly" /\ t.sent = sent /\ t.errors = errors /\ t.want = s.want /\ t.held = s.held
        /\ t.stop = s.stop /\ t.answer = s.answer /\ t.phase = s.phase /\ t.missing = s.missing
        /\ t.terminal = s.terminal /\ t.tries = s.tries
    BY <1>3 DEF CallStates
  <1>5. Turn(t) = Turn(s) /\ Aimed(t) = Aimed(s) /\ Absent(t) = Absent(s)
    BY <1>4, SameTurn
  <1>6. s.pc = "next" /\ s.tries < MaxAttempts /\ Turn(s) # {}
    BY <1>1 DEF Shoot, Wanting, Turn
  <1>7. sent # Nothing => OnTarget(s.want, sent.gw)
    BY DEF Live
  <1>8. CallInv(t)
    BY <1>1, <1>4, <1>5, <1>6, <1>7 DEF CallInv, Flying
  <1>9. Put(c, t) /\ UNCHANGED <<now, cache>>
    BY <1>1, <1>3 DEF Shoot
  <1>10. QED
    BY <1>8, <1>9, KeptStep, MoveStep

LEMMA UnableStep ==
  ASSUME IInv, NEW c \in Calls, Unable(c)
  PROVE  IInv'
  <1>1. PICK s \in CallStates : s = call[c] /\ CallInv(s)
    BY Parts
  <1>2. s.pc = "next" /\ (s.phase = "mint" => s.missing # {})
    BY <1>1 DEF Unable, Wanting
  <1>3. PICK e \in CallStates : e = Ended(s) /\ CallInv(e) /\ e.pc = "reply" /\ e.sent = Nothing
    BY <1>1, <1>2, EndedInv
  <1> DEFINE stop == IF SeedLost(s) THEN "none" ELSE "total_attempt_limit"
  <1>4. PICK t \in CallStates : t = [e EXCEPT !.stop = stop]
    BY Updates
  <1>5. /\ t.pc = e.pc /\ t.sent = e.sent /\ t.errors = e.errors /\ t.want = e.want /\ t.held = e.held
        /\ t.answer = e.answer /\ t.phase = e.phase /\ t.missing = e.missing /\ t.terminal = e.terminal
    BY <1>4 DEF CallStates
  <1>6. Absent(t) = Absent(e)
    BY <1>5 DEF Absent
  <1>7. e.answer # Nothing => e.answer.kind # "ok"
    BY <1>3 DEF CallInv
  <1>8. CallInv(t)
    BY <1>3, <1>5, <1>6, <1>7 DEF CallInv, Flying
  <1>9. Put(c, t) /\ UNCHANGED <<now, cache>>
    BY <1>1, <1>3, <1>4 DEF Unable
  <1>10. QED
    BY <1>8, <1>9, KeptStep, MoveStep

LEMMA GiveUpStep ==
  ASSUME IInv, NEW c \in Calls, GiveUp(c)
  PROVE  IInv'
  <1>1. PICK s \in CallStates : s = call[c] /\ CallInv(s)
    BY Parts
  <1>2. s.pc = "next" /\ s.phase = "mint" /\ s.missing # {}
    BY <1>1 DEF GiveUp
  <1>3. Aimed(s) \in Absent(s) /\ Aimed(s) \in Models
    BY <1>1, <1>2, AimedIsAbsent
  <1>4. PICK n \in CallStates : n = NextModel(s) /\ CallInv(n) /\ Absent(n) = Absent(s) /\ n.pc = "next"
    BY <1>1, <1>2, NextModelInv, NextModelType
  <1>5. n.errors \cup {Aimed(s)} \in SUBSET Models
    BY <1>3 DEF CallStates
  <1>6. PICK t \in CallStates : t = [n EXCEPT !.errors = n.errors \cup {Aimed(s)}, !.retry = TRUE]
    BY <1>5, Updates
  <1>7. /\ t.pc = n.pc /\ t.sent = n.sent /\ t.errors = n.errors \cup {Aimed(s)} /\ t.want = n.want
        /\ t.held = n.held /\ t.stop = n.stop /\ t.answer = n.answer /\ t.phase = n.phase
        /\ t.missing = n.missing /\ t.terminal = n.terminal
    BY <1>6 DEF CallStates
  <1>8. Absent(t) = Absent(n)
    BY <1>7 DEF Absent
  <1>9. CallInv(t)
    BY <1>3, <1>4, <1>7, <1>8 DEF CallInv, Flying
  <1>10. Put(c, t) /\ UNCHANGED <<now, cache>>
    BY <1>1, <1>4, <1>6 DEF GiveUp
  <1>11. QED
    BY <1>9, <1>10, KeptStep, MoveStep

\* A call that keeps its terms and waits for no shot.
LEMMA RestInv ==
  ASSUME NEW s \in CallStates, CallInv(s), s.pc \notin {"idle", "done"}, NEW t \in CallStates,
         t.pc \in {"next", "cool", "reply"}, t.want = s.want, t.held = s.held, t.errors = s.errors,
         t.answer = s.answer, t.terminal = s.terminal, t.missing = s.missing, t.sent = s.sent,
         t.phase = "mint" => s.phase = "mint"
  PROVE  CallInv(t)
  <1>1. Absent(t) = Absent(s)
    BY DEF Absent
  <1>2. s.answer # Nothing => s.answer.kind # "ok"
    BY DEF CallInv
  <1>3. QED
    BY <1>1, <1>2 DEF CallInv, Flying

LEMMA ModelsDoneStep ==
  ASSUME IInv, NEW c \in Calls, ModelsDone(c)
  PROVE  IInv'
  <1>1. PICK s \in CallStates : s = call[c] /\ CallInv(s)
    BY Parts
  <1>2. s.pc = "next"
    BY <1>1 DEF ModelsDone
  <1>3. PICK t \in CallStates :
          t = IF s.stop # "none" THEN [s EXCEPT !.pc = "reply"] ELSE [s EXCEPT !.phase = "renew", !.tries = 0]
    <2>1. 0 \in 0 .. MaxAttempts
      OBVIOUS
    <2>2. [s EXCEPT !.pc = "reply"] \in CallStates
      BY Updates
    <2>3. [s EXCEPT !.phase = "renew", !.tries = 0] \in CallStates
      BY <2>1, Updates
    <2>4. QED
      BY <2>2, <2>3
  <1>4. /\ t.pc \in {"next", "reply"} /\ t.want = s.want /\ t.held = s.held /\ t.errors = s.errors
        /\ t.answer = s.answer /\ t.terminal = s.terminal /\ t.missing = s.missing /\ t.sent = s.sent
        /\ t.phase = "mint" => s.phase = "mint"
    BY <1>2, <1>3 DEF CallStates
  <1>5. CallInv(t)
    BY <1>1, <1>2, <1>4, RestInv
  <1>6. Put(c, t) /\ UNCHANGED <<now, cache>>
    BY <1>1, <1>3 DEF ModelsDone
  <1>7. QED
    BY <1>5, <1>6, KeptStep, MoveStep

LEMMA RoundDoneStep ==
  ASSUME IInv, NEW c \in Calls, RoundDone(c)
  PROVE  IInv'
  <1>1. PICK s \in CallStates : s = call[c] /\ CallInv(s)
    BY Parts
  <1>2. s.pc = "next"
    BY <1>1 DEF RoundDone
  <1>3. PICK t \in CallStates :
          /\ t \in {[s EXCEPT !.pc = "reply"], [s EXCEPT !.pc = "reply", !.stop = "total_attempt_limit"],
                    [s EXCEPT !.pc = "cool"]}
          /\ Put(c, t)
    <2>1. [s EXCEPT !.pc = "reply"] \in CallStates /\ [s EXCEPT !.pc = "cool"] \in CallStates
      BY Updates
    <2>2. [s EXCEPT !.pc = "reply", !.stop = "total_attempt_limit"] \in CallStates
      BY Updates
    <2>3. QED
      BY <1>1, <2>1, <2>2 DEF RoundDone
  <1>4. /\ t.pc \in {"cool", "reply"} /\ t.want = s.want /\ t.held = s.held /\ t.errors = s.errors
        /\ t.answer = s.answer /\ t.terminal = s.terminal /\ t.missing = s.missing /\ t.sent = s.sent
        /\ t.phase = s.phase
    <2>1. CASE t = [s EXCEPT !.pc = "reply"]
      BY <2>1 DEF CallStates
    <2>2. CASE t = [s EXCEPT !.pc = "reply", !.stop = "total_attempt_limit"]
      BY <2>2 DEF CallStates
    <2>3. CASE t = [s EXCEPT !.pc = "cool"]
      BY <2>3 DEF CallStates
    <2>4. QED
      BY <1>3, <2>1, <2>2, <2>3
  <1>5. CallInv(t)
    BY <1>1, <1>2, <1>4, RestInv
  <1>6. UNCHANGED <<now, cache>>
    BY DEF RoundDone
  <1>7. QED
    BY <1>3, <1>5, <1>6, KeptStep, MoveStep

LEMMA CoolCutStep ==
  ASSUME IInv, NEW c \in Calls, CoolCut(c)
  PROVE  IInv'
  <1>1. PICK s \in CallStates : s = call[c] /\ CallInv(s)
    BY Parts
  <1>2. PICK t \in CallStates : t = [s EXCEPT !.pc = "reply"]
    BY Updates
  <1>3. /\ t.pc = "reply" /\ t.want = s.want /\ t.held = s.held /\ t.errors = s.errors
        /\ t.answer = s.answer /\ t.terminal = s.terminal /\ t.missing = s.missing /\ t.sent = s.sent
        /\ t.phase = s.phase
    BY <1>2 DEF CallStates
  <1>4. CallInv(t)
    BY <1>1, <1>3, RestInv DEF CoolCut
  <1>5. Put(c, t) /\ UNCHANGED <<now, cache>>
    BY <1>1, <1>2 DEF CoolCut
  <1>6. QED
    BY <1>4, <1>5, KeptStep, MoveStep

\* Whatever stops a call, it has no answer yet, or the refusal of a credential.
LEMMA AbortStep ==
  ASSUME IInv, NEW c \in Calls, Abort(c)
  PROVE  IInv'
  <1>1. PICK s \in CallStates : s = call[c] /\ CallInv(s)
    BY Parts
  <1>2. PICK why \in {"client_closed", "total_timeout"} : Put(c, [s EXCEPT !.stop = why])
    BY <1>1 DEF Abort
  <1>3. PICK t \in CallStates : t = [s EXCEPT !.stop = why]
    BY Updates
  <1>4. /\ t.pc = s.pc /\ t.want = s.want /\ t.held = s.held /\ t.errors = s.errors
        /\ t.answer = s.answer /\ t.terminal = s.terminal /\ t.missing = s.missing /\ t.sent = s.sent
        /\ t.phase = s.phase /\ t.tries = s.tries /\ t.shot = s.shot /\ t.pair = s.pair
    BY <1>3 DEF CallStates
  <1>5. Turn(t) = Turn(s) /\ Aimed(t) = Aimed(s) /\ Absent(t) = Absent(s)
    BY <1>4, SameTurn
  <1>6. s.pc # "done" /\ s.pc # "idle"
    BY <1>1 DEF Abort
  <1>7. s.answer # Nothing => s.answer.kind # "ok"
    BY <1>1, <1>6 DEF CallInv
  <1>8. Acceptable(t) = Acceptable(s)
    BY <1>4 DEF Acceptable, NodeOf
  <1>9. CallInv(t)
    BY <1>1, <1>4, <1>5, <1>7, <1>8 DEF CallInv, Flying
  <1>10. Put(c, t) /\ UNCHANGED <<now, cache>>
    BY <1>2, <1>3 DEF Abort
  <1>11. QED
    BY <1>9, <1>10, KeptStep, MoveStep

LEMMA CooledStep ==
  ASSUME IInv, NEW c \in Calls, Cooled(c)
  PROVE  IInv'
  <1>1. PICK s \in CallStates : s = call[c] /\ CallInv(s)
    BY Parts
  <1>2. PICK held \in [Models -> Holdings \cup {Nothing}] :
          held = [m \in Models |-> IF s.held[m] # Nothing /\ Dead(s.want, s.held[m])
                                   THEN Nothing ELSE s.held[m]]
    BY DEF CallStates
  <1>3. PICK missing \in SUBSET Models : missing = {m \in Models : held[m] = Nothing} \ s.terminal
    OBVIOUS
  <1>4. 0 \in 0 .. MaxAttempts /\ FALSE \in BOOLEAN
    OBVIOUS
  <1>5. PICK t \in CallStates :
          t = [s EXCEPT !.pc = "next", !.phase = "mint", !.tries = 0, !.retry = FALSE, !.held = held,
                        !.missing = missing]
    BY <1>4, Updates
  <1>6. /\ t.pc = "next" /\ t.want = s.want /\ t.held = held /\ t.errors = s.errors
        /\ t.answer = s.answer /\ t.terminal = s.terminal /\ t.missing = missing /\ t.sent = s.sent
        /\ t.stop = s.stop
    BY <1>5 DEF CallStates
  <1>7. Absent(t) = {m \in Models : held[m] = Nothing} /\ Absent(s) \subseteq Absent(t)
    BY <1>2, <1>6 DEF Absent
  <1>8. \A m \in Models : held[m] # Nothing => held[m] = s.held[m]
    BY <1>2
  <1>9. s.pc = "cool"
    BY <1>1 DEF Cooled
  <1>10. CallInv(t)
    BY <1>1, <1>3, <1>6, <1>7, <1>8, <1>9 DEF CallInv, Flying
  <1>11. Put(c, t) /\ UNCHANGED <<now, cache>>
    BY <1>1, <1>2, <1>3, <1>5 DEF Cooled
  <1>12. QED
    BY <1>10, <1>11, KeptStep, MoveStep

-----------------------------------------------------------------------------
(* Arrival and answer. *)

\* What a finished call keeps.
LEMMA OverType ==
  ASSUME NEW w \in Wants, NEW s, s.want = w,
         s.stop \in {"none", "client_closed", "total_timeout", "total_attempt_limit"}, NEW a,
         a \in {Nothing} \cup [kind : {"invalid", "rejected", "exhausted"}]
               \cup [kind : {"ok"}, tickets : [Models -> Holdings \cup {Nothing}],
                     pair : Pairs, errors : SUBSET Models, at : 0 .. MaxTime],
         a # Nothing /\ a.kind = "ok" /\ s.stop # "none" => Accounted(a)
  PROVE  /\ Over(s, a) \in CallStates /\ CallInv(Over(s, a))
         /\ Over(s, a).pc = "done" /\ Over(s, a).want = w /\ Over(s, a).answer = a
  <1>1. PICK f \in CallStates : f = Fresh(w) /\ CallInv(f)
    BY FreshType
  <1>2. /\ f.pc = "next" /\ f.sent = Nothing /\ f.want = w /\ f.errors = {} /\ f.phase = "mint" /\ f.missing = {}
        /\ \A m \in Models : f.held[m] = Nothing
    BY <1>1 DEF Fresh, Empty
  <1>3. PICK g \in CallStates : g = [f EXCEPT !.stop = s.stop]
    BY Updates
  <1>4. [g EXCEPT !.answer = a] \in CallStates
    BY DEF CallStates
  <1>5. PICK h \in CallStates : h = [g EXCEPT !.answer = a]
    BY <1>4
  <1>6. [h EXCEPT !.pc = "done"] \in CallStates
    BY DEF CallStates
  <1>7. PICK t \in CallStates : t = [h EXCEPT !.pc = "done"]
    BY <1>6
  <1>8. t = Over(s, a)
    <2>1. t = [f EXCEPT !.pc = "done", !.stop = s.stop, !.answer = a]
      BY <1>3, <1>5, <1>7 DEF CallStates
    <2>2. QED
      BY <1>1, <2>1 DEF Over
  <1>9. /\ t.pc = "done" /\ t.sent = f.sent /\ t.want = f.want /\ t.errors = f.errors /\ t.phase = f.phase
        /\ t.missing = f.missing /\ t.held = f.held /\ t.stop = s.stop /\ t.answer = a
    BY <1>3, <1>5, <1>7 DEF CallStates
  <1>10. CallInv(t)
    BY <1>2, <1>9 DEF CallInv, Flying
  <1>11. QED
    BY <1>2, <1>8, <1>9, <1>10

LEMMA ReplyStep ==
  ASSUME IInv, NEW c \in Calls, Reply(c)
  PROVE  IInv'
  <1>1. PICK s \in CallStates : s = call[c] /\ CallInv(s)
    BY Parts
  <1>2. s.pc = "reply" /\ s.want \in Wants
    BY <1>1 DEF Reply, CallInv
  <1>3. PICK a : a = IF s.stop = "client_closed" \/ s.answer # Nothing THEN s.answer ELSE Outcome(s)
    OBVIOUS
  <1>4. /\ a \in {Nothing} \cup [kind : {"invalid", "rejected", "exhausted"}]
                 \cup [kind : {"ok"}, tickets : [Models -> Holdings \cup {Nothing}],
                       pair : Pairs, errors : SUBSET Models, at : 0 .. MaxTime]
        /\ a # Nothing /\ a.kind = "ok" /\ s.stop # "none" => Accounted(a)
    <2>1. CASE a \in {Nothing, [kind |-> "rejected"]} \/ a = [kind |-> "exhausted"]
      BY <2>1
    <2>2. CASE a = Outcome(s) /\ a # [kind |-> "exhausted"]
      <3> DEFINE late == {m \in Models : s.held[m] # Nothing} \ Good(s)
                 unmet == IF s.stop # "none" THEN Absent(s) ELSE {}
                 tickets == [m \in Models |-> IF m \in Good(s) THEN s.held[m] ELSE Nothing]
      <3>1. a = [kind |-> "ok", pair |-> s.pair, errors |-> s.errors \cup unmet \cup late, at |-> now,
                 tickets |-> tickets]
        BY <2>2 DEF Outcome
      <3>2. s.pair \in Pairs
        BY <2>2 DEF Outcome, Live, CallStates
      <3>3. tickets \in [Models -> Holdings \cup {Nothing}]
        BY DEF CallStates
      <3>4. s.errors \cup unmet \cup late \in SUBSET Models /\ now \in 0 .. MaxTime
        BY DEF CallStates, Absent, IInv
      <3>5. s.stop # "none" => \A m \in Models : tickets[m] # Nothing \/ m \in s.errors \cup unmet \cup late
        BY DEF Good, Absent
      <3>6. s.stop # "none" => Accounted(a)
        BY <3>1, <3>5 DEF Accounted
      <3>7. QED
        BY <3>1, <3>2, <3>3, <3>4, <3>6
    <2>3. QED
      BY <1>1, <1>2, <1>3, <2>1, <2>2 DEF CallInv
  <1>5. s.stop \in {"none", "client_closed", "total_timeout", "total_attempt_limit"}
    BY DEF CallStates
  <1>6. PICK t \in CallStates : t = Over(s, a) /\ CallInv(t)
    BY <1>2, <1>4, <1>5, OverType
  <1>7. Put(c, t) /\ UNCHANGED <<now, cache>>
    BY <1>1, <1>3, <1>6 DEF Reply
  <1>8. QED
    BY <1>6, <1>7, KeptStep, MoveStep

LEMMA CachedTicketIsDue ==
  ASSUME IInv, NEW w \in Wants, NEW m \in Models, CachedTicket(w, m) # Nothing
  PROVE  Due(w, m, CachedTicket(w, m))
  <1>1. PICK h : h = cache[<<w.lane, m>>]
    OBVIOUS
  <1>2. w.ttl > 0 /\ Passes(w, h) /\ CachedTicket(w, m) = Shortened(w, h)
    BY <1>1 DEF CachedTicket
  <1>3. w.lane \in Lanes /\ w.ttl \in Nat /\ w.len \in Nat
    BY DEF Wants
  <1>4. <<w.lane, m>> \in Slots /\ m # PairSlot
    BY <1>3 DEF Slots, PairSlot
  <1>5. h \in Holdings /\ Sound(w.lane, m, h)
    BY <1>1, <1>2, <1>4 DEF IInv, CacheGood, SlotGood, Passes
  <1>6. h.ticket \in Tickets /\ h.exp \in Nat /\ h.ticket.issued \in Nat
    BY <1>5 DEF Holdings, Tickets
  <1>7. PICK e \in Nat : e = IF h.ticket.issued + w.ttl < h.exp THEN h.ticket.issued + w.ttl ELSE h.exp
    BY <1>3, <1>6
  <1>8. e <= h.ticket.issued + w.ttl
    BY <1>3, <1>6, <1>7
  <1>9. PICK g : g = [h EXCEPT !.exp = e]
    OBVIOUS
  <1>10. g \in Holdings /\ g.exp = e /\ g.ticket = h.ticket
    BY <1>5, <1>9 DEF Holdings
  <1>11. Shortened(w, h) = g
    BY <1>7, <1>9 DEF Shortened
  <1>12. QED
    BY <1>2, <1>5, <1>8, <1>10, <1>11 DEF Due, Sound, Passes

LEMMA CachedPairType ==
  ASSUME IInv, NEW w \in Wants
  PROVE  CachedPair(w) \in Pairs \cup {Nothing}
  <1>1. w.lane \in Lanes
    BY DEF Wants
  <1>2. <<w.lane, PairSlot>> \in Slots
    BY <1>1 DEF Slots
  <1>3. cache[<<w.lane, PairSlot>>] # Nothing => cache[<<w.lane, PairSlot>>] \in Pairs
    BY <1>2 DEF IInv, CacheGood, SlotGood
  <1>4. QED
    BY <1>1, <1>3 DEF CachedPair

LEMMA BeginStep ==
  ASSUME IInv, NEW c \in Calls, Begin(c)
  PROVE  IInv'
  <1>1. UNCHANGED now
    BY DEF Begin
  <1>2. PICK w \in Wants :
          IF Seed[w.lane] # Nothing /\ ~Live(w, Seed[w.lane])
          THEN Put(c, Over(Fresh(w), [kind |-> "invalid"])) /\ UNCHANGED cache
          ELSE /\ Read(w)
               /\ Put(c, [Fresh(w) EXCEPT
                            !.pair = CachedPair(w), !.held = [m \in Models |-> CachedTicket(w, m)],
                            !.missing = {m \in Models : [k \in Models |-> CachedTicket(w, k)][m] = Nothing}])
    BY DEF Begin
  <1>3. PICK f \in CallStates : f = Fresh(w) /\ CallInv(f)
    BY FreshType
  <1>4. /\ f.pc = "next" /\ f.sent = Nothing /\ f.want = w /\ f.errors = {} /\ f.phase = "mint" /\ f.terminal = {}
        /\ f.stop = "none" /\ f.answer = Nothing
    BY <1>3 DEF Fresh
  <1>5. CASE Seed[w.lane] # Nothing /\ ~Live(w, Seed[w.lane])
    <2>1. PICK t \in CallStates : t = Over(f, [kind |-> "invalid"]) /\ CallInv(t)
      BY <1>4, OverType
    <2>2. Put(c, t) /\ UNCHANGED cache
      BY <1>2, <1>3, <1>5, <2>1
    <2>3. QED
      BY <1>1, <2>1, <2>2, KeptStep, MoveStep
  <1>6. CASE ~(Seed[w.lane] # Nothing /\ ~Live(w, Seed[w.lane]))
    <2>1. \A m \in Models : CachedTicket(w, m) # Nothing => Due(w, m, CachedTicket(w, m))
      BY CachedTicketIsDue
    <2>2. PICK held \in [Models -> Holdings \cup {Nothing}] : held = [m \in Models |-> CachedTicket(w, m)]
      BY <2>1 DEF Due
    <2>3. PICK missing \in SUBSET Models : missing = {m \in Models : held[m] = Nothing}
      OBVIOUS
    <2>4. PICK p \in Pairs \cup {Nothing} : p = CachedPair(w)
      BY CachedPairType
    <2>5. PICK t \in CallStates : t = [f EXCEPT !.pair = p, !.held = held, !.missing = missing]
      BY Updates
    <2>6. /\ t.pc = "next" /\ t.sent = Nothing /\ t.want = w /\ t.errors = {} /\ t.phase = "mint"
          /\ t.terminal = {} /\ t.stop = "none" /\ t.answer = Nothing /\ t.held = held /\ t.missing = missing
      BY <1>4, <2>5 DEF CallStates
    <2>7. Absent(t) = missing
      BY <2>3, <2>6 DEF Absent
    <2>8. \A m \in Models : held[m] # Nothing => Due(w, m, held[m])
      BY <2>1, <2>2
    <2>9. CallInv(t)
      BY <2>6, <2>7, <2>8 DEF CallInv, Flying
    <2>10. Read(w) /\ Put(c, t)
      BY <1>2, <1>3, <1>6, <2>2, <2>3, <2>4, <2>5
    <2>11. CacheGood'
      <3>1. cache = [k \in Slots |-> cache[k]]
        BY DEF IInv, CacheGood
      <3>2. cache' = [k \in Slots |-> cache'[k]] /\ \A k \in Slots : cache'[k] \in {cache[k], Nothing}
        BY <2>10, <3>1 DEF Read
      <3>3. QED
        BY <3>2, DropStep
    <2>12. QED
      BY <1>1, <2>9, <2>10, <2>11, MoveStep
  <1>7. QED
    BY <1>5, <1>6

-----------------------------------------------------------------------------
(* A shot lands and is judged. *)

LEMMA StorePairStep ==
  ASSUME IInv, NEW s \in CallStates, s.want \in Wants, NEW a \in Shots, StorePair(s, a)
  PROVE  CacheGood'
  <1>1. s.want.lane \in Lanes
    BY DEF Wants
  <1>2. PICK slot \in Slots : slot = <<s.want.lane, PairSlot>>
    BY <1>1 DEF Slots
  <1>3. CASE a.pair \notin Pairs
    BY <1>3, KeptStep DEF StorePair
  <1>4. CASE a.pair \in Pairs /\ ~Live(s.want, a.pair)
    <2>1. cache' = [cache EXCEPT ![slot] = Nothing]
      BY <1>2, <1>4 DEF StorePair
    <2>2. cache = [k \in Slots |-> cache[k]]
      BY DEF IInv, CacheGood
    <2>3. cache' = [k \in Slots |-> cache'[k]] /\ \A k \in Slots : cache'[k] \in {cache[k], Nothing}
      BY <2>1, <2>2
    <2>4. QED
      BY <2>3, DropStep
  <1>5. CASE a.pair \in Pairs /\ Live(s.want, a.pair)
    <2>1. PICK p \in Pairs : p = a.pair
      BY <1>5
    <2>2. Target[s.want.lane] = AnyNode \/ p.gw = Target[s.want.lane]
      BY <1>5, <2>1 DEF Live, OnTarget
    <2>3. SlotGood(slot, p)
      BY <1>2, <2>2 DEF SlotGood
    <2>4. Store(slot, p) \/ UNCHANGED cache
      BY <1>2, <1>5, <2>1 DEF StorePair
    <2>5. QED
      BY <2>3, <2>4, StoreStep, KeptStep
  <1>6. QED
    BY <1>3, <1>4, <1>5

LEMMA AdoptInv ==
  ASSUME NEW s \in CallStates, CallInv(s), s.pc = "fly", NEW a \in Shots
  PROVE  /\ Adopt(s, a) \in CallStates /\ CallInv(Adopt(s, a))
         /\ Adopt(s, a).pc = "fly" /\ Turn(Adopt(s, a)) = Turn(s) /\ Adopt(s, a).phase = s.phase
         /\ Adopt(s, a).missing = s.missing
  <1>1. PICK p \in Pairs \cup {Nothing} : Adopt(s, a) = [s EXCEPT !.pair = p]
    <2>1. CASE a.pair \in Pairs
      BY <2>1 DEF Adopt
    <2>2. CASE a.pair \notin Pairs /\ Seeded(s) /\ a.pair = Part
      BY <2>2 DEF Adopt
    <2>3. CASE a.pair \notin Pairs /\ ~(Seeded(s) /\ a.pair = Part)
      <3>1. s = [s EXCEPT !.pair = s.pair] /\ s.pair \in Pairs \cup {Nothing}
        BY DEF CallStates
      <3>2. QED
        BY <2>3, <3>1 DEF Adopt
    <2>4. QED
      BY <2>1, <2>2, <2>3
  <1>2. PICK t \in CallStates : t = [s EXCEPT !.pair = p]
    BY Updates
  <1>3. /\ t.pc = s.pc /\ t.want = s.want /\ t.held = s.held /\ t.errors = s.errors
        /\ t.answer = s.answer /\ t.terminal = s.terminal /\ t.missing = s.missing /\ t.sent = s.sent
        /\ t.phase = s.phase /\ t.tries = s.tries /\ t.stop = s.stop
    BY <1>2 DEF CallStates
  <1>4. Turn(t) = Turn(s) /\ Aimed(t) = Aimed(s) /\ Absent(t) = Absent(s)
    BY <1>3, SameTurn
  <1>5. CallInv(t)
    BY <1>3, <1>4 DEF CallInv, Flying
  <1>6. QED
    BY <1>1, <1>2, <1>3, <1>4, <1>5

LEMMA FlyingMint ==
  ASSUME NEW s \in CallStates, CallInv(s), Flying(s)
  PROVE  /\ s.pc \notin {"idle", "done"} /\ s.want \in Wants
         /\ s.phase = "mint" => s.missing # {}
  BY DEF CallInv, Flying, Turn

LEMMA DeniedStep ==
  ASSUME IInv, NEW c \in Calls, UNCHANGED <<now, cache>>, call[c].pc = "fly",
         Put(c, [Ended(call[c]) EXCEPT !.answer = [kind |-> "rejected"]])
  PROVE  IInv'
  <1>1. PICK s \in CallStates : s = call[c] /\ CallInv(s) /\ Flying(s)
    BY Parts DEF Flying
  <1>2. PICK e \in CallStates : e = Ended(s) /\ CallInv(e) /\ e.pc = "reply" /\ e.sent = Nothing
    BY <1>1, FlyingMint, EndedInv
  <1>3. PICK t \in CallStates : t = [e EXCEPT !.answer = [kind |-> "rejected"]]
    BY Updates
  <1>4. /\ t.pc = "reply" /\ t.want = e.want /\ t.held = e.held /\ t.errors = e.errors
        /\ t.terminal = e.terminal /\ t.missing = e.missing /\ t.sent = e.sent
        /\ t.phase = e.phase /\ t.answer = [kind |-> "rejected"] /\ t.stop = e.stop
    BY <1>2, <1>3 DEF CallStates
  <1>5. Absent(t) = Absent(e)
    BY <1>4 DEF Absent
  <1>6. CallInv(t)
    BY <1>2, <1>4, <1>5 DEF CallInv, Flying
  <1>7. Put(c, t)
    BY <1>1, <1>2, <1>3
  <1>8. QED
    BY <1>6, <1>7, KeptStep, MoveStep

LEMMA LandStep ==
  ASSUME IInv, NEW c \in Calls, Land(c)
  PROVE  IInv'
  <1>1. PICK s \in CallStates : s = call[c] /\ CallInv(s)
    BY Parts
  <1>2. s.pc = "fly" /\ UNCHANGED now
    BY <1>1 DEF Land
  <1>3. PICK a \in Shots :
          IF a.kind = "denied"
          THEN Put(c, [Ended(s) EXCEPT !.answer = [kind |-> "rejected"]]) /\ UNCHANGED cache
          ELSE /\ StorePair(s, a)
               /\ Put(c, IF SeedLost(Adopt(s, a)) THEN Ended(Adopt(s, a))
                         ELSE [Adopt(s, a) EXCEPT !.pc = "judge", !.shot = a])
    BY <1>1 DEF Land
  <1>4. CASE a.kind = "denied"
    BY <1>1, <1>2, <1>3, <1>4, DeniedStep
  <1>5. CASE a.kind # "denied"
    <2>1. PICK t \in CallStates : t = Adopt(s, a) /\ CallInv(t) /\ t.pc = "fly"
      BY <1>1, <1>2, AdoptInv
    <2>2. Flying(s) /\ Flying(t)
      BY <1>2, <2>1 DEF Flying
    <2>3. CacheGood'
      BY <1>1, <1>3, <1>5, <2>2, FlyingMint, StorePairStep
    <2>4. CASE SeedLost(t)
      <3>1. Ended(t) \in CallStates /\ CallInv(Ended(t))
        BY <2>1, <2>2, FlyingMint, EndedInv
      <3>2. Put(c, Ended(t))
        BY <1>3, <1>5, <2>1, <2>4
      <3>3. QED
        BY <1>2, <2>3, <3>1, <3>2, MoveStep
    <2>5. CASE ~SeedLost(t)
      <3>1. PICK u \in CallStates : u = [t EXCEPT !.pc = "judge", !.shot = a]
        BY Updates
      <3>2. /\ u.pc = "judge" /\ u.want = t.want /\ u.held = t.held /\ u.errors = t.errors
            /\ u.answer = t.answer /\ u.terminal = t.terminal /\ u.missing = t.missing /\ u.sent = t.sent
            /\ u.phase = t.phase /\ u.tries = t.tries /\ u.stop = t.stop /\ u.shot = a
        BY <3>1 DEF CallStates
      <3>3. Turn(u) = Turn(t) /\ Aimed(u) = Aimed(t) /\ Absent(u) = Absent(t)
        BY <3>2, SameTurn
      <3>4. CallInv(u)
        BY <2>1, <3>2, <3>3 DEF CallInv, Flying
      <3>5. Put(c, u)
        BY <1>3, <1>5, <2>1, <2>5, <3>1
      <3>6. QED
        BY <1>2, <2>3, <3>4, <3>5, MoveStep
    <2>6. QED
      BY <2>4, <2>5
  <1>6. QED
    BY <1>4, <1>5

LEMMA CutStep ==
  ASSUME IInv, NEW c \in Calls, Cut(c)
  PROVE  IInv'
  <1>1. PICK s \in CallStates : s = call[c] /\ CallInv(s) /\ Flying(s)
    BY Parts DEF Cut, Flying
  <1>2. Ended(s) \in CallStates /\ CallInv(Ended(s))
    BY <1>1, FlyingMint, EndedInv
  <1>3. Put(c, Ended(s)) /\ UNCHANGED <<now, cache>>
    BY <1>1 DEF Cut
  <1>4. QED
    BY <1>2, <1>3, KeptStep, MoveStep

\* The ticket of an accepted shot is due to the call that sent it.
LEMMA KeptIsDue ==
  ASSUME NEW s \in CallStates, CallInv(s), Flying(s), s.shot \in Shots, Acceptable(s), Verify => s.shot.mint.full,
         NEW h, h = [ticket |-> Ticket(s), exp |-> s.shot.mint.issued + s.want.ttl],
         Aimed(s) \in Models
  PROVE  Due(s.want, Aimed(s), h)
  <1>1. s.want \in Wants /\ s.want.lane \in Lanes /\ s.want.ttl \in Nat
    BY DEF CallInv, Flying, Wants
  <1>2. PICK m \in Mints : m = s.shot.mint
    BY Null DEF Acceptable, Shots
  <1>3. m.len \in Lens /\ m.issued \in 0 .. MaxTime /\ m.full \in Strengths
    BY DEF Mints
  <1>4. PICK node \in Gateways \cup {AnyNode} :
          /\ node = IF s.shot.pair \in Pairs THEN s.shot.pair.gw
                    ELSE IF s.sent # Nothing THEN s.sent.gw ELSE AnyNode
          /\ OnTarget(s.want, node)
    <2>1. CASE s.shot.pair \in Pairs
      BY <2>1 DEF Acceptable, NodeOf, Pairs
    <2>2. CASE s.shot.pair \notin Pairs /\ s.sent # Nothing
      BY <2>2 DEF CallInv, CallStates, Pairs
    <2>3. CASE s.shot.pair \notin Pairs /\ s.sent = Nothing
      BY <2>3 DEF Acceptable, NodeOf
    <2>4. QED
      BY <2>1, <2>2, <2>3
  <1>5. PICK t : t = Ticket(s)
    OBVIOUS
  <1>6. t = [lane |-> s.want.lane, model |-> Aimed(s), len |-> m.len, issued |-> m.issued,
             full |-> m.full, node |-> node]
    BY <1>2, <1>4, <1>5 DEF Ticket
  <1>7. t \in Tickets
    BY <1>1, <1>3, <1>6 DEF Tickets
  <1>8. h = [ticket |-> t, exp |-> m.issued + s.want.ttl] /\ m.issued + s.want.ttl \in Nat
    BY <1>1, <1>2, <1>3, <1>5
  <1>9. h \in Holdings /\ h.ticket = t /\ h.exp <= h.ticket.issued + s.want.ttl
    BY <1>6, <1>7, <1>8 DEF Holdings
  <1>10. s.want.len = 0 \/ m.len = s.want.len
    BY <1>2 DEF Acceptable
  <1>11. QED
    BY <1>2, <1>4, <1>6, <1>9, <1>10 DEF Due, Sound, OnTarget

LEMMA KeepStep ==
  ASSUME IInv, NEW c \in Calls, UNCHANGED now, Keep(c), NEW s \in CallStates, s = call[c], CallInv(s),
         s.pc \in {"judge", "verify"}, s.phase = "mint", Acceptable(s), Verify => s.shot.mint.full
  PROVE  IInv'
  <1>1. Flying(s) /\ s.pc \notin {"idle", "done"} /\ s.shot \in Shots
    BY DEF Flying, CallInv
  <1>2. s.want \in Wants /\ s.want.lane \in Lanes /\ s.missing # {}
    BY <1>1, FlyingMint DEF Wants
  <1>3. /\ Aimed(s) \in s.missing /\ Aimed(s) \in Absent(s) /\ Aimed(s) \notin s.terminal /\ Aimed(s) \in Models
        /\ Aimed(s) \notin s.errors
    BY <1>1, <1>2, AimedIsAbsent DEF CallInv
  <1>4. PICK h : h = [ticket |-> Ticket(s), exp |-> s.shot.mint.issued + s.want.ttl]
    OBVIOUS
  <1>5. Due(s.want, Aimed(s), h)
    BY <1>1, <1>3, <1>4, KeptIsDue
  <1>6. CASE Dead(s.want, h)
    <2>1. Put(c, Again(s)) /\ UNCHANGED cache
      BY <1>4, <1>6 DEF Keep
    <2>2. QED
      BY <1>1, <2>1, AgainInv, KeptStep, MoveStep
  <1>7. CASE ~Dead(s.want, h)
    <2>1. /\ (s.want.ttl > 0 /\ Store(<<s.want.lane, Aimed(s)>>, h)) \/ UNCHANGED cache
          /\ Put(c, [NextModel(s) EXCEPT !.held[Aimed(s)] = h])
      BY <1>4, <1>7 DEF Keep
    <2>2. PICK k \in Slots : k = <<s.want.lane, Aimed(s)>>
      BY <1>2, <1>3 DEF Slots
    <2>3. SlotGood(k, h)
      BY <1>3, <1>5, <2>2 DEF SlotGood, Due, PairSlot
    <2>4. CacheGood'
      BY <2>1, <2>2, <2>3, StoreStep, KeptStep
    <2>5. PICK n \in CallStates : n = NextModel(s) /\ CallInv(n) /\ Absent(n) = Absent(s)
      BY <1>1, NextModelType, NextModelInv
    <2>6. /\ n.pc = "next" /\ n.sent = Nothing /\ n.want = s.want /\ n.held = s.held /\ n.stop = s.stop
          /\ n.answer = s.answer /\ n.phase = s.phase /\ n.missing = s.missing \ {Aimed(s)}
          /\ n.terminal = s.terminal /\ n.errors = s.errors
      BY <2>5, NextModelType
    <2>7. n.held \in [Models -> Holdings \cup {Nothing}]
      BY DEF CallStates
    <2>8. PICK held \in [Models -> Holdings \cup {Nothing}] : held = [n.held EXCEPT ![Aimed(s)] = h]
      BY <1>5, <2>7 DEF Due
    <2>9. PICK t \in CallStates : t = [n EXCEPT !.held = held]
      BY Updates
    <2>10. /\ t.pc = "next" /\ t.sent = Nothing /\ t.want = s.want /\ t.held = held /\ t.stop = s.stop
           /\ t.answer = s.answer /\ t.phase = s.phase /\ t.missing = s.missing \ {Aimed(s)}
           /\ t.terminal = s.terminal /\ t.errors = s.errors
      BY <2>6, <2>9 DEF CallStates
    <2>11. \A m \in Models : held[m] = IF m = Aimed(s) THEN h ELSE s.held[m]
      BY <1>3, <2>6, <2>7, <2>8
    <2>12. Absent(t) = Absent(s) \ {Aimed(s)}
      <3>1. h # Nothing
        BY <1>5, Null DEF Due
      <3>2. QED
        BY <2>10, <2>11, <3>1 DEF Absent
    <2>13. CallInv(t)
      BY <1>3, <1>5, <2>10, <2>11, <2>12 DEF CallInv, Flying
    <2>14. Put(c, t)
      BY <2>1, <2>5, <2>8, <2>9
    <2>15. QED
      BY <2>4, <2>13, <2>14, MoveStep
  <1>8. QED
    BY <1>6, <1>7

LEMMA AgainStep ==
  ASSUME IInv, NEW c \in Calls, Flying(call[c]), Put(c, Again(call[c])), UNCHANGED <<now, cache>>
  PROVE  IInv'
  BY Parts, AgainInv, KeptStep, MoveStep

LEMMA FitStep ==
  ASSUME IInv, NEW c \in Calls, Fit(c)
  PROVE  IInv'
  <1>1. PICK s \in CallStates : s = call[c] /\ CallInv(s)
    BY Parts
  <1>2. s.pc = "judge" /\ s.phase = "mint" /\ Acceptable(s) /\ UNCHANGED now
    BY <1>1 DEF Fit
  <1>3. CASE Verify
    <2>1. PICK t \in CallStates : t = [s EXCEPT !.pc = "verify"]
      BY Updates
    <2>2. /\ t.pc = "verify" /\ t.want = s.want /\ t.held = s.held /\ t.errors = s.errors
          /\ t.answer = s.answer /\ t.terminal = s.terminal /\ t.missing = s.missing /\ t.sent = s.sent
          /\ t.phase = s.phase /\ t.tries = s.tries /\ t.stop = s.stop /\ t.shot = s.shot /\ t.pair = s.pair
      BY <2>1 DEF CallStates
    <2>3. Turn(t) = Turn(s) /\ Aimed(t) = Aimed(s) /\ Absent(t) = Absent(s)
      BY <2>2, SameTurn
    <2>4. Acceptable(t)
      BY <1>2, <2>2 DEF Acceptable, NodeOf
    <2>5. CallInv(t)
      BY <1>1, <1>2, <2>2, <2>3, <2>4 DEF CallInv, Flying
    <2>6. Put(c, t) /\ UNCHANGED cache
      BY <1>1, <1>3, <2>1 DEF Fit
    <2>7. QED
      BY <1>2, <2>5, <2>6, KeptStep, MoveStep
  <1>4. CASE ~Verify
    <2>1. Keep(c)
      BY <1>4 DEF Fit
    <2>2. QED
      BY <1>1, <1>2, <1>4, <2>1, KeepStep
  <1>5. QED
    BY <1>3, <1>4

LEMMA EchoStep ==
  ASSUME IInv, NEW c \in Calls, Echo(c)
  PROVE  IInv'
  <1>1. PICK s \in CallStates : s = call[c] /\ CallInv(s)
    BY Parts
  <1>2. s.pc = "verify" /\ s.shot.mint.full /\ Keep(c) /\ UNCHANGED now
    BY <1>1 DEF Echo
  <1>3. s.phase = "mint" /\ Acceptable(s)
    BY <1>1, <1>2 DEF CallInv
  <1>4. QED
    BY <1>1, <1>2, <1>3, KeepStep

LEMMA RefusedStep ==
  ASSUME IInv, NEW c \in Calls, Refused(c)
  PROVE  IInv'
  <1>1. PICK s \in CallStates : s = call[c] /\ CallInv(s) /\ Flying(s)
    BY Parts DEF Refused, Flying
  <1>2. s.tries < MaxAttempts /\ Turn(s) # {} /\ s.want \in Wants
    BY <1>1 DEF CallInv, Flying
  <1>3. Aimed(s) \in Models /\ Aimed(s) \in Turn(s)
    BY <1>2, AimedIsIn
  <1>4. PICK terminal \in SUBSET Models : terminal = s.terminal \cup {Aimed(s)}
    BY <1>3 DEF CallStates
  <1>5. PICK t \in CallStates : t = [s EXCEPT !.terminal = terminal]
    BY Updates
  <1>6. /\ t.pc = s.pc /\ t.want = s.want /\ t.held = s.held /\ t.errors = s.errors
        /\ t.answer = s.answer /\ t.missing = s.missing /\ t.phase = s.phase /\ t.stop = s.stop
        /\ t.tries = s.tries /\ t.terminal = terminal
    BY <1>5 DEF CallStates
  <1>7. CASE s.phase = "renew"
    <2>1. PICK u \in CallStates : u = Again(t)
      BY <1>2, <1>6, AgainType
    <2>2. /\ u.pc = "next" /\ u.sent = Nothing /\ u.want = s.want /\ u.held = s.held /\ u.stop = s.stop
          /\ u.answer = s.answer /\ u.phase = "renew" /\ u.errors = s.errors
      BY <1>2, <1>6, <1>7, <2>1, AgainType
    <2>3. Absent(u) = Absent(s)
      BY <2>2 DEF Absent
    <2>4. CallInv(u)
      BY <1>1, <2>2, <2>3 DEF CallInv, Flying
    <2>5. Put(c, u) /\ UNCHANGED <<now, cache>>
      BY <1>1, <1>4, <1>5, <1>7, <2>1 DEF Refused
    <2>6. QED
      BY <2>4, <2>5, KeptStep, MoveStep
  <1>8. CASE s.phase = "mint"
    <2>1. Turn(s) = s.missing /\ Aimed(t) = Aimed(s)
      BY <1>6, <1>8 DEF Turn, Aimed
    <2>2. Aimed(s) \in Absent(s)
      BY <1>1, <1>3, <1>8, <2>1 DEF CallInv
    <2>3. PICK n \in CallStates : n = NextModel(t)
      BY NextModelType
    <2>4. /\ n.pc = "next" /\ n.sent = Nothing /\ n.want = s.want /\ n.held = s.held /\ n.stop = s.stop
          /\ n.answer = s.answer /\ n.phase = "mint" /\ n.errors = s.errors
          /\ n.missing = s.missing \ {Aimed(s)} /\ n.terminal = terminal
      BY <1>6, <1>8, <2>1, <2>3, NextModelType
    <2>5. s.errors \cup {Aimed(s)} \in SUBSET Models
      BY <1>3 DEF CallStates
    <2>6. PICK u \in CallStates : u = [n EXCEPT !.errors = s.errors \cup {Aimed(s)}]
      BY <2>5, Updates
    <2>7. /\ u.pc = "next" /\ u.sent = Nothing /\ u.want = s.want /\ u.held = s.held /\ u.stop = s.stop
          /\ u.answer = s.answer /\ u.phase = "mint" /\ u.errors = s.errors \cup {Aimed(s)}
          /\ u.missing = s.missing \ {Aimed(s)} /\ u.terminal = terminal
      BY <2>4, <2>6 DEF CallStates
    <2>8. Absent(u) = Absent(s)
      BY <2>7 DEF Absent
    <2>9. CallInv(u)
      BY <1>1, <1>2, <1>4, <1>8, <2>2, <2>7, <2>8 DEF CallInv, Flying
    <2>10. Put(c, u) /\ UNCHANGED <<now, cache>>
      BY <1>1, <1>4, <1>5, <1>8, <2>3, <2>4, <2>6 DEF Refused
    <2>11. QED
      BY <2>9, <2>10, KeptStep, MoveStep
  <1>9. QED
    BY <1>7, <1>8 DEF CallStates

LEMMA LoopStep ==
  ASSUME IInv, NEW c \in Calls, Loop(c)
  PROVE  IInv'
  <1>1. CASE Unfit(c)
    BY <1>1, AgainStep DEF Unfit, Flying
  <1>2. CASE EchoFails(c)
    BY <1>2, AgainStep DEF EchoFails, Flying
  <1>3. QED
    BY <1>1, <1>2, ShootStep, UnableStep, GiveUpStep, ModelsDoneStep, RoundDoneStep, LandStep, CutStep,
       RefusedStep, FitStep, EchoStep, CooledStep, CoolCutStep, ReplyStep DEF Loop

LEMMA NextInv == IInv /\ [Next]_vars => IInv'
  <1> SUFFICES ASSUME IInv, [Next]_vars PROVE IInv'
    OBVIOUS
  <1>1. CASE Tick
    <2>1. now + 1 \in 0 .. MaxTime
      BY <1>1 DEF Tick, IInv
    <2>2. CacheGood'
      BY <1>1, KeptStep DEF Tick
    <2>3. QED
      BY <1>1, <2>1, <2>2 DEF Tick, IInv
  <1>2. CASE UNCHANGED vars
    <2>1. CacheGood'
      BY <1>2, KeptStep DEF vars
    <2>2. QED
      BY <1>2, <2>1 DEF vars, IInv
  <1>3. CASE \E c \in Calls : Begin(c) \/ Loop(c) \/ Abort(c)
    BY <1>3, BeginStep, LoopStep, AbortStep
  <1>4. QED
    BY <1>1, <1>2, <1>3 DEF Next

LEMMA Invariant == Spec => []IInv
  BY InitInv, NextInv, PTL DEF Spec

-----------------------------------------------------------------------------
(* What follows from it. *)

\* Every variable keeps its type, and the cache its limit.
THEOREM TypeCorrect == Spec => []TypeOK
  <1>1. ASSUME IInv PROVE TypeOK
    <2>1. \A l \in Lanes : <<l, PairSlot>> \in Slots /\ \A m \in Models : <<l, m>> \in Slots /\ m # PairSlot
      BY DEF Slots, PairSlot
    <2>2. \A k \in Slots : cache[k] \in Holdings \cup Pairs \cup {Nothing}
      BY <1>1 DEF IInv, CacheGood, SlotGood
    <2>3. \A l \in Lanes : /\ cache[<<l, PairSlot>>] \in Pairs \cup {Nothing}
                           /\ \A m \in Models : cache[<<l, m>>] \in Holdings \cup {Nothing}
      BY <1>1, <2>1 DEF IInv, CacheGood, SlotGood
    <2>4. cache \in [Slots -> Holdings \cup Pairs \cup {Nothing}]
      BY <1>1, <2>2 DEF IInv, CacheGood
    <2>5. QED
      BY <1>1, <2>3, <2>4 DEF IInv, CacheGood, CallInv, TypeOK
  <1>2. QED
    BY <1>1, Invariant, PTL

\* However calls interleave and whatever the upstream answers, the cache hands
\* out only tickets of the asked lane and model, and pairs on their target.
THEOREM CacheSound == Spec => []CacheIsSound
  <1>1. ASSUME IInv PROVE CacheIsSound
    <2>1. \A l \in Lanes : <<l, PairSlot>> \in Slots /\ \A m \in Models : <<l, m>> \in Slots /\ m # PairSlot
      BY DEF Slots, PairSlot
    <2>2. QED
      BY <1>1, <2>1 DEF IInv, CacheGood, SlotGood, CacheIsSound
  <1>2. QED
    BY <1>1, Invariant, PTL

\* A call that was stopped accounts for every model it was asked for.
THEOREM StoppedAccount == Spec => []StoppedCallsAccountForAll
  <1>1. IInv => StoppedCallsAccountForAll
    BY DEF IInv, CallInv, StoppedCallsAccountForAll
  <1>2. QED
    BY <1>1, Invariant, PTL

-----------------------------------------------------------------------------
(***************************************************************************)
(* When every answer accounts for every model.                             *)
(*                                                                         *)
(* A model that is refused while the pair is being renewed is put on       *)
(* record as refused and not as an error: it still has its ticket.  It     *)
(* goes unmentioned if that ticket runs out and is dropped before the next *)
(* round.  Nothing else makes a model vanish from an answer.               *)
(***************************************************************************)

\* The models refused for good keep the tickets they have when a round begins.
RefusedKeepTickets ==
    \A c \in Calls : \A m \in call[c].terminal :
        call[c].pc = "cool" /\ call[c].held[m] # Nothing => call'[c].held[m] # Nothing

\* No model of a call is forgotten.
Covered(s) == \A m \in Models : s.held[m] # Nothing \/ m \in s.missing \/ m \in s.errors

\* A call that was not stopped covers its models at every point, and comes to
\* its answer with none left to mint, unless it has no pair to answer with.
AccountInv(s) ==
    /\ s.pc = "cool" => s.phase = "renew"
    /\ s.phase = "renew" => s.missing = {}
    /\ s.stop = "none" /\ (Flying(s) \/ s.pc \in {"next", "cool"}) => Covered(s)
    /\ s.stop = "none" /\ s.pc = "reply" /\ s.answer = Nothing
         => ~Live(s.want, s.pair) \/ (Covered(s) /\ s.missing = {})
    /\ s.pc = "done" /\ s.answer # Nothing /\ s.answer.kind = "ok" => Accounted(s.answer)

AccountsKept == \A c \in Calls : AccountInv(call[c])

\* One call moves, and no time passes.
LEMMA AccountMove ==
  ASSUME IInv, AccountsKept, NEW c \in Calls, NEW t, AccountInv(t), Put(c, t), UNCHANGED now
  PROVE  AccountsKept'
  <1>1. \A d \in Calls : call'[d] = IF d = c THEN t ELSE call[d]
    BY DEF IInv, Put
  <1>2. AccountInv(t)'
    BY DEF AccountInv, Live
  <1>3. ASSUME NEW d \in Calls PROVE AccountInv(call[d])'
    BY <1>1, <1>3 DEF AccountsKept, AccountInv, Live, Covered, Flying, Accounted
  <1>4. QED
    BY <1>3 DEF AccountsKept

\* A call that still works on its round and forgets nothing.
LEMMA AccountOn ==
  ASSUME NEW s, AccountInv(s), Flying(s) \/ s.pc \in {"next", "cool"},
         NEW t, Flying(t) \/ t.pc = "next", t.phase = s.phase, t.stop = s.stop,
         t.missing \subseteq s.missing,
         \A m \in Models : s.held[m] # Nothing \/ m \in s.missing \/ m \in s.errors
                           => t.held[m] # Nothing \/ m \in t.missing \/ m \in t.errors
  PROVE  AccountInv(t)
  BY DEF AccountInv, Covered, Flying

LEMMA AccountShoot ==
  ASSUME IInv, AccountsKept, NEW c \in Calls, Shoot(c)
  PROVE  \E t : AccountInv(t) /\ Put(c, t)
  <1>1. PICK s \in CallStates : s = call[c] /\ CallInv(s) /\ AccountInv(s)
    BY Parts DEF AccountsKept
  <1> DEFINE errors == IF s.phase = "mint" THEN s.errors \ {Aimed(s)} ELSE s.errors
             t == [s EXCEPT !.pc = "fly", !.attempts = s.attempts + 1,
                            !.sent = IF Live(s.want, s.pair) THEN s.pair ELSE Nothing,
                            !.errors = errors]
  <1>2. /\ t.pc = "fly" /\ t.phase = s.phase /\ t.stop = s.stop /\ t.missing = s.missing
        /\ t.held = s.held /\ t.errors = errors
    BY DEF CallStates
  <1>3. s.pc = "next" /\ (s.phase = "mint" => s.missing # {})
    BY <1>1 DEF Shoot, Wanting
  <1>4. s.phase = "mint" => Aimed(s) \in s.missing
    BY <1>1, <1>3, AimedIsAbsent
  <1>5. Put(c, t)
    BY <1>1 DEF Shoot
  <1> HIDE DEF t
  <1>6. AccountInv(t)
    BY <1>1, <1>2, <1>3, <1>4, AccountOn DEF Flying
  <1>7. QED
    BY <1>5, <1>6

LEMMA AccountUnable ==
  ASSUME IInv, AccountsKept, NEW c \in Calls, Unable(c)
  PROVE  \E t : AccountInv(t) /\ Put(c, t)
  <1>1. PICK s \in CallStates : s = call[c] /\ CallInv(s) /\ AccountInv(s)
    BY Parts DEF AccountsKept
  <1>2. s.pc = "next" /\ (s.phase = "mint" => s.missing # {})
    BY <1>1 DEF Unable, Wanting
  <1>3. s.phase = "mint" => Aimed(s) \in Models
    BY <1>1, <1>2, AimedIsAbsent
  <1>4. PICK e \in CallStates : e = Ended(s) /\ e.pc = "reply" /\ e.want = s.want /\ e.pair = s.pair
    BY <1>3, EndedType
  <1>5. e.phase = s.phase /\ e.missing = s.missing
    BY <1>4 DEF Ended, CallStates
  <1>6. PICK t : t = [e EXCEPT !.stop = IF SeedLost(s) THEN "none" ELSE "total_attempt_limit"]
    OBVIOUS
  <1>7. /\ t.pc = "reply" /\ t.want = s.want /\ t.pair = s.pair /\ t.phase = s.phase
        /\ t.missing = s.missing /\ t.stop = IF SeedLost(s) THEN "none" ELSE "total_attempt_limit"
    BY <1>4, <1>5, <1>6 DEF CallStates
  <1>8. SeedLost(s) => ~Live(s.want, s.pair)
    BY DEF SeedLost
  <1>9. AccountInv(t)
    BY <1>1, <1>7, <1>8 DEF AccountInv, Flying
  <1>10. Put(c, t)
    BY <1>1, <1>4, <1>6 DEF Unable
  <1>11. QED
    BY <1>9, <1>10

LEMMA AccountGiveUp ==
  ASSUME IInv, AccountsKept, NEW c \in Calls, GiveUp(c)
  PROVE  \E t : AccountInv(t) /\ Put(c, t)
  <1>1. PICK s \in CallStates : s = call[c] /\ CallInv(s) /\ AccountInv(s)
    BY Parts DEF AccountsKept
  <1>2. s.pc = "next" /\ s.phase = "mint"
    BY <1>1 DEF GiveUp
  <1>3. PICK n \in CallStates : n = NextModel(s)
    BY NextModelType
  <1>4. /\ n.pc = "next" /\ n.phase = s.phase /\ n.stop = s.stop /\ n.held = s.held
        /\ n.missing = s.missing \ {Aimed(s)} /\ n.errors = s.errors
    BY <1>3, NextModelType
  <1>5. PICK t : t = [n EXCEPT !.errors = n.errors \cup {Aimed(s)}, !.retry = TRUE]
    OBVIOUS
  <1>6. /\ t.pc = "next" /\ t.phase = s.phase /\ t.stop = s.stop /\ t.held = s.held
        /\ t.missing = s.missing \ {Aimed(s)} /\ t.errors = s.errors \cup {Aimed(s)}
    BY <1>4, <1>5 DEF CallStates
  <1>7. AccountInv(t)
    BY <1>1, <1>2, <1>6, AccountOn
  <1>8. Put(c, t)
    BY <1>1, <1>3, <1>5 DEF GiveUp
  <1>9. QED
    BY <1>7, <1>8

LEMMA AccountModelsDone ==
  ASSUME IInv, AccountsKept, NEW c \in Calls, ModelsDone(c)
  PROVE  \E t : AccountInv(t) /\ Put(c, t)
  <1>1. PICK s \in CallStates : s = call[c] /\ CallInv(s) /\ AccountInv(s)
    BY Parts DEF AccountsKept
  <1>2. s.pc = "next" /\ s.phase = "mint" /\ s.missing = {}
    BY <1>1 DEF ModelsDone
  <1>3. CASE s.stop # "none"
    <2>1. PICK t : t = [s EXCEPT !.pc = "reply"]
      OBVIOUS
    <2>2. t.pc = "reply" /\ t.stop = s.stop /\ t.phase = s.phase
      BY <2>1 DEF CallStates
    <2>3. AccountInv(t)
      BY <1>2, <1>3, <2>2 DEF AccountInv, Flying
    <2>4. QED
      BY <1>1, <1>3, <2>1, <2>3 DEF ModelsDone
  <1>4. CASE s.stop = "none"
    <2>1. PICK t : t = [s EXCEPT !.phase = "renew", !.tries = 0]
      OBVIOUS
    <2>2. /\ t.pc = "next" /\ t.stop = s.stop /\ t.phase = "renew" /\ t.held = s.held
          /\ t.missing = s.missing /\ t.errors = s.errors
      BY <1>2, <2>1 DEF CallStates
    <2>3. AccountInv(t)
      BY <1>1, <1>2, <2>2 DEF AccountInv, Flying, Covered
    <2>4. QED
      BY <1>1, <1>4, <2>1, <2>3 DEF ModelsDone
  <1>5. QED
    BY <1>3, <1>4

LEMMA AccountRoundDone ==
  ASSUME IInv, AccountsKept, NEW c \in Calls, RoundDone(c)
  PROVE  \E t : AccountInv(t) /\ Put(c, t)
  <1>1. PICK s \in CallStates : s = call[c] /\ CallInv(s) /\ AccountInv(s)
    BY Parts DEF AccountsKept
  <1>2. s.pc = "next" /\ s.phase = "renew"
    BY <1>1 DEF RoundDone
  <1>3. PICK t : /\ t \in {[s EXCEPT !.pc = "reply"], [s EXCEPT !.pc = "cool"],
                           [s EXCEPT !.pc = "reply", !.stop = "total_attempt_limit"]}
                 /\ Put(c, t)
    BY <1>1 DEF RoundDone
  <1>4. /\ t.pc \in {"reply", "cool"} /\ t.phase = s.phase /\ t.held = s.held
        /\ t.missing = s.missing /\ t.errors = s.errors
        /\ t.stop = "none" => s.stop = "none"
    <2>1. CASE t = [s EXCEPT !.pc = "reply"]
      BY <2>1 DEF CallStates
    <2>2. CASE t = [s EXCEPT !.pc = "reply", !.stop = "total_attempt_limit"]
      BY <2>2 DEF CallStates
    <2>3. CASE t = [s EXCEPT !.pc = "cool"]
      BY <2>3 DEF CallStates
    <2>4. QED
      BY <1>3, <2>1, <2>2, <2>3
  <1>5. AccountInv(t)
    BY <1>1, <1>2, <1>4 DEF AccountInv, Flying, Covered
  <1>6. QED
    BY <1>3, <1>5

LEMMA AccountLand ==
  ASSUME IInv, AccountsKept, NEW c \in Calls, Land(c)
  PROVE  \E t : AccountInv(t) /\ Put(c, t)
  <1>1. PICK s \in CallStates : s = call[c] /\ CallInv(s) /\ AccountInv(s)
    BY Parts DEF AccountsKept
  <1>2. s.pc = "fly" /\ s.pc \notin {"idle", "done"} /\ (s.phase = "mint" => s.missing # {})
    BY <1>1, FlyingMint DEF Land, Flying
  <1>3. s.phase = "mint" => Aimed(s) \in Models
    BY <1>1, <1>2, AimedIsAbsent
  <1>4. PICK a \in Shots :
          IF a.kind = "denied"
          THEN Put(c, [Ended(s) EXCEPT !.answer = [kind |-> "rejected"]])
          ELSE Put(c, IF SeedLost(Adopt(s, a)) THEN Ended(Adopt(s, a))
                      ELSE [Adopt(s, a) EXCEPT !.pc = "judge", !.shot = a])
    BY <1>1 DEF Land
  <1>5. CASE a.kind = "denied"
    <2>1. PICK e \in CallStates : e = Ended(s) /\ e.pc = "reply"
      BY <1>3, EndedType
    <2>2. e.phase = s.phase /\ e.missing = s.missing
      BY <2>1 DEF Ended, CallStates
    <2>3. PICK t : t = [e EXCEPT !.answer = [kind |-> "rejected"]]
      OBVIOUS
    <2>4. t.pc = "reply" /\ t.phase = s.phase /\ t.missing = s.missing
          /\ t.answer = [kind |-> "rejected"]
      BY <2>1, <2>2, <2>3 DEF CallStates
    <2>5. AccountInv(t)
      BY <1>1, <2>4 DEF AccountInv, Flying, Nothing
    <2>6. QED
      BY <1>4, <1>5, <2>1, <2>3, <2>5
  <1>6. CASE a.kind # "denied"
    <2>1. PICK t \in CallStates : t = Adopt(s, a)
      BY <1>1, <1>2, AdoptInv
    <2>2. /\ t.pc = s.pc /\ t.phase = s.phase /\ t.stop = s.stop /\ t.held = s.held
          /\ t.missing = s.missing /\ t.errors = s.errors /\ t.terminal = s.terminal
      <3>1. PICK v : t = [s EXCEPT !.pair = v]
        <4>1. s = [s EXCEPT !.pair = s.pair]
          BY DEF CallStates
        <4>2. QED
          BY <2>1, <4>1 DEF Adopt
      <3>2. QED
        BY <3>1 DEF CallStates
    <2>3. CASE SeedLost(t)
      <3>1. Aimed(t) = Aimed(s)
        BY <2>2, SameTurn
      <3>2. PICK e \in CallStates : e = Ended(t) /\ e.pc = "reply" /\ e.want = t.want /\ e.pair = t.pair
        BY <1>3, <2>2, <3>1, EndedType
      <3>3. e.phase = t.phase /\ e.missing = t.missing
        BY <3>2 DEF Ended, CallStates
      <3>4. ~Live(t.want, t.pair)
        BY <2>3 DEF SeedLost
      <3>5. AccountInv(e)
        BY <1>1, <2>2, <3>2, <3>3, <3>4 DEF AccountInv, Flying
      <3>6. QED
        BY <1>4, <1>6, <2>1, <2>3, <3>2, <3>5
    <2>4. CASE ~SeedLost(t)
      <3>1. PICK u : u = [t EXCEPT !.pc = "judge", !.shot = a]
        OBVIOUS
      <3>2. /\ u.pc = "judge" /\ u.phase = s.phase /\ u.stop = s.stop /\ u.held = s.held
            /\ u.missing = s.missing /\ u.errors = s.errors
        BY <2>2, <3>1 DEF CallStates
      <3>3. AccountInv(u)
        BY <1>1, <1>2, <3>2, AccountOn DEF Flying
      <3>4. QED
        BY <1>4, <1>6, <2>1, <2>4, <3>1, <3>3
    <2>5. QED
      BY <2>3, <2>4
  <1>7. QED
    BY <1>5, <1>6

\* A call that was stopped owes its account only when it answers.
LEMMA AccountStopped ==
  ASSUME IInv, AccountsKept, NEW c \in Calls, Cut(c) \/ CoolCut(c) \/ Abort(c)
  PROVE  \E t : AccountInv(t) /\ Put(c, t)
  <1>1. PICK s \in CallStates : s = call[c] /\ CallInv(s) /\ AccountInv(s)
    BY Parts DEF AccountsKept
  <1>2. CASE Cut(c)
    <2>1. s.pc = "fly" /\ s.stop # "none" /\ (s.phase = "mint" => s.missing # {})
      BY <1>1, <1>2, FlyingMint DEF Cut, Flying
    <2>2. s.phase = "mint" => Aimed(s) \in Models
      BY <1>1, <2>1, AimedIsAbsent
    <2>3. PICK t \in CallStates : t = Ended(s) /\ t.pc = "reply" /\ t.stop = s.stop
      BY <2>2, EndedType
    <2>4. t.phase = s.phase /\ t.missing = s.missing
      BY <2>3 DEF Ended, CallStates
    <2>5. AccountInv(t)
      BY <1>1, <2>1, <2>3, <2>4 DEF AccountInv, Flying
    <2>6. QED
      BY <1>1, <1>2, <2>3, <2>5 DEF Cut
  <1>3. CASE CoolCut(c)
    <2>1. PICK t : t = [s EXCEPT !.pc = "reply"]
      OBVIOUS
    <2>2. t.pc = "reply" /\ t.stop = s.stop /\ t.phase = s.phase /\ t.missing = s.missing
      BY <2>1 DEF CallStates
    <2>3. s.stop # "none" /\ Put(c, t)
      BY <1>1, <1>3, <2>1 DEF CoolCut
    <2>4. AccountInv(t)
      BY <1>1, <2>2, <2>3 DEF AccountInv, Flying
    <2>5. QED
      BY <2>3, <2>4
  <1>4. CASE Abort(c)
    <2>1. PICK why \in {"client_closed", "total_timeout"} : Put(c, [s EXCEPT !.stop = why])
      BY <1>1, <1>4 DEF Abort
    <2>2. PICK t : t = [s EXCEPT !.stop = why]
      OBVIOUS
    <2>3. t.stop # "none" /\ t.pc = s.pc /\ t.phase = s.phase /\ t.missing = s.missing
      BY <2>2 DEF CallStates
    <2>4. s.pc # "done"
      BY <1>1, <1>4 DEF Abort
    <2>5. AccountInv(t)
      BY <1>1, <2>3, <2>4 DEF AccountInv, Flying
    <2>6. QED
      BY <2>1, <2>2, <2>5
  <1>5. QED
    BY <1>2, <1>3, <1>4

\* A shot that is judged unfit is shot again.
LEMMA AccountAgain ==
  ASSUME IInv, AccountsKept, NEW c \in Calls, Flying(call[c]), Put(c, Again(call[c]))
  PROVE  \E t : AccountInv(t) /\ Put(c, t)
  <1>1. PICK s \in CallStates : s = call[c] /\ CallInv(s) /\ AccountInv(s)
    BY Parts DEF AccountsKept
  <1>2. s.tries < MaxAttempts
    BY <1>1 DEF CallInv
  <1>3. PICK t \in CallStates :
          /\ t = Again(s) /\ t.pc = "next" /\ t.held = s.held /\ t.stop = s.stop /\ t.phase = s.phase
          /\ t.missing = s.missing /\ t.errors = s.errors
    BY <1>2, AgainType
  <1>4. AccountInv(t)
    BY <1>1, <1>3, AccountOn
  <1>5. QED
    BY <1>1, <1>3, <1>4

LEMMA AccountRefused ==
  ASSUME IInv, AccountsKept, NEW c \in Calls, Refused(c)
  PROVE  \E t : AccountInv(t) /\ Put(c, t)
  <1>1. PICK s \in CallStates : s = call[c] /\ CallInv(s) /\ AccountInv(s)
    BY Parts DEF AccountsKept
  <1>2. s.pc = "judge" /\ Flying(s) /\ s.tries < MaxAttempts /\ Turn(s) # {}
    BY <1>1 DEF Refused, Flying, CallInv
  <1>3. Aimed(s) \in Models
    BY <1>2, AimedIsIn
  <1>4. PICK terminal \in SUBSET Models : terminal = s.terminal \cup {Aimed(s)}
    BY <1>3 DEF CallStates
  <1>5. PICK t \in CallStates : t = [s EXCEPT !.terminal = terminal]
    BY Updates
  <1>6. /\ t.pc = s.pc /\ t.held = s.held /\ t.errors = s.errors /\ t.missing = s.missing
        /\ t.phase = s.phase /\ t.stop = s.stop /\ t.tries = s.tries
    BY <1>5 DEF CallStates
  <1>7. CASE s.phase = "renew"
    <2>1. PICK u \in CallStates : /\ u = Again(t) /\ u.pc = "next" /\ u.held = s.held
                                  /\ u.stop = s.stop /\ u.phase = s.phase
                                  /\ u.missing = s.missing /\ u.errors = s.errors
      BY <1>2, <1>6, AgainType
    <2>2. AccountInv(u)
      BY <1>1, <1>2, <2>1, AccountOn
    <2>3. QED
      BY <1>1, <1>4, <1>5, <1>7, <2>1, <2>2 DEF Refused
  <1>8. CASE s.phase = "mint"
    <2>1. Aimed(t) = Aimed(s)
      BY <1>6, <1>8 DEF Aimed
    <2>2. PICK n \in CallStates : /\ n = NextModel(t) /\ n.pc = "next" /\ n.held = s.held
                                  /\ n.stop = s.stop /\ n.phase = s.phase /\ n.errors = s.errors
                                  /\ n.missing = s.missing \ {Aimed(s)}
      BY <1>6, <2>1, NextModelType
    <2>3. PICK u : u = [n EXCEPT !.errors = n.errors \cup {Aimed(s)}]
      OBVIOUS
    <2>4. /\ u.pc = "next" /\ u.held = s.held /\ u.stop = s.stop /\ u.phase = s.phase
          /\ u.errors = s.errors \cup {Aimed(s)} /\ u.missing = s.missing \ {Aimed(s)}
      BY <2>2, <2>3 DEF CallStates
    <2>5. AccountInv(u)
      BY <1>1, <1>2, <2>4, AccountOn
    <2>6. Put(c, u)
      BY <1>1, <1>4, <1>5, <1>8, <2>2, <2>3 DEF Refused
    <2>7. QED
      BY <2>5, <2>6
  <1>9. QED
    BY <1>7, <1>8 DEF CallStates

\* A model whose ticket is kept is missing no more, and held.
LEMMA AccountKeep ==
  ASSUME IInv, AccountsKept, NEW c \in Calls, Keep(c), Flying(call[c]), call[c].phase = "mint"
  PROVE  \E t : AccountInv(t) /\ Put(c, t)
  <1>1. PICK s \in CallStates : s = call[c] /\ CallInv(s) /\ AccountInv(s)
    BY Parts DEF AccountsKept
  <1>2. Turn(s) # {}
    BY <1>1 DEF CallInv
  <1>3. Aimed(s) \in Models
    BY <1>2, AimedIsIn
  <1>4. PICK h : h = [ticket |-> Ticket(s), exp |-> s.shot.mint.issued + s.want.ttl]
    OBVIOUS
  <1>5. CASE Dead(s.want, h)
    BY <1>1, <1>4, <1>5, AccountAgain DEF Keep
  <1>6. CASE ~Dead(s.want, h)
    <2>1. PICK n \in CallStates : /\ n = NextModel(s) /\ n.pc = "next" /\ n.held = s.held
                                  /\ n.stop = s.stop /\ n.phase = s.phase /\ n.errors = s.errors
                                  /\ n.missing = s.missing \ {Aimed(s)}
      BY NextModelType
    <2>2. PICK t : t = [n EXCEPT !.held[Aimed(s)] = h]
      OBVIOUS
    <2>3. /\ t.pc = "next" /\ t.held = [s.held EXCEPT ![Aimed(s)] = h] /\ t.stop = s.stop
          /\ t.phase = s.phase /\ t.errors = s.errors /\ t.missing = s.missing \ {Aimed(s)}
      BY <2>1, <2>2 DEF CallStates
    <2>4. s.held \in [Models -> Holdings \cup {Nothing}]
      BY DEF CallStates
    <2>5. h # Nothing
      BY <1>4 DEF Nothing
    <2>6. \A m \in Models : t.held[m] = IF m = Aimed(s) THEN h ELSE s.held[m]
      BY <2>3, <2>4
    <2>7. AccountInv(t)
      <3>1. AccountInv(s) /\ Flying(s)
        BY <1>1
      <3>2. \A m \in Models : s.held[m] # Nothing \/ m \in s.missing \/ m \in s.errors
                              => t.held[m] # Nothing \/ m \in t.missing \/ m \in t.errors
        BY <2>3, <2>5, <2>6
      <3>3. t.pc = "next" /\ t.phase = s.phase /\ t.stop = s.stop /\ t.missing \subseteq s.missing
        BY <2>3
      <3>4. QED
        BY <3>1, <3>2, <3>3, AccountOn
    <2>8. Put(c, t)
      BY <1>1, <1>4, <1>6, <2>1, <2>2 DEF Keep
    <2>9. QED
      BY <2>7, <2>8
  <1>7. QED
    BY <1>5, <1>6

LEMMA AccountFit ==
  ASSUME IInv, AccountsKept, NEW c \in Calls, Fit(c) \/ Echo(c)
  PROVE  \E t : AccountInv(t) /\ Put(c, t)
  <1>1. PICK s \in CallStates : s = call[c] /\ CallInv(s) /\ AccountInv(s)
    BY Parts DEF AccountsKept
  <1>2. Flying(s) /\ s.phase = "mint"
    BY <1>1 DEF Fit, Echo, Flying, CallInv
  <1>3. CASE Keep(c)
    BY <1>1, <1>2, <1>3, AccountKeep
  <1>4. CASE Put(c, [s EXCEPT !.pc = "verify"])
    <2>1. PICK t : t = [s EXCEPT !.pc = "verify"]
      OBVIOUS
    <2>2. /\ t.pc = "verify" /\ t.held = s.held /\ t.stop = s.stop /\ t.phase = s.phase
          /\ t.errors = s.errors /\ t.missing = s.missing
      BY <2>1 DEF CallStates
    <2>3. AccountInv(t)
      BY <1>1, <1>2, <2>2, AccountOn DEF Flying
    <2>4. QED
      BY <1>4, <2>1, <2>3
  <1>5. QED
    BY <1>1, <1>3, <1>4 DEF Fit, Echo

\* The next round asks for every model without ticket that was not refused.
LEMMA AccountCooled ==
  ASSUME IInv, AccountsKept, RefusedKeepTickets, NEW c \in Calls, Cooled(c)
  PROVE  \E t : AccountInv(t) /\ Put(c, t)
  <1>1. PICK s \in CallStates : s = call[c] /\ CallInv(s) /\ AccountInv(s)
    BY Parts DEF AccountsKept
  <1>2. s.pc = "cool" /\ s.stop = "none" /\ s.missing = {} /\ Covered(s)
    BY <1>1 DEF Cooled, AccountInv
  <1>3. PICK held : held = [m \in Models |-> IF s.held[m] # Nothing /\ Dead(s.want, s.held[m])
                                             THEN Nothing ELSE s.held[m]]
    OBVIOUS
  <1>4. PICK t : t = [s EXCEPT !.pc = "next", !.phase = "mint", !.tries = 0, !.retry = FALSE,
                               !.held = held,
                               !.missing = {m \in Models : held[m] = Nothing} \ s.terminal]
    OBVIOUS
  <1>5. /\ t.pc = "next" /\ t.phase = "mint" /\ t.held = held /\ t.errors = s.errors
        /\ t.missing = {m \in Models : held[m] = Nothing} \ s.terminal
    BY <1>4 DEF CallStates
  <1>6. Put(c, t)
    BY <1>1, <1>3, <1>4 DEF Cooled
  <1>7. call'[c] = t
    BY <1>6 DEF Put, IInv
  <1>8. \A m \in s.terminal : s.held[m] # Nothing => held[m] # Nothing
    BY <1>1, <1>2, <1>5, <1>7 DEF RefusedKeepTickets
  <1>9. Covered(t)
    BY <1>2, <1>5, <1>8 DEF Covered
  <1>10. AccountInv(t)
    BY <1>5, <1>9 DEF AccountInv
  <1>11. QED
    BY <1>6, <1>10

\* What the answer says of a model that is covered.
LEMMA AccountReply ==
  ASSUME IInv, AccountsKept, NEW c \in Calls, Reply(c)
  PROVE  \E t : AccountInv(t) /\ Put(c, t)
  <1>1. PICK s \in CallStates : s = call[c] /\ CallInv(s) /\ AccountInv(s)
    BY Parts DEF AccountsKept
  <1>2. s.pc = "reply" /\ s.want \in Wants /\ s.answer \in {Nothing, [kind |-> "rejected"]}
    BY <1>1 DEF Reply, CallInv
  <1>3. PICK a : a = IF s.stop = "client_closed" \/ s.answer # Nothing THEN s.answer ELSE Outcome(s)
    OBVIOUS
  <1>4. ASSUME a # Nothing, a.kind = "ok"
        PROVE  Accounted(a)
    <2> DEFINE late == {m \in Models : s.held[m] # Nothing} \ Good(s)
               unmet == IF s.stop # "none" THEN Absent(s) ELSE {}
               tickets == [m \in Models |-> IF m \in Good(s) THEN s.held[m] ELSE Nothing]
    <2>1. s.answer = Nothing /\ a = Outcome(s)
      BY <1>2, <1>3, <1>4
    <2>2. /\ Live(s.want, s.pair)
          /\ a.errors = s.errors \cup unmet \cup late
          /\ a.tickets = tickets
      BY <1>4, <2>1 DEF Outcome
    <2>3. ASSUME NEW m \in Models, s.held[m] = Nothing
          PROVE  m \in s.errors \/ m \in unmet
      BY <1>1, <1>2, <2>1, <2>2, <2>3 DEF AccountInv, Covered, Absent
    <2>4. ASSUME NEW m \in Models, s.held[m] # Nothing
          PROVE  m \in late \/ tickets[m] # Nothing
      BY <2>4 DEF Good
    <2>5. QED
      BY <2>2, <2>3, <2>4 DEF Accounted
  <1>5. PICK t : t = Over(s, a)
    OBVIOUS
  <1>6. t.pc = "done" /\ t.phase = "mint" /\ t.answer = a
    BY <1>5 DEF Over, Fresh
  <1>7. AccountInv(t)
    BY <1>4, <1>6 DEF AccountInv, Flying
  <1>8. Put(c, t)
    BY <1>1, <1>3, <1>5 DEF Reply
  <1>9. QED
    BY <1>7, <1>8

LEMMA AccountBegin ==
  ASSUME IInv, NEW c \in Calls, Begin(c)
  PROVE  \E t : AccountInv(t) /\ Put(c, t)
  <1>1. PICK w \in Wants :
          \/ Put(c, Over(Fresh(w), [kind |-> "invalid"]))
          \/ \E held, pair :
                Put(c, [Fresh(w) EXCEPT !.pair = pair, !.held = held,
                                        !.missing = {m \in Models : held[m] = Nothing}])
    BY DEF Begin
  <1>2. CASE Put(c, Over(Fresh(w), [kind |-> "invalid"]))
    <2>1. PICK t : t = Over(Fresh(w), [kind |-> "invalid"])
      OBVIOUS
    <2>2. t.pc = "done" /\ t.phase = "mint" /\ t.answer = [kind |-> "invalid"]
      BY <2>1 DEF Over, Fresh
    <2>3. AccountInv(t)
      BY <2>2 DEF AccountInv, Flying
    <2>4. QED
      BY <1>2, <2>1, <2>3
  <1>3. ASSUME NEW held, NEW pair,
               Put(c, [Fresh(w) EXCEPT !.pair = pair, !.held = held,
                                       !.missing = {m \in Models : held[m] = Nothing}])
        PROVE  \E t : AccountInv(t) /\ Put(c, t)
    <2>1. PICK t : t = [Fresh(w) EXCEPT !.pair = pair, !.held = held,
                                        !.missing = {m \in Models : held[m] = Nothing}]
      OBVIOUS
    <2>2. /\ t.pc = "next" /\ t.phase = "mint" /\ t.held = held
          /\ t.missing = {m \in Models : held[m] = Nothing}
      BY <2>1 DEF Fresh
    <2>3. AccountInv(t)
      BY <2>2 DEF AccountInv, Covered
    <2>4. QED
      BY <1>3, <2>1, <2>3
  <1>4. QED
    BY <1>1, <1>2, <1>3

LEMMA AccountNext == IInv /\ AccountsKept /\ [Next]_vars /\ [RefusedKeepTickets]_vars => AccountsKept'
  <1> SUFFICES ASSUME IInv, AccountsKept, [Next]_vars, [RefusedKeepTickets]_vars PROVE AccountsKept'
    OBVIOUS
  <1>1. CASE Tick
    <2>1. ASSUME NEW c \in Calls PROVE AccountInv(call[c])'
      <3>1. call[c].pc # "reply" /\ call' = call
        BY <1>1 DEF Tick, Quiet
      <3>2. AccountInv(call[c])
        BY DEF AccountsKept
      <3>3. QED
        BY <3>1, <3>2 DEF AccountInv, Covered, Flying, Accounted
    <2>2. QED
      BY <2>1 DEF AccountsKept
  <1>2. CASE UNCHANGED vars
    BY <1>2 DEF vars, AccountsKept, AccountInv, Covered, Flying, Accounted, Live
  <1>3. ASSUME NEW c \in Calls, Begin(c) \/ Loop(c) \/ Abort(c), ~UNCHANGED vars
        PROVE  AccountsKept'
    <2>1. RefusedKeepTickets
      BY <1>3
    <2>2. UNCHANGED now
      BY <1>3 DEF Begin, Abort, Loop, Shoot, Unable, GiveUp, ModelsDone, RoundDone, Land, Cut,
         Refused, Unfit, Fit, Echo, EchoFails, Cooled, CoolCut, Reply
    <2>3. CASE Unfit(c) \/ EchoFails(c)
      <3>1. Flying(call[c]) /\ Put(c, Again(call[c]))
        BY <2>3 DEF Unfit, EchoFails, Flying
      <3>2. QED
        BY <2>2, <3>1, AccountAgain, AccountMove
    <2>4. CASE Land(c) \/ Refused(c) \/ Fit(c) \/ Echo(c)
      BY <2>2, <2>4, AccountLand, AccountRefused, AccountFit, AccountMove
    <2>5. CASE Cut(c) \/ CoolCut(c) \/ Abort(c)
      BY <2>2, <2>5, AccountStopped, AccountMove
    <2>6. CASE Cooled(c) \/ Reply(c) \/ Begin(c)
      BY <2>1, <2>2, <2>6, AccountCooled, AccountReply, AccountBegin, AccountMove
    <2>7. CASE Shoot(c) \/ Unable(c) \/ GiveUp(c) \/ ModelsDone(c) \/ RoundDone(c)
      BY <2>2, <2>7, AccountShoot, AccountUnable, AccountGiveUp, AccountModelsDone,
         AccountRoundDone, AccountMove
    <2>8. QED
      BY <1>3, <2>3, <2>4, <2>5, <2>6, <2>7 DEF Loop
  <1>4. QED
    BY <1>1, <1>2, <1>3 DEF Next

\* What the documentation says of every answer with tickets (what is missing
\* from it is listed under errors) holds of all calls, stopped or not, as long
\* as no refused model loses a ticket it had: run relay_vanished shows the
\* promise broken by exactly such a loss.
THEOREM AccountsForAll == Spec /\ [][RefusedKeepTickets]_vars => []ModelsAccounted
  <1>1. Init => AccountsKept
    BY DEF Init, AccountsKept, AccountInv, Idle, Fresh, Flying
  <1>2. IInv /\ AccountsKept => ModelsAccounted
    <2> SUFFICES ASSUME IInv, AccountsKept, NEW c \in Calls, call[c].answer # Nothing,
                        call[c].answer.kind = "ok"
                 PROVE  Accounted(call[c].answer)
      BY DEF ModelsAccounted
    <2>1. CallInv(call[c]) /\ AccountInv(call[c])
      BY Parts DEF AccountsKept
    <2>2. call[c].pc = "done"
      BY <2>1 DEF CallInv
    <2>3. QED
      BY <2>1, <2>2 DEF AccountInv
  <1>3. QED
    BY <1>1, <1>2, AccountNext, InitInv, NextInv, PTL DEF Spec

=============================================================================
