------------------------- MODULE RelayMintOfficeProofs -------------------------
(***************************************************************************)
(* The step properties of RelayMint, for every value of its constants:     *)
(* every request it sends has a reason, every step is a step of            *)
(* TicketOffice or leaves what the office shows unchanged, and no call     *)
(* goes on for ever.                                                       *)
(***************************************************************************)
EXTENDS RelayMintProofs

USE RelayAssumption

-----------------------------------------------------------------------------
(* Steps of a call that neither send a request nor end it. *)

Inside(s) == s.pc \notin {"idle", "done"}

\* A move of call c to s that keeps what it wants and what it has spent.
Carries(c, s) ==
    /\ Put(c, s) /\ UNCHANGED now
    /\ Inside(call[c]) /\ Inside(s)
    /\ s.want = call[c].want /\ s.attempts = call[c].attempts

LEMMA TermsCarry ==
  ASSUME NEW s \in CallStates
  PROVE  /\ Inside(Ended(s)) /\ Ended(s).want = s.want /\ Ended(s).attempts = s.attempts
         /\ Inside(NextModel(s)) /\ NextModel(s).want = s.want /\ NextModel(s).attempts = s.attempts
         /\ Inside(Again(s)) /\ Again(s).want = s.want /\ Again(s).attempts = s.attempts
  <1>1. Inside(Ended(s)) /\ Ended(s).want = s.want /\ Ended(s).attempts = s.attempts
    BY DEF Inside, Ended, CallStates
  <1>2. Inside(NextModel(s)) /\ NextModel(s).want = s.want /\ NextModel(s).attempts = s.attempts
    BY DEF Inside, NextModel, CallStates
  <1>3. Inside(Again(s)) /\ Again(s).want = s.want /\ Again(s).attempts = s.attempts
    BY DEF Inside, Again, CallStates
  <1>4. QED
    BY <1>1, <1>2, <1>3

LEMMA KeepCarries ==
  ASSUME NEW c \in Calls, NEW s \in CallStates, s = call[c], Inside(s), CallInv(s), Keep(c), UNCHANGED now
  PROVE  \E t : Carries(c, t)
  <1>1. PICK h : h = [ticket |-> Ticket(s), exp |-> s.shot.mint.issued + s.want.ttl]
    OBVIOUS
  <1>2. CASE Dead(s.want, h)
    BY <1>1, <1>2, TermsCarry DEF Keep, Carries
  <1>3. CASE ~Dead(s.want, h)
    <2>1. PICK n \in CallStates : n = NextModel(s)
      BY NextModelType
    <2>2. PICK t : t = [n EXCEPT !.held[Aimed(s)] = h]
      OBVIOUS
    <2>3. t.pc = n.pc /\ t.want = n.want /\ t.attempts = n.attempts
      BY <2>2 DEF CallStates
    <2>4. Put(c, t)
      BY <1>1, <1>3, <2>1, <2>2 DEF Keep
    <2>5. QED
      BY <2>1, <2>3, <2>4, TermsCarry DEF Carries, Inside
  <1>4. QED
    BY <1>2, <1>3

LEMMA LandCarries ==
  ASSUME NEW c \in Calls, NEW s \in CallStates, s = call[c], CallInv(s), Land(c)
  PROVE  \E t : Carries(c, t)
  <1>1. s.pc = "fly" /\ UNCHANGED now
    BY DEF Land
  <1>2. PICK a \in Shots :
          IF a.kind = "denied"
          THEN Put(c, [Ended(s) EXCEPT !.answer = [kind |-> "rejected"]])
          ELSE Put(c, IF SeedLost(Adopt(s, a)) THEN Ended(Adopt(s, a))
                      ELSE [Adopt(s, a) EXCEPT !.pc = "judge", !.shot = a])
    BY DEF Land
  <1>3. CASE a.kind = "denied"
    <2>1. PICK e : e = Ended(s)
      OBVIOUS
    <2>2. e \in CallStates
      BY <1>1, <2>1, FlyingMint, EndedInv DEF Flying
    <2>3. PICK t : t = [e EXCEPT !.answer = [kind |-> "rejected"]]
      OBVIOUS
    <2>4. t.pc = e.pc /\ t.want = e.want /\ t.attempts = e.attempts
      BY <2>2, <2>3 DEF CallStates
    <2>5. Put(c, t)
      BY <1>2, <1>3, <2>1, <2>3
    <2>6. QED
      BY <1>1, <2>1, <2>4, <2>5, TermsCarry DEF Carries, Inside
  <1>4. CASE a.kind # "denied"
    <2>1. PICK u \in CallStates : u = Adopt(s, a) /\ u.pc = "fly"
      BY <1>1, AdoptInv
    <2>2. u.want = s.want /\ u.attempts = s.attempts
      BY <2>1 DEF Adopt, CallStates
    <2>3. CASE SeedLost(u)
      BY <1>1, <1>2, <1>4, <2>1, <2>2, <2>3, TermsCarry DEF Carries, Inside
    <2>4. CASE ~SeedLost(u)
      <3>1. PICK t : t = [u EXCEPT !.pc = "judge", !.shot = a]
        OBVIOUS
      <3>2. t.pc = "judge" /\ t.want = u.want /\ t.attempts = u.attempts
        BY <3>1 DEF CallStates
      <3>3. Put(c, t)
        BY <1>2, <1>4, <2>1, <2>4, <3>1
      <3>4. QED
        BY <1>1, <2>2, <3>2, <3>3 DEF Carries, Inside
    <2>5. QED
      BY <2>3, <2>4
  <1>5. QED
    BY <1>3, <1>4

LEMMA RefusedCarries ==
  ASSUME NEW c \in Calls, NEW s \in CallStates, s = call[c], CallInv(s), Refused(c)
  PROVE  \E t : Carries(c, t)
  <1>1. s.pc = "judge" /\ UNCHANGED now
    BY DEF Refused
  <1>2. PICK u : u = [s EXCEPT !.terminal = s.terminal \cup {Aimed(s)}]
    OBVIOUS
  <1>3. Aimed(s) \in Models
    BY <1>1, AimedIsIn DEF CallInv, Flying
  <1>4. s.terminal \cup {Aimed(s)} \in SUBSET Models
    BY <1>3 DEF CallStates
  <1>5. u \in CallStates
    BY <1>2, <1>4, Updates
  <1>6. u.want = s.want /\ u.attempts = s.attempts
    BY <1>2 DEF CallStates
  <1>7. CASE s.phase = "renew"
    <2>1. Put(c, Again(u))
      BY <1>2, <1>7 DEF Refused
    <2>2. QED
      BY <1>1, <1>5, <1>6, <2>1, TermsCarry DEF Carries, Inside
  <1>8. CASE s.phase # "renew"
    <2>1. PICK n \in CallStates : n = NextModel(u)
      BY <1>5, NextModelType
    <2>2. PICK t : t = [n EXCEPT !.errors = n.errors \cup {Aimed(s)}]
      OBVIOUS
    <2>3. t.pc = n.pc /\ t.want = n.want /\ t.attempts = n.attempts
      BY <2>2 DEF CallStates
    <2>4. Put(c, t)
      BY <1>2, <1>8, <2>1, <2>2 DEF Refused
    <2>5. QED
      BY <1>1, <1>5, <1>6, <2>1, <2>3, <2>4, TermsCarry DEF Carries, Inside
  <1>9. QED
    BY <1>7, <1>8

LEMMA GiveUpCarries ==
  ASSUME NEW c \in Calls, NEW s \in CallStates, s = call[c], CallInv(s), GiveUp(c)
  PROVE  \E t : Carries(c, t)
  <1>1. s.pc = "next" /\ UNCHANGED now
    BY DEF GiveUp
  <1>2. PICK n \in CallStates : n = NextModel(s)
    BY NextModelType
  <1>3. PICK t : t = [n EXCEPT !.errors = n.errors \cup {Aimed(s)}, !.retry = TRUE]
    OBVIOUS
  <1>4. t.pc = n.pc /\ t.want = n.want /\ t.attempts = n.attempts
    BY <1>3 DEF CallStates
  <1>5. Put(c, t)
    BY <1>2, <1>3 DEF GiveUp
  <1>6. QED
    BY <1>1, <1>2, <1>4, <1>5, TermsCarry DEF Carries, Inside

LEMMA UnableCarries ==
  ASSUME NEW c \in Calls, NEW s \in CallStates, s = call[c], CallInv(s), Unable(c)
  PROVE  \E t : Carries(c, t)
  <1>1. s.pc = "next" /\ UNCHANGED now /\ (s.phase = "mint" => s.missing # {})
    BY DEF Unable, Wanting
  <1>2. PICK e : e = Ended(s)
    OBVIOUS
  <1>3. e \in CallStates
    BY <1>1, <1>2, EndedInv
  <1>4. PICK t : t = [e EXCEPT !.stop = IF SeedLost(s) THEN "none" ELSE "total_attempt_limit"]
    OBVIOUS
  <1>5. t.pc = e.pc /\ t.want = e.want /\ t.attempts = e.attempts
    BY <1>3, <1>4 DEF CallStates
  <1>6. Put(c, t)
    BY <1>2, <1>4 DEF Unable
  <1>7. QED
    BY <1>1, <1>2, <1>5, <1>6, TermsCarry DEF Carries, Inside

\* The steps that set no more than the program point, the phase or the stop.
LEMMA StatusCarries ==
  ASSUME NEW c \in Calls, NEW s \in CallStates, s = call[c],
         ModelsDone(c) \/ RoundDone(c) \/ CoolCut(c) \/ Cooled(c) \/ Abort(c)
  PROVE  \E t : Carries(c, t)
  <1>1. CASE ModelsDone(c)
    <2>1. PICK t : t = IF s.stop # "none" THEN [s EXCEPT !.pc = "reply"]
                       ELSE [s EXCEPT !.phase = "renew", !.tries = 0]
      OBVIOUS
    <2>2. s.pc = "next" /\ UNCHANGED now /\ Put(c, t)
      BY <1>1, <2>1 DEF ModelsDone
    <2>3. t.pc \in {"next", "reply"} /\ t.want = s.want /\ t.attempts = s.attempts
      BY <2>1, <2>2 DEF CallStates
    <2>4. QED
      BY <2>2, <2>3 DEF Carries, Inside
  <1>2. CASE RoundDone(c)
    <2>1. PICK t : /\ t \in {[s EXCEPT !.pc = "reply"], [s EXCEPT !.pc = "cool"],
                             [s EXCEPT !.pc = "reply", !.stop = "total_attempt_limit"]}
                   /\ Put(c, t)
      BY <1>2 DEF RoundDone
    <2>2. s.pc = "next" /\ UNCHANGED now
      BY <1>2 DEF RoundDone
    <2>3. t.pc \in {"cool", "reply"} /\ t.want = s.want /\ t.attempts = s.attempts
      <3>1. CASE t = [s EXCEPT !.pc = "reply"]
        BY <3>1 DEF CallStates
      <3>2. CASE t = [s EXCEPT !.pc = "cool"]
        BY <3>2 DEF CallStates
      <3>3. CASE t = [s EXCEPT !.pc = "reply", !.stop = "total_attempt_limit"]
        BY <3>3 DEF CallStates
      <3>4. QED
        BY <2>1, <3>1, <3>2, <3>3
    <2>4. QED
      BY <2>1, <2>2, <2>3 DEF Carries, Inside
  <1>3. CASE CoolCut(c)
    <2>1. PICK t : t = [s EXCEPT !.pc = "reply"]
      OBVIOUS
    <2>2. s.pc = "cool" /\ UNCHANGED now /\ Put(c, t)
      BY <1>3, <2>1 DEF CoolCut
    <2>3. t.pc = "reply" /\ t.want = s.want /\ t.attempts = s.attempts
      BY <2>1 DEF CallStates
    <2>4. QED
      BY <2>2, <2>3 DEF Carries, Inside
  <1>4. CASE Cooled(c)
    <2>1. PICK held, missing :
            Put(c, [s EXCEPT !.pc = "next", !.phase = "mint", !.tries = 0, !.retry = FALSE, !.held = held,
                             !.missing = missing])
      BY <1>4 DEF Cooled
    <2>2. PICK t : t = [s EXCEPT !.pc = "next", !.phase = "mint", !.tries = 0, !.retry = FALSE,
                                 !.held = held, !.missing = missing]
      OBVIOUS
    <2>3. s.pc = "cool" /\ UNCHANGED now
      BY <1>4 DEF Cooled
    <2>4. t.pc = "next" /\ t.want = s.want /\ t.attempts = s.attempts
      BY <2>2 DEF CallStates
    <2>5. QED
      BY <2>1, <2>2, <2>3, <2>4 DEF Carries, Inside
  <1>5. CASE Abort(c)
    <2>1. PICK why : Put(c, [s EXCEPT !.stop = why])
      BY <1>5 DEF Abort
    <2>2. PICK t : t = [s EXCEPT !.stop = why]
      OBVIOUS
    <2>3. t.pc = s.pc /\ t.want = s.want /\ t.attempts = s.attempts
      BY <2>2 DEF CallStates
    <2>4. QED
      BY <1>5, <2>1, <2>2, <2>3 DEF Abort, Carries, Inside
  <1>6. QED
    BY <1>1, <1>2, <1>3, <1>4, <1>5

LEMMA FitCarries ==
  ASSUME NEW c \in Calls, NEW s \in CallStates, s = call[c], CallInv(s), Fit(c)
  PROVE  \E t : Carries(c, t)
  <1>1. s.pc = "judge" /\ UNCHANGED now
    BY DEF Fit
  <1>2. CASE Verify
    <2>1. PICK t : t = [s EXCEPT !.pc = "verify"]
      OBVIOUS
    <2>2. t.pc = "verify" /\ t.want = s.want /\ t.attempts = s.attempts
      BY <2>1 DEF CallStates
    <2>3. Put(c, t)
      BY <1>2, <2>1 DEF Fit
    <2>4. QED
      BY <1>1, <2>2, <2>3 DEF Carries, Inside
  <1>3. CASE ~Verify
    BY <1>1, <1>3, KeepCarries DEF Fit, Inside
  <1>4. QED
    BY <1>2, <1>3

LEMMA CallCarries ==
  ASSUME IInv, NEW c \in Calls, Loop(c) \/ Abort(c), ~Shoot(c), ~Reply(c)
  PROVE  \E t : Carries(c, t)
  <1>1. PICK s \in CallStates : s = call[c] /\ CallInv(s)
    BY Parts
  <1>2. CASE Unfit(c) \/ EchoFails(c)
    <2>1. Put(c, Again(s)) /\ UNCHANGED now /\ Inside(s)
      BY <1>1, <1>2 DEF Unfit, EchoFails, Inside
    <2>2. QED
      BY <1>1, <2>1, TermsCarry DEF Carries
  <1>3. CASE Cut(c)
    <2>1. Put(c, Ended(s)) /\ UNCHANGED now /\ Inside(s)
      BY <1>1, <1>3 DEF Cut, Inside
    <2>2. QED
      BY <1>1, <2>1, TermsCarry DEF Carries
  <1>4. CASE Echo(c)
    BY <1>1, <1>4, KeepCarries DEF Echo, Inside
  <1>5. QED
    BY <1>1, <1>2, <1>3, <1>4, LandCarries, RefusedCarries, GiveUpCarries, UnableCarries, StatusCarries,
       FitCarries DEF Loop

-----------------------------------------------------------------------------
(* Requests are warranted. *)

LEMMA ShotIsWarranted ==
  ASSUME IInv, NEW c \in Calls, Shoot(c)
  PROVE  Warranted(call[c], call'[c])
  <1>1. PICK s \in CallStates : s = call[c] /\ CallInv(s)
    BY Parts
  <1> DEFINE sent == IF Live(s.want, s.pair) THEN s.pair ELSE Nothing
  <1>2. PICK t : t = [s EXCEPT !.pc = "fly", !.attempts = @ + 1, !.sent = sent,
                               !.errors = IF s.phase = "mint" THEN @ \ {Aimed(s)} ELSE @]
    OBVIOUS
  <1>3. Put(c, t)
    BY <1>1, <1>2 DEF Shoot
  <1>4. call'[c] = t /\ t.sent = sent
    BY <1>2, <1>3 DEF Put, IInv, CallStates
  <1>5. Wanting(s) /\ ~SeedLost(s)
    BY <1>1 DEF Shoot
  <1>6. CASE s.phase = "mint"
    <2>1. Aimed(s) \in Absent(s) /\ Aimed(s) \notin s.terminal
      BY <1>1, <1>5, <1>6, AimedIsAbsent DEF Wanting
    <2>2. QED
      BY <1>1, <1>4, <1>5, <2>1 DEF Warranted, Absent, SeedLost, Live
  <1>7. CASE s.phase # "mint"
    <2>1. Aimed(s) \in Renewers(s) /\ ~Live(s.want, s.pair)
      BY <1>5, <1>7, AimedIsIn DEF Wanting, Turn
    <2>2. QED
      BY <1>1, <1>4, <1>5, <2>1 DEF Warranted, Renewers, SeedLost, Live
  <1>8. QED
    BY <1>6, <1>7

LEMMA SpendingStep ==
  ASSUME IInv, [Next]_vars, NEW c \in Calls, call'[c].attempts > call[c].attempts
  PROVE  Shoot(c)
  <1>1. PICK s \in CallStates : s = call[c] /\ s.attempts \in Nat
    BY Parts DEF CallStates
  <1>2. call' # call
    BY <1>1
  <1>3. PICK d \in Calls : Begin(d) \/ Loop(d) \/ Abort(d)
    BY <1>2 DEF Next, vars, Tick
  <1>4. ASSUME NEW t, Put(d, t) PROVE call'[c] = IF d = c THEN t ELSE call[c]
    BY <1>4 DEF Put, IInv
  <1>5. CASE Begin(d)
    <2>1. PICK t : Put(d, t) /\ t.attempts = 0
      <3>1. PICK w \in Wants : Put(d, Over(Fresh(w), [kind |-> "invalid"]))
                               \/ \E p, held, missing :
                                     Put(d, [Fresh(w) EXCEPT !.pair = p, !.held = held, !.missing = missing])
        BY <1>5 DEF Begin
      <3>2. PICK f \in CallStates : f = Fresh(w) /\ f.attempts = 0 /\ f.want = w
        BY FreshType DEF Fresh
      <3>3. CASE Put(d, Over(Fresh(w), [kind |-> "invalid"]))
        <4>1. Over(f, [kind |-> "invalid"]).attempts = 0
          BY <3>2 DEF Over, CallStates
        <4>2. QED
          BY <3>2, <3>3, <4>1
      <3>4. CASE \E p, held, missing :
                    Put(d, [Fresh(w) EXCEPT !.pair = p, !.held = held, !.missing = missing])
        <4>1. \A p, held, missing : [f EXCEPT !.pair = p, !.held = held, !.missing = missing].attempts = 0
          BY <3>2 DEF CallStates
        <4>2. QED
          BY <3>2, <3>4, <4>1
      <3>5. QED
        BY <3>1, <3>3, <3>4
    <2>2. QED
      BY <1>1, <1>4, <2>1
  <1>6. CASE Reply(d)
    <2>1. PICK w \in Wants : call[d].want = w
      BY <1>6, Parts DEF Reply, CallInv
    <2>2. PICK a : Put(d, Over(call[d], a))
      BY <1>6 DEF Reply
    <2>3. PICK f \in CallStates : f = Fresh(w) /\ f.attempts = 0
      BY FreshType DEF Fresh
    <2>4. Over(call[d], a).attempts = 0
      BY <2>1, <2>3 DEF Over, CallStates
    <2>5. QED
      BY <1>1, <1>4, <2>2, <2>4
  <1>7. CASE (Loop(d) \/ Abort(d)) /\ ~Shoot(d) /\ ~Reply(d)
    <2>1. PICK t : Carries(d, t)
      BY <1>7, CallCarries
    <2>2. QED
      BY <1>1, <1>4, <2>1 DEF Carries
  <1>8. CASE Shoot(d)
    <2>1. PICK t : Put(d, t)
      BY <1>8 DEF Shoot
    <2>2. d = c
      BY <1>1, <1>4, <2>1
    <2>3. QED
      BY <1>8, <2>2
  <1>9. QED
    BY <1>3, <1>5, <1>6, <1>7, <1>8

\* No request is sent for a model that was refused for good, or that has its
\* ticket while the pair lives, nor without the pair it should carry.
THEOREM ShotsWarranted == Spec => ShotsAreWarranted
  <1>1. IInv /\ [Next]_vars
          => [\A c \in Calls : call'[c].attempts > call[c].attempts => Warranted(call[c], call'[c])]_vars
    BY SpendingStep, ShotIsWarranted
  <1>2. QED
    BY <1>1, Invariant, PTL DEF Spec, ShotsAreWarranted

-----------------------------------------------------------------------------
(* The mint keeps the office. *)

\* What the office shows of a call, and of all of them.
Shown(s) ==
    [at |-> IF s.pc = "idle" THEN "out" ELSE IF s.pc = "done" THEN "left" ELSE "in",
     want |-> s.want, answer |-> IF s.pc = "done" THEN s.answer ELSE Nothing]
View == [c \in Calls |-> Shown(call[c])]

LEMMA OfficeVisit ==
  /\ View = [c \in Calls |->
               [at |-> IF call[c].pc = "idle" THEN "out" ELSE IF call[c].pc = "done" THEN "left" ELSE "in",
                want |-> call[c].want,
                answer |-> IF call[c].pc = "done" THEN call[c].answer ELSE Nothing]]
  /\ Office!Nothing = Nothing
  BY DEF View, Shown, Nothing, Office!Nothing

LEMMA OfficeInit == Init => Office!Init
  <1> SUFFICES ASSUME Init PROVE Office!Init
    OBVIOUS
  <1>1. View = [c \in Calls |-> [at |-> "out", want |-> Nothing, answer |-> Nothing]]
    BY IdleType DEF Init, View, Shown
  <1>2. now = 0
    BY DEF Init
  <1>3. QED
    BY <1>1, <1>2, OfficeVisit DEF Office!Init, Office!Out

\* A move of one call shows as a move of one visitor.
LEMMA OneMoves ==
  ASSUME IInv, NEW c \in Calls, NEW t, Put(c, t), UNCHANGED now
  PROVE  /\ View' = [View EXCEPT ![c] = Shown(t)]
         /\ View[c] = Shown(call[c]) /\ View'[c] = Shown(t)
  <1>1. \A d \in Calls : call'[d] = IF d = c THEN t ELSE call[d]
    BY DEF IInv, Put
  <1>2. View' = [d \in Calls |-> Shown(call'[d])]
    BY DEF View, Shown
  <1>3. QED
    BY <1>1, <1>2 DEF View

LEMMA OfficeStays ==
  ASSUME IInv, NEW c \in Calls, NEW t, Carries(c, t)
  PROVE  UNCHANGED Office!vars
  <1>1. Shown(t) = Shown(call[c])
    BY DEF Carries, Inside, Shown
  <1>2. View' = View
    BY <1>1, OneMoves DEF Carries, View
  <1>3. QED
    BY <1>2, OfficeVisit DEF Office!vars, Carries, View, Shown

LEMMA OfficeShoot ==
  ASSUME IInv, NEW c \in Calls, Shoot(c)
  PROVE  UNCHANGED Office!vars
  <1>1. PICK s \in CallStates : s = call[c]
    BY Parts
  <1>2. PICK sent, errors, n :
          Put(c, [s EXCEPT !.pc = "fly", !.attempts = n, !.sent = sent, !.errors = errors])
    BY <1>1 DEF Shoot
  <1>3. PICK t : t = [s EXCEPT !.pc = "fly", !.attempts = n, !.sent = sent, !.errors = errors]
    OBVIOUS
  <1>4. t.pc = "fly" /\ t.want = s.want /\ s.pc = "next" /\ UNCHANGED now
    BY <1>1, <1>3 DEF Shoot, CallStates
  <1>5. Shown(t) = Shown(call[c])
    BY <1>1, <1>4 DEF Shown
  <1>6. View' = View
    BY <1>2, <1>3, <1>4, <1>5, OneMoves DEF View
  <1>7. QED
    BY <1>4, <1>6, OfficeVisit DEF Office!vars, View, Shown

LEMMA OfficeBegin ==
  ASSUME IInv, NEW c \in Calls, Begin(c)
  PROVE  Office!Arrive(c) \/ Office!TurnAway(c)
  <1>1. call[c].pc = "idle" /\ UNCHANGED now
    BY DEF Begin
  <1>2. PICK w \in Wants : \/ Put(c, Over(Fresh(w), [kind |-> "invalid"]))
                           \/ \E p, held, missing :
                                 Put(c, [Fresh(w) EXCEPT !.pair = p, !.held = held, !.missing = missing])
    BY DEF Begin
  <1>3. PICK f \in CallStates : f = Fresh(w) /\ f.want = w /\ f.pc = "next" /\ f.stop = "none"
    BY FreshType DEF Fresh
  <1>4. View[c].at = "out"
    BY <1>1 DEF View, Shown
  <1>5. CASE Put(c, Over(Fresh(w), [kind |-> "invalid"]))
    <2>1. PICK t : t = Over(f, [kind |-> "invalid"]) /\ t.pc = "done" /\ t.answer = [kind |-> "invalid"]
      BY <1>3, OverType
    <2>2. Put(c, t)
      BY <1>3, <1>5, <2>1
    <2>3. View' = [View EXCEPT ![c] = View'[c]] /\ View'[c].at = "left"
          /\ View'[c].answer = [kind |-> "invalid"]
      <3>1. View' = [View EXCEPT ![c] = Shown(t)] /\ View'[c] = Shown(t)
        BY <1>1, <2>2, OneMoves
      <3>2. Shown(t).at = "left" /\ Shown(t).answer = [kind |-> "invalid"]
        BY <2>1 DEF Shown
      <3>3. QED
        BY <3>1, <3>2
    <2>4. Office!TurnAway(c)
      BY <1>1, <1>4, <2>3, OfficeVisit DEF Office!TurnAway, Office!Moves, View, Shown
    <2>5. QED
      BY <2>4
  <1>6. CASE \E p, held, missing :
                Put(c, [Fresh(w) EXCEPT !.pair = p, !.held = held, !.missing = missing])
    <2>1. PICK p, held, missing :
            Put(c, [f EXCEPT !.pair = p, !.held = held, !.missing = missing])
      BY <1>3, <1>6
    <2>2. PICK t : t = [f EXCEPT !.pair = p, !.held = held, !.missing = missing]
      OBVIOUS
    <2>3. t.pc = "next"
      BY <1>3, <2>2 DEF CallStates
    <2>4. View' = [View EXCEPT ![c] = View'[c]] /\ View'[c].at = "in" /\ View'[c].answer = Nothing
      <3>1. View' = [View EXCEPT ![c] = Shown(t)] /\ View'[c] = Shown(t)
        BY <1>1, <2>1, <2>2, OneMoves
      <3>2. Shown(t).at = "in" /\ Shown(t).answer = Nothing
        BY <2>3 DEF Shown
      <3>3. QED
        BY <3>1, <3>2
    <2>5. Office!Arrive(c)
      BY <1>1, <1>4, <2>4, OfficeVisit DEF Office!Arrive, Office!Moves, View, Shown
    <2>6. QED
      BY <2>5
  <1>7. QED
    BY <1>2, <1>5, <1>6

\* An answer with tickets is a good one.
LEMMA OutcomeIsGood ==
  ASSUME IInv, NEW s \in CallStates, CallInv(s), s.want \in Wants, Outcome(s).kind = "ok"
  PROVE  Office!GoodAnswer(s.want, Outcome(s))
  <1> DEFINE late == {m \in Models : s.held[m] # Nothing} \ Good(s)
             unmet == IF s.stop # "none" THEN Absent(s) ELSE {}
             tickets == [m \in Models |-> IF m \in Good(s) THEN s.held[m] ELSE Nothing]
  <1>1. /\ Outcome(s) = [kind |-> "ok", pair |-> s.pair, errors |-> s.errors \cup unmet \cup late, at |-> now,
                         tickets |-> tickets]
        /\ Good(s) # {} /\ Live(s.want, s.pair)
    BY DEF Outcome
  <1>2. PICK a : a = Outcome(s)
    OBVIOUS
  <1>3. a.at = now /\ a.pair = s.pair /\ a.errors = s.errors \cup unmet \cup late /\ a.tickets = tickets
    BY <1>1, <1>2
  <1>4. Office!GoodPair(s.want, a.pair)
    BY <1>1, <1>3 DEF Live, OnTarget, Office!GoodPair, Office!OnTarget
  <1>5. \A m \in Models : tickets[m] # Nothing <=> m \in Good(s)
    BY DEF Good
  <1>6. \E m \in Models : a.tickets[m] # Nothing
    BY <1>1, <1>3, <1>5 DEF Good
  <1>7. ASSUME NEW m \in Models, a.tickets[m] # Nothing
        PROVE  Office!GoodTicket(s.want, m, a.tickets[m]) /\ m \notin a.errors
    <2>1. m \in Good(s) /\ a.tickets[m] = s.held[m] /\ s.held[m] # Nothing
      BY <1>3, <1>5, <1>7 DEF Good
    <2>2. PICK h : h = s.held[m]
      OBVIOUS
    <2>3. Due(s.want, m, h) /\ ~Dead(s.want, h)
      BY <2>1, <2>2 DEF CallInv, Good
    <2>4. h.exp \in Nat /\ now \in Nat
      BY <2>3 DEF Due, Holdings, IInv
    <2>5. s.want.ttl > 0 => h.exp > now
      BY <2>3, <2>4 DEF Dead
    <2>6. Office!GoodTicket(s.want, m, h)
      BY <2>3, <2>5 DEF Due, Sound, Office!GoodTicket, Office!OnTarget
    <2>7. m \notin Absent(s) /\ m \notin late
      BY <2>1 DEF Absent
    <2>8. m \notin a.errors
      BY <1>3, <2>7 DEF CallInv
    <2>9. QED
      BY <2>1, <2>2, <2>6, <2>8
  <1>8. QED
    BY <1>2, <1>3, <1>4, <1>6, <1>7, OfficeVisit DEF Office!GoodAnswer

LEMMA OfficeReply ==
  ASSUME IInv, NEW c \in Calls, Reply(c)
  PROVE  Office!Leave(c)
  <1>1. PICK s \in CallStates : s = call[c] /\ CallInv(s)
    BY Parts
  <1>2. s.pc = "reply" /\ s.want \in Wants /\ UNCHANGED now
    BY <1>1 DEF Reply, CallInv
  <1>3. PICK a : a = IF s.stop = "client_closed" \/ s.answer # Nothing THEN s.answer ELSE Outcome(s)
    OBVIOUS
  <1>4. \/ a \in {Nothing, [kind |-> "rejected"], [kind |-> "exhausted"]}
        \/ a.kind = "ok" /\ Office!GoodAnswer(s.want, a)
    <2>1. CASE s.stop = "client_closed" \/ s.answer # Nothing
      BY <1>1, <1>2, <1>3, <2>1 DEF CallInv
    <2>2. CASE ~(s.stop = "client_closed" \/ s.answer # Nothing)
      <3>1. Outcome(s) = [kind |-> "exhausted"] \/ Outcome(s).kind = "ok"
        BY DEF Outcome
      <3>2. QED
        BY <1>1, <1>2, <1>3, <2>2, <3>1, OutcomeIsGood
    <2>3. QED
      BY <2>1, <2>2
  <1>5. PICK t : t = Over(s, a)
    OBVIOUS
  <1>6. t.pc = "done" /\ t.want = s.want /\ t.answer = a
    <2>1. PICK f \in CallStates : f = Fresh(s.want) /\ f.want = s.want
      BY <1>2, FreshType DEF Fresh
    <2>2. QED
      BY <1>5, <2>1 DEF Over, CallStates
  <1>7. Put(c, t)
    BY <1>1, <1>3, <1>5 DEF Reply
  <1>8. View[c].at = "in" /\ View[c].want = s.want
    BY <1>1, <1>2 DEF View, Shown
  <1>9. /\ View' = [View EXCEPT ![c] = View'[c]] /\ View'[c].at = "left" /\ View'[c].want = s.want
        /\ View'[c].answer = a
    <2>1. View' = [View EXCEPT ![c] = Shown(t)] /\ View'[c] = Shown(t)
      BY <1>2, <1>7, OneMoves
    <2>2. Shown(t).at = "left" /\ Shown(t).want = s.want /\ Shown(t).answer = a
      BY <1>6 DEF Shown
    <2>3. QED
      BY <2>1, <2>2
  <1>10. QED
    BY <1>2, <1>4, <1>8, <1>9, OfficeVisit DEF Office!Leave, Office!Moves, View, Shown

\* Every call leaves once, with what TicketOffice allows: nothing, a refusal, or
\* good tickets of its own and a live pair on its target.
THEOREM ImplementsOffice == Spec => KeepsOffice
  <1>1. ASSUME IInv, [Next]_vars PROVE [Office!Next]_(Office!vars)
    <2>1. CASE Tick
      <3>1. View' = View
        BY <2>1 DEF Tick, View, Shown
      <3>2. Office!Pass
        BY <2>1, <3>1, OfficeVisit DEF Tick, Office!Pass, View, Shown
      <3>3. QED
        BY <3>2 DEF Office!Next
    <2>2. CASE UNCHANGED vars
      BY <2>2 DEF vars, Office!vars
    <2>3. CASE \E c \in Calls : Begin(c) \/ Loop(c) \/ Abort(c)
      <3>1. PICK c \in Calls : Begin(c) \/ Loop(c) \/ Abort(c)
        BY <2>3
      <3>2. CASE Begin(c)
        BY <1>1, <3>2, OfficeBegin DEF Office!Next
      <3>3. CASE Reply(c)
        BY <1>1, <3>3, OfficeReply DEF Office!Next
      <3>4. CASE Shoot(c)
        BY <1>1, <3>4, OfficeShoot
      <3>5. CASE (Loop(c) \/ Abort(c)) /\ ~Shoot(c) /\ ~Reply(c)
        BY <1>1, <3>5, CallCarries, OfficeStays
      <3>6. QED
        BY <3>1, <3>2, <3>3, <3>4, <3>5
    <2>4. QED
      BY <1>1, <2>1, <2>2, <2>3 DEF Next
  <1>2. QED
    BY <1>1, OfficeInit, Invariant, PTL DEF Spec, KeepsOffice, Office!Safe

-----------------------------------------------------------------------------
(* A call winds down. *)

\* A call that would cool down at the end of its round, as it stands.
Hopeful(s) == s.stop = "none" /\ (s.retry \/ s.tries > 0)

\* How far a call is from its next request, or from its end: the cooldown and
\* the models it takes up again, then the models of the round, then a shot.
Bound == Cardinality(Models)
Turns(s) == IF s.phase = "mint" THEN 1 + Cardinality(s.missing) ELSE 0
Rank(s) ==
    CASE s.pc \in {"idle", "done"} -> 0
      [] s.pc = "reply" -> 1
      [] s.pc = "next" -> IF Hopeful(s) THEN 5 + Bound + Turns(s) ELSE 2 + Turns(s)
      [] s.pc = "cool" -> 4 + Bound
      [] s.pc = "verify" -> 7 + 2 * Bound
      [] s.pc = "judge" -> 8 + 2 * Bound
      [] OTHER -> 9 + 2 * Bound

\* A step of a call ends it, spends one of its attempts, or brings it nearer to
\* one or the other; nothing else that happens takes it further away.
WindsDown ==
    \A c \in Calls :
        /\ Loop(c) => \/ call'[c].pc = "done"
                      \/ call'[c].attempts > call[c].attempts
                      \/ call'[c].attempts = call[c].attempts /\ Rank(call'[c]) < Rank(call[c])
        /\ call[c].pc # "idle" /\ ~Loop(c)
              => call'[c].attempts = call[c].attempts /\ Rank(call'[c]) <= Rank(call[c])

LEMMA Counts ==
  /\ Bound \in Nat
  /\ \A S \in SUBSET Models : IsFiniteSet(S) /\ Cardinality(S) \in Nat /\ Cardinality(S) <= Bound
  /\ \A S \in SUBSET Models : \A m \in S : Cardinality(S \ {m}) < Cardinality(S)
  <1>1. Bound \in Nat
    BY FS_CardinalityType DEF Bound
  <1>2. \A S \in SUBSET Models : IsFiniteSet(S) /\ Cardinality(S) \in Nat /\ Cardinality(S) <= Bound
    BY FS_Subset, FS_CardinalityType DEF Bound
  <1>3. \A S \in SUBSET Models : \A m \in S : Cardinality(S \ {m}) < Cardinality(S)
    <2> TAKE S \in SUBSET Models
    <2> TAKE m \in S
    <2>1. Cardinality(S \ {m}) = Cardinality(S) - 1
      BY <1>2, FS_RemoveElement
    <2>2. QED
      BY <1>2, <2>1
  <1>4. QED
    BY <1>1, <1>2, <1>3

LEMMA Ranks ==
  ASSUME NEW s \in CallStates
  PROVE  /\ Rank(s) \in Nat
         /\ s.pc = "done" => Rank(s) = 0
         /\ s.pc = "reply" => Rank(s) = 1
         /\ s.pc = "cool" => Rank(s) = 4 + Bound
         /\ s.pc = "next" => Rank(s) > 1 /\ Rank(s) <= 6 + 2 * Bound
         /\ s.pc = "next" /\ ~Hopeful(s) => Rank(s) = 2 + Turns(s)
         /\ s.pc = "next" /\ Hopeful(s) => Rank(s) = 5 + Bound + Turns(s)
         /\ s.pc = "verify" => Rank(s) = 7 + 2 * Bound
         /\ s.pc = "judge" => Rank(s) = 8 + 2 * Bound
         /\ s.pc = "fly" => Rank(s) = 9 + 2 * Bound
         /\ Turns(s) \in 0 .. (1 + Bound)
  <1>1. s.missing \in SUBSET Models /\ s.pc \in {"idle", "next", "fly", "judge", "verify", "cool", "reply", "done"}
    BY DEF CallStates
  <1>2. Turns(s) \in 0 .. (1 + Bound) /\ Bound \in Nat
    BY <1>1, Counts DEF Turns
  <1>3. CASE s.pc = "next"
    BY <1>2, <1>3 DEF Rank
  <1>4. CASE s.pc # "next"
    BY <1>1, <1>2, <1>4 DEF Rank
  <1>5. QED
    BY <1>2, <1>3, <1>4

\* From a shot that has landed every way leads down.
LEMMA LowerFromShot ==
  ASSUME NEW s \in CallStates, NEW t \in CallStates,
         \/ s.pc \in {"judge", "verify"} /\ t.pc = "next"
         \/ s.pc = "judge" /\ t.pc = "verify"
         \/ s.pc = "fly" /\ t.pc \in {"judge", "reply"}
         \/ s.pc \in {"next", "cool"} /\ t.pc = "reply"
  PROVE  Rank(t) < Rank(s)
  BY Ranks, Counts

LEMMA MovedIs ==
  ASSUME IInv, NEW c \in Calls, NEW t, Put(c, t)
  PROVE  call'[c] = t
  BY DEF IInv, Put

LEMMA StatesOfCall ==
  ASSUME IInv, NEW c \in Calls, Loop(c)
  PROVE  call[c] \in CallStates /\ CallInv(call[c]) /\ call'[c] \in CallStates
  BY LoopStep DEF IInv

\* The shot is over: the call goes on, or is stopped, or waits for the echo.
LEMMA LowerAfterShot ==
  ASSUME IInv, NEW c \in Calls,
         Land(c) \/ Cut(c) \/ Refused(c) \/ Unfit(c) \/ Fit(c) \/ Echo(c) \/ EchoFails(c) \/ Unable(c) \/ CoolCut(c)
  PROVE  Rank(call'[c]) < Rank(call[c])
  <1>0. Loop(c)
    BY DEF Loop
  <1>1. PICK s \in CallStates : s = call[c] /\ CallInv(s) /\ call'[c] \in CallStates
    BY <1>0, StatesOfCall
  <1>2. CASE Land(c)
    <2>1. s.pc = "fly" /\ s.pc \notin {"idle", "done"} /\ (s.phase = "mint" => s.missing # {})
      BY <1>1, <1>2, FlyingMint DEF Land, Flying
    <2>2. PICK a \in Shots :
            IF a.kind = "denied"
            THEN Put(c, [Ended(s) EXCEPT !.answer = [kind |-> "rejected"]])
            ELSE Put(c, IF SeedLost(Adopt(s, a)) THEN Ended(Adopt(s, a))
                        ELSE [Adopt(s, a) EXCEPT !.pc = "judge", !.shot = a])
      BY <1>1, <1>2 DEF Land
    <2>3. PICK u \in CallStates : /\ u = Adopt(s, a) /\ CallInv(u) /\ u.pc = "fly"
                                  /\ u.phase = s.phase /\ u.missing = s.missing
      BY <1>1, <2>1, AdoptInv
    <2>4. PICK e \in CallStates : e = Ended(s) /\ e.pc = "reply"
      BY <1>1, <2>1, EndedInv
    <2>5. PICK f \in CallStates : f = Ended(u) /\ f.pc = "reply"
      BY <2>1, <2>3, EndedInv
    <2>6. [e EXCEPT !.answer = [kind |-> "rejected"]].pc = "reply"
          /\ [u EXCEPT !.pc = "judge", !.shot = a].pc = "judge"
      BY <2>3, <2>4 DEF CallStates
    <2>7. call'[c].pc \in {"judge", "reply"}
      BY <1>1, <2>2, <2>3, <2>4, <2>5, <2>6, MovedIs
    <2>8. QED
      BY <1>1, <2>1, <2>7, LowerFromShot
  <1>3. CASE Cut(c)
    <2>1. s.pc = "fly" /\ Ended(s).pc = "reply"
      BY <1>1, <1>3, FlyingMint, EndedInv DEF Cut, Flying
    <2>2. QED
      BY <1>1, <1>3, <2>1, MovedIs, LowerFromShot DEF Cut
  <1>4. CASE Refused(c)
    <2>1. s.pc = "judge" /\ Flying(s) /\ s.tries < MaxAttempts
      BY <1>1, <1>4 DEF Refused, Flying, CallInv
    <2>2. Aimed(s) \in Models
      BY <1>1, <2>1, AimedIsIn DEF CallInv
    <2>3. PICK u \in CallStates : u = [s EXCEPT !.terminal = s.terminal \cup {Aimed(s)}]
      <3>1. s.terminal \cup {Aimed(s)} \in SUBSET Models
        BY <2>2 DEF CallStates
      <3>2. QED
        BY <3>1, Updates
    <2>4. u.tries < MaxAttempts
      BY <2>1, <2>3 DEF CallStates
    <2>5. Again(u).pc = "next"
      BY <2>4, AgainType
    <2>6. PICK n \in CallStates : n = NextModel(u) /\ n.pc = "next"
      BY NextModelType
    <2>7. [n EXCEPT !.errors = n.errors \cup {Aimed(s)}].pc = "next"
      BY <2>6 DEF CallStates
    <2>8. \/ Put(c, Again(u))
          \/ Put(c, [n EXCEPT !.errors = n.errors \cup {Aimed(s)}])
      BY <1>1, <1>4, <2>3, <2>6 DEF Refused
    <2>9. QED
      BY <1>1, <2>1, <2>5, <2>7, <2>8, MovedIs, LowerFromShot
  <1>5. CASE Unfit(c) \/ EchoFails(c)
    <2>1. s.pc \in {"judge", "verify"} /\ s.tries < MaxAttempts /\ Put(c, Again(s))
      BY <1>1, <1>5 DEF Unfit, EchoFails, CallInv, Flying
    <2>2. QED
      BY <1>1, <2>1, AgainType, MovedIs, LowerFromShot
  <1>6. ASSUME Keep(c), s.pc \in {"judge", "verify"} PROVE Rank(call'[c]) < Rank(call[c])
    <2>1. s.tries < MaxAttempts
      BY <1>1, <1>6 DEF CallInv, Flying
    <2>2. PICK n \in CallStates : n = NextModel(s) /\ n.pc = "next"
      BY NextModelType
    <2>3. \A h : [n EXCEPT !.held[Aimed(s)] = h].pc = "next"
      BY <2>2 DEF CallStates
    <2>4. Put(c, Again(s)) \/ \E h : Put(c, [n EXCEPT !.held[Aimed(s)] = h])
      BY <1>1, <1>6, <2>2 DEF Keep
    <2>5. PICK t : Put(c, t) /\ t.pc = "next"
      <3>1. CASE Put(c, Again(s))
        BY <2>1, <3>1, AgainType
      <3>2. CASE \E h : Put(c, [n EXCEPT !.held[Aimed(s)] = h])
        BY <2>3, <3>2
      <3>3. QED
        BY <2>4, <3>1, <3>2
    <2>6. call'[c] = t
      BY <2>5, MovedIs
    <2>7. QED
      BY <1>1, <1>6, <2>5, <2>6, LowerFromShot
  <1>7. CASE Fit(c) \/ Echo(c)
    <2>1. CASE Keep(c)
      BY <1>1, <1>6, <1>7, <2>1 DEF Fit, Echo
    <2>2. CASE ~Keep(c)
      <3>1. s.pc = "judge" /\ Put(c, [s EXCEPT !.pc = "verify"])
        BY <1>1, <1>7, <2>2 DEF Fit, Echo
      <3>2. [s EXCEPT !.pc = "verify"].pc = "verify"
        BY DEF CallStates
      <3>3. QED
        BY <1>1, <3>1, <3>2, MovedIs, LowerFromShot
    <2>3. QED
      BY <2>1, <2>2
  <1>8. CASE Unable(c)
    <2>1. s.pc = "next" /\ (s.phase = "mint" => s.missing # {})
      BY <1>1, <1>8 DEF Unable, Wanting
    <2>2. PICK e \in CallStates : e = Ended(s) /\ e.pc = "reply"
      BY <1>1, <2>1, EndedInv
    <2>3. \A v : [e EXCEPT !.stop = v].pc = "reply"
      BY <2>2 DEF CallStates
    <2>4. \E v : Put(c, [e EXCEPT !.stop = v])
      BY <1>1, <1>8, <2>2 DEF Unable
    <2>5. QED
      BY <1>1, <2>1, <2>3, <2>4, MovedIs, LowerFromShot
  <1>9. CASE CoolCut(c)
    <2>1. s.pc = "cool" /\ Put(c, [s EXCEPT !.pc = "reply"])
      BY <1>1, <1>9 DEF CoolCut
    <2>2. [s EXCEPT !.pc = "reply"].pc = "reply"
      BY DEF CallStates
    <2>3. QED
      BY <1>1, <2>1, <2>2, MovedIs, LowerFromShot
  <1>10. QED
    BY <1>2, <1>3, <1>4, <1>5, <1>7, <1>8, <1>9

\* A model given up is a turn less; only a stop gives up models of a call that
\* will not go another round.
LEMMA LowerGiveUp ==
  ASSUME IInv, NEW c \in Calls, GiveUp(c)
  PROVE  Rank(call'[c]) < Rank(call[c])
  <1>0. Loop(c)
    BY DEF Loop
  <1>1. PICK s \in CallStates : s = call[c] /\ CallInv(s) /\ call'[c] \in CallStates
    BY <1>0, StatesOfCall
  <1>2. s.pc = "next" /\ s.phase = "mint" /\ s.missing # {} /\ ~Wanting(s)
    BY <1>1 DEF GiveUp
  <1>3. PICK n \in CallStates : /\ n = NextModel(s) /\ n.pc = "next" /\ n.phase = "mint"
                                /\ n.stop = s.stop /\ n.missing = s.missing \ {Aimed(s)}
    BY <1>2, NextModelType
  <1>4. PICK t : t = [n EXCEPT !.errors = n.errors \cup {Aimed(s)}, !.retry = TRUE]
    OBVIOUS
  <1>5. t.pc = "next" /\ t.phase = "mint" /\ t.stop = s.stop /\ t.missing = s.missing \ {Aimed(s)}
    BY <1>3, <1>4 DEF CallStates
  <1>6. call'[c] = t
    BY <1>1, <1>3, <1>4, MovedIs DEF GiveUp
  <1>7. Cardinality(t.missing) < Cardinality(s.missing) /\ Cardinality(s.missing) \in Nat
        /\ Cardinality(t.missing) \in Nat /\ Bound \in Nat
    <2>1. Aimed(s) \in s.missing /\ s.missing \in SUBSET Models /\ t.missing \in SUBSET Models
      BY <1>1, <1>2, <1>5, AimedIsAbsent DEF CallStates
    <2>2. QED
      BY <1>5, <2>1, Counts
  <1>8. Turns(t) < Turns(s)
    BY <1>2, <1>5, <1>7 DEF Turns
  <1>9. ~Hopeful(s) => ~Hopeful(t)
    <2>1. s.stop # "none" \/ s.tries > 0
      BY <1>2 DEF Wanting, CallStates
    <2>2. QED
      BY <1>5, <2>1 DEF Hopeful
  <1>10. QED
    BY <1>1, <1>2, <1>5, <1>6, <1>7, <1>8, <1>9, Ranks

LEMMA LowerModelsDone ==
  ASSUME IInv, NEW c \in Calls, ModelsDone(c)
  PROVE  Rank(call'[c]) < Rank(call[c])
  <1>0. Loop(c)
    BY DEF Loop
  <1>1. PICK s \in CallStates : s = call[c] /\ CallInv(s) /\ call'[c] \in CallStates
    BY <1>0, StatesOfCall
  <1>2. s.pc = "next" /\ s.phase = "mint" /\ s.missing = {}
    BY <1>1 DEF ModelsDone
  <1>3. CASE s.stop # "none"
    <2>1. [s EXCEPT !.pc = "reply"].pc = "reply"
      BY DEF CallStates
    <2>2. call'[c].pc = "reply"
      BY <1>1, <1>3, <2>1, MovedIs DEF ModelsDone
    <2>3. QED
      BY <1>1, <1>2, <2>2, LowerFromShot
  <1>4. CASE s.stop = "none"
    <2>1. PICK t : t = [s EXCEPT !.phase = "renew", !.tries = 0]
      OBVIOUS
    <2>2. t.pc = "next" /\ t.phase = "renew" /\ t.tries = 0 /\ t.stop = s.stop /\ t.retry = s.retry
      BY <1>2, <2>1 DEF CallStates
    <2>3. call'[c] = t
      BY <1>1, <1>4, <2>1, MovedIs DEF ModelsDone
    <2>4. Turns(t) = 0 /\ Turns(s) > 0 /\ Turns(s) \in Nat /\ Bound \in Nat
      BY <1>2, <2>2, Counts DEF Turns, CallStates
    <2>5. Hopeful(t) => Hopeful(s)
      BY <2>2 DEF Hopeful
    <2>6. QED
      BY <1>1, <1>2, <2>2, <2>3, <2>4, <2>5, Ranks
  <1>5. QED
    BY <1>3, <1>4

\* Only a call with something to retry, or that used up its tries, cools down.
LEMMA LowerRoundDone ==
  ASSUME IInv, NEW c \in Calls, RoundDone(c)
  PROVE  Rank(call'[c]) < Rank(call[c])
  <1>0. Loop(c)
    BY DEF Loop
  <1>1. PICK s \in CallStates : s = call[c] /\ CallInv(s) /\ call'[c] \in CallStates
    BY <1>0, StatesOfCall
  <1>2. s.pc = "next" /\ s.phase = "renew" /\ ~Wanting(s)
    BY <1>1 DEF RoundDone
  <1>3. [s EXCEPT !.pc = "reply"].pc = "reply" /\ [s EXCEPT !.pc = "cool"].pc = "cool"
        /\ [s EXCEPT !.pc = "reply", !.stop = "total_attempt_limit"].pc = "reply"
    BY DEF CallStates
  <1>4. CASE Hopeful(s)
    <2>1. call'[c].pc \in {"reply", "cool"}
      BY <1>1, <1>3, MovedIs DEF RoundDone
    <2>2. QED
      BY <1>1, <1>2, <1>4, <2>1, Ranks, Counts
  <1>5. CASE ~Hopeful(s)
    <2>1. s.stop # "none" \/ (~s.retry /\ s.tries = 0)
      BY <1>5 DEF Hopeful, CallStates
    <2>2. s.stop # "none" \/ ~(s.retry \/ (Renewers(s) # {} /\ ~Live(s.want, s.pair)))
      BY <1>2, <2>1 DEF Wanting
    <2>3. Put(c, [s EXCEPT !.pc = "reply"])
      BY <1>1, <2>2 DEF RoundDone
    <2>4. QED
      BY <1>1, <1>2, <1>3, <2>3, MovedIs, LowerFromShot
  <1>6. QED
    BY <1>4, <1>5

LEMMA LowerCooled ==
  ASSUME IInv, NEW c \in Calls, Cooled(c)
  PROVE  Rank(call'[c]) < Rank(call[c])
  <1>0. Loop(c)
    BY DEF Loop
  <1>1. PICK s \in CallStates : s = call[c] /\ CallInv(s) /\ call'[c] \in CallStates
    BY <1>0, StatesOfCall
  <1>2. PICK held, missing :
          Put(c, [s EXCEPT !.pc = "next", !.phase = "mint", !.tries = 0, !.retry = FALSE, !.held = held,
                           !.missing = missing])
    BY <1>1 DEF Cooled
  <1>3. PICK t : t = [s EXCEPT !.pc = "next", !.phase = "mint", !.tries = 0, !.retry = FALSE, !.held = held,
                               !.missing = missing]
    OBVIOUS
  <1>4. t.pc = "next" /\ t.tries = 0 /\ t.retry = FALSE
    BY <1>3 DEF CallStates
  <1>5. call'[c] = t /\ s.pc = "cool"
    BY <1>1, <1>2, <1>3, MovedIs DEF Cooled
  <1>6. ~Hopeful(t)
    BY <1>4 DEF Hopeful
  <1>7. QED
    BY <1>1, <1>4, <1>5, <1>6, Ranks, Counts

\* The budgets, timers and cooldowns of a call never add up to a loop: the part
\* of CallsEnd that needs no fairness.  A call takes at most
\* (MaxTotal + 1) * (10 + 2 * Cardinality(Models)) steps, whatever the upstream
\* and the other calls do.
THEOREM CallsWindDown == Spec => [][WindsDown]_vars
  <1>1. ASSUME IInv, Next, NEW c \in Calls, Loop(c)
        PROVE  \/ call'[c].pc = "done"
               \/ call'[c].attempts > call[c].attempts
               \/ call'[c].attempts = call[c].attempts /\ Rank(call'[c]) < Rank(call[c])
    <2>1. PICK s \in CallStates : s = call[c] /\ CallInv(s)
      BY <1>1, StatesOfCall
    <2>2. CASE Shoot(c)
      <3>1. PICK sent, errors : Put(c, [s EXCEPT !.pc = "fly", !.attempts = s.attempts + 1, !.sent = sent,
                                                 !.errors = errors])
        BY <2>1, <2>2 DEF Shoot
      <3>2. PICK t : t = [s EXCEPT !.pc = "fly", !.attempts = s.attempts + 1, !.sent = sent, !.errors = errors]
        OBVIOUS
      <3>3. t.attempts = s.attempts + 1 /\ s.attempts \in Nat
        BY <3>2 DEF CallStates
      <3>4. call'[c] = t
        BY <1>1, <3>1, <3>2, MovedIs
      <3>5. QED
        BY <2>1, <3>3, <3>4
    <2>3. CASE Reply(c)
      <3>1. PICK a : Put(c, Over(s, a))
        BY <2>1, <2>3 DEF Reply
      <3>2. PICK f \in CallStates : f = Fresh(s.want)
        BY <2>1, <2>3, FreshType DEF Reply, CallInv
      <3>3. Over(s, a).pc = "done"
        BY <3>2 DEF Over, CallStates
      <3>4. QED
        BY <1>1, <3>1, <3>3, MovedIs
    <2>4. CASE ~Shoot(c) /\ ~Reply(c)
      <3>1. call'[c].attempts = call[c].attempts
        BY <1>1, <2>4, CallCarries, MovedIs DEF Carries
      <3>2. Rank(call'[c]) < Rank(call[c])
        BY <1>1, <2>4, LowerAfterShot, LowerGiveUp, LowerModelsDone, LowerRoundDone, LowerCooled DEF Loop
      <3>3. QED
        BY <3>1, <3>2
    <2>5. QED
      BY <2>2, <2>3, <2>4
  <1>2. ASSUME IInv, Next, NEW c \in Calls, call[c].pc # "idle", ~Loop(c)
        PROVE  call'[c].attempts = call[c].attempts /\ Rank(call'[c]) <= Rank(call[c])
    <2>1. PICK s \in CallStates : s = call[c] /\ CallInv(s)
      BY <1>2, Parts
    <2>2. CASE Abort(c)
      <3>1. PICK why : Put(c, [s EXCEPT !.stop = why])
        BY <2>1, <2>2 DEF Abort
      <3>2. PICK t : t = [s EXCEPT !.stop = why]
        OBVIOUS
      <3>3. t.pc = s.pc /\ t.attempts = s.attempts
        BY <3>2 DEF CallStates
      <3>4. s.pc \notin {"next", "judge", "reply"}
        BY <2>1, <2>2 DEF Abort, Quiet
      <3>5. Rank(t) = Rank(s)
        BY <3>3, <3>4 DEF Rank
      <3>6. call'[c] = t /\ Rank(s) \in Nat
        BY <1>2, <2>1, <3>1, <3>2, MovedIs, Ranks
      <3>7. QED
        BY <2>1, <3>3, <3>5, <3>6
    <2>3. CASE ~Abort(c)
      <3>1. CASE Tick
        BY <2>1, <3>1, Ranks DEF Tick
      <3>2. CASE \E d \in Calls : Begin(d) \/ Loop(d) \/ Abort(d)
        <4>1. PICK d \in Calls : Begin(d) \/ Loop(d) \/ Abort(d)
          BY <3>2
        <4>2. d # c
          BY <1>2, <2>1, <2>3, <4>1 DEF Begin
        <4>3. call'[c] = call[c]
          <5>1. ASSUME NEW t, Put(d, t) PROVE call'[c] = call[c]
            BY <1>2, <4>2, <5>1 DEF Put, IInv
          <5>2. CASE Begin(d)
            BY <5>1, <5>2 DEF Begin
          <5>3. CASE Shoot(d) \/ Reply(d)
            BY <5>1, <5>3 DEF Shoot, Reply
          <5>4. CASE (Loop(d) \/ Abort(d)) /\ ~Shoot(d) /\ ~Reply(d)
            BY <1>2, <5>1, <5>4, CallCarries DEF Carries
          <5>5. QED
            BY <4>1, <5>2, <5>3, <5>4
        <4>4. QED
          BY <2>1, <4>3, Ranks
      <3>3. QED
        BY <1>2, <3>1, <3>2 DEF Next
    <2>4. QED
      BY <2>2, <2>3
  <1>3. IInv /\ [Next]_vars => [WindsDown]_vars
    BY <1>1, <1>2 DEF WindsDown
  <1>4. QED
    BY <1>3, Invariant, PTL DEF Spec

================================================================================
