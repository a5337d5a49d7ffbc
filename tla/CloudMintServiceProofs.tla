------------------------ MODULE CloudMintServiceProofs ------------------------
(***************************************************************************)
(* Proofs about CloudMintService, for every value of its constants: types, *)
(* the slots of a service, its outcomes, and that it implements TicketGate.*)
(***************************************************************************)
EXTENDS CloudMintService, FiniteSetTheorems, TLAPS

USE MintConstants

-----------------------------------------------------------------------------
(* The records. *)

LEMMA OutcomeType ==
  /\ Failed \in Outcome /\ ~Failed.ok /\ Uncached = Failed
  /\ \A u \in Nat : [Failed EXCEPT !.until = u] \in Outcome /\ ~[Failed EXCEPT !.until = u].ok
  BY DEF Outcome, Failed, Uncached

LEMMA JobType ==
  /\ NoJob \in Job /\ NoJob.pc = "none"
  /\ \A d \in Nat : /\ Calling(d) \in Job /\ Calling(d).pc = "calling"
                    /\ Calling(d).res = Failed
  /\ \A j \in Job, e \in Outcome : /\ Back(j, e) \in Job /\ Back(j, e).pc = "back"
                                   /\ Back(j, e).res = e
  BY OutcomeType DEF Job, NoJob, Calling, Back

LEMMA OutType ==
  /\ \A kind \in {"nothing", "refused", "bare"} : Plain(kind) \in Out /\ Plain(kind).kind = kind
  /\ \A e \in Outcome : e.work \in Works => With(e) \in Out
  BY DEF Out, Plain, With, Outcome

LEMMA FirstService == MaxServices > 0 => 1 \in Services
  BY DEF Services

LEMMA IdleType ==
  /\ MaxServices > 0 => Idle \in Handler
  /\ Idle.pc = "idle" /\ Idle.work = NoWork /\ Idle.out = Plain("nothing")
  <1>1. Plain("nothing") \in Out /\ Failed \in Outcome
    BY OutcomeType, OutType
  <1>2. QED
    BY <1>1, FirstService DEF Idle, Handler

LEMMA AskedType ==
  ASSUME MaxServices > 0, NEW w \in Works
  PROVE  /\ Asked(w) \in Handler /\ Asked(w).pc = "asked"
         /\ Asked(w).work = w /\ Asked(w).out = Plain("nothing")
  BY IdleType DEF Idle, Handler, Asked

LEMMA GotType ==
  ASSUME MaxServices > 0, NEW h \in Handler, NEW e \in Outcome
  PROVE  /\ Got(h, e) \in Handler /\ Got(h, e).pc = "got" /\ Got(h, e).work = h.work
         /\ Got(h, e).res = e /\ Got(h, e).out = Plain("nothing")
  BY IdleType DEF Idle, Handler, Got

LEMMA BoundType ==
  ASSUME NEW h \in Handler, NEW s \in Services
  PROVE  /\ Bound(h, s) \in Handler /\ Bound(h, s).pc = "bound"
         /\ Bound(h, s).work = h.work /\ Bound(h, s).out = h.out
  BY DEF Handler, Bound

LEMMA WaitingType ==
  ASSUME NEW h \in Handler, now \in Nat
  PROVE  /\ Waiting(h) \in Handler /\ Waiting(h).pc = "waiting" /\ ~Waiting(h).done
         /\ Waiting(h).work = h.work /\ Waiting(h).service = h.service
         /\ Waiting(h).out = h.out
  BY DEF Handler, Waiting

LEMMA WokenType ==
  ASSUME NEW h \in Handler, NEW e \in Outcome
  PROVE  /\ Woken(h, e) \in Handler /\ Woken(h, e).pc = h.pc /\ Woken(h, e).done
         /\ Woken(h, e).work = h.work /\ Woken(h, e).res = e /\ Woken(h, e).out = h.out
  BY DEF Handler, Woken

LEMMA LeftType ==
  ASSUME MaxServices > 0, NEW o \in Out
  PROVE  /\ Left(o) \in Handler /\ Left(o).pc = "left" /\ Left(o).work = NoWork
         /\ Left(o).out = o
  BY IdleType DEF Idle, Handler, Left

-----------------------------------------------------------------------------
(* The inductive invariant. *)

\* A good outcome is a ticket minted for work w.
Own(e, w) == e.ok => e.work = w /\ [work |-> w, until |-> e.until] \in minted

Genuine ==
    \A s \in Services, w \in Works :
        /\ Own(cache[s][w], w)
        /\ job[s][w].res.ok => job[s][w].res.work = w

\* What a handler knows at its program point; a waiting one knows that the job
\* it waits for is still to come.
HandlerInv(h) ==
    /\ h.pc = "idle" => h.work = NoWork /\ h.out = Plain("nothing")
    /\ h.pc = "left" => h.work = NoWork
    /\ h.pc \in {"asked", "bound", "waiting", "got"}
         => h.work \in Works /\ h.out = Plain("nothing")
    /\ h.pc = "waiting" /\ ~h.done => h.work \in Jobs(h.service)
    /\ h.pc = "got" \/ (h.pc = "waiting" /\ h.done) => Own(h.res, h.work)

Handlers == \A r \in Requests : HandlerInv(req[r])

\* The slots of a service with these jobs, cached works and busy groups.
SlotsOf(jobs, cached, groups) ==
    /\ IsFiniteSet(jobs) /\ IsFiniteSet(cached)
    /\ groups = {Group[w] : w \in jobs}
    /\ \A v, w \in jobs : Group[v] = Group[w] => v = w
    /\ Cardinality(jobs) <= WorkersMax
    /\ Cardinality(cached) <= CacheMax

Slots == \A s \in Services : SlotsOf(Jobs(s), Cached(s), busy[s])

IInv == TypeOK /\ Slots /\ Handlers /\ Genuine

LEMMA InitInv == Init => IInv
  <1> SUFFICES ASSUME Init PROVE IInv
    OBVIOUS
  <1>1. TypeOK
    <2>1. 1 \in Services /\ 1 \in 1..MaxTime /\ MaxServices > 0
      BY DEF Services
    <2>2. Idle \in Handler /\ NoJob \in Job /\ Uncached \in Outcome
      BY <2>1, OutcomeType, JobType, IdleType
    <2>3. QED
      BY <2>1, <2>2 DEF Init, TypeOK
  <1>2. \A s \in Services : Jobs(s) = {} /\ Cached(s) = {}
    BY JobType DEF Init, Jobs, Cached
  <1>3. Slots
    <2>1. IsFiniteSet({}) /\ Cardinality({}) = 0
      BY FS_EmptySet
    <2>2. \A s \in Services : busy[s] = {}
      BY DEF Init
    <2>3. QED
      BY <1>2, <2>1, <2>2 DEF Slots, SlotsOf
  <1>4. Handlers
    BY IdleType DEF Init, Handlers, HandlerInv
  <1>5. Genuine
    BY OutcomeType DEF Init, Genuine, Own, NoJob
  <1>6. QED
    BY <1>1, <1>3, <1>4, <1>5 DEF IInv

\* More jobs and more minted tickets leave what a handler knows true.
LEMMA HandlerGrows ==
  ASSUME NEW h \in Handler, HandlerInv(h), minted \subseteq minted',
         \A t \in Services : Jobs(t) \subseteq Jobs(t)'
  PROVE  HandlerInv(h)'
  <1>1. h.service \in Services
    BY DEF Handler
  <1>2. QED
    BY <1>1 DEF HandlerInv, Own

LEMMA SlotsStay ==
  ASSUME Slots, busy' = busy, \A t \in Services : Jobs(t)' = Jobs(t) /\ Cached(t)' = Cached(t)
  PROVE  Slots'
  BY DEF Slots

\* A step of one handler that touches nothing else.
LEMMA HandlerStep ==
  ASSUME IInv, NEW r \in Requests, NEW h \in Handler, HandlerInv(h),
         req' = [req EXCEPT ![r] = h],
         UNCHANGED <<now, current, closed, cache, job, busy, minted, landed>>
  PROVE  IInv'
  <1>1. TypeOK'
    BY DEF IInv, TypeOK
  <1>2. Slots'
    <2>1. \A t \in Services : Jobs(t)' = Jobs(t) /\ Cached(t)' = Cached(t)
      BY DEF Jobs, Cached
    <2>2. QED
      BY <2>1, SlotsStay DEF IInv
  <1>3. Handlers'
    <2>1. \A q \in Requests : req'[q] = IF q = r THEN h ELSE req[q]
      BY DEF IInv, TypeOK
    <2>2. \A q \in Requests : HandlerInv(req'[q])
      BY <2>1 DEF IInv, Handlers
    <2>3. QED
      BY <2>2 DEF Handlers, HandlerInv, Jobs, Own
  <1>4. Genuine'
    BY DEF IInv, Genuine, Own
  <1>5. QED
    BY <1>1, <1>2, <1>3, <1>4 DEF IInv

\* What the invariant says about one handler.
LEMMA HandlerParts ==
  ASSUME IInv, NEW r \in Requests
  PROVE  /\ req[r] \in Handler /\ HandlerInv(req[r]) /\ now \in Nat /\ MaxServices > 0
         /\ req[r].pc # "idle" /\ req[r].pc # "left"
              => req[r].work \in Works /\ req[r].out = Plain("nothing")
         /\ req[r].service \in Services /\ req[r].res \in Outcome
  <1>1. req[r] \in Handler /\ HandlerInv(req[r]) /\ now \in Nat /\ MaxServices > 0
    BY DEF IInv, TypeOK, Handlers, Services
  <1>2. QED
    BY <1>1 DEF Handler, HandlerInv

\* Asking, binding, starting without a job and leaving.
LEMMA AskStep ==
  ASSUME IInv, NEW r \in Requests, NEW w \in Works, Ask(r, w)
  PROVE  IInv'
  <1>1. Asked(w) \in Handler /\ HandlerInv(Asked(w))
    BY HandlerParts, AskedType DEF HandlerInv
  <1>2. QED
    BY <1>1, HandlerStep DEF Ask

LEMMA GotStep ==
  ASSUME IInv, NEW r \in Requests, NEW e \in Outcome, Own(e, req[r].work),
         req[r].pc \in {"asked", "bound", "waiting", "got"},
         req' = [req EXCEPT ![r] = Got(@, e)],
         UNCHANGED <<now, current, closed, cache, job, busy, minted, landed>>
  PROVE  IInv'
  <1>1. req[r] \in Handler /\ req[r].work \in Works /\ MaxServices > 0
    BY HandlerParts
  <1>2. Got(req[r], e) \in Handler /\ HandlerInv(Got(req[r], e))
    BY <1>1, GotType DEF HandlerInv
  <1>3. QED
    BY <1>2, HandlerStep

LEMMA WaitStep ==
  ASSUME IInv, NEW r \in Requests, req[r].pc = "bound",
         req[r].work \in Jobs(req[r].service), req' = [req EXCEPT ![r] = Waiting(@)],
         UNCHANGED <<now, current, closed, cache, job, busy, minted, landed>>
  PROVE  IInv'
  <1>1. req[r] \in Handler /\ req[r].work \in Works /\ req[r].out = Plain("nothing") /\ now \in Nat
    BY HandlerParts
  <1>2. Waiting(req[r]) \in Handler /\ HandlerInv(Waiting(req[r]))
    BY <1>1, WaitingType DEF HandlerInv
  <1>3. QED
    BY <1>2, HandlerStep

LEMMA AnswerStep ==
  ASSUME IInv, NEW r \in Requests, Answer(r)
  PROVE  IInv'
  <1>1. req[r].res \in Outcome /\ req[r].work \in Works /\ Own(req[r].res, req[r].work)
        /\ MaxServices > 0
    BY HandlerParts DEF Answer, HandlerInv
  <1>2. PICK o \in Out : req' = [req EXCEPT ![r] = Left(o)]
    <2>1. CASE req[r].res.ok /\ req[r].res.until > now + Margin
      BY <1>1, <2>1, OutType DEF Answer, Own
    <2>2. CASE ~(req[r].res.ok /\ req[r].res.until > now + Margin)
      BY <2>2, OutType DEF Answer
    <2>3. QED
      BY <2>1, <2>2
  <1>3. Left(o) \in Handler /\ HandlerInv(Left(o))
    BY <1>1, LeftType DEF HandlerInv
  <1>4. QED
    BY <1>2, <1>3, HandlerStep DEF Answer

LEMMA UnsupportedStep ==
  ASSUME IInv, NEW r \in Requests, Unsupported(r)
  PROVE  IInv'
  <1>1. PICK o \in Out : o = Plain("refused")
    BY OutType
  <1>2. MaxServices > 0
    BY HandlerParts
  <1>3. Left(o) \in Handler /\ HandlerInv(Left(o))
    BY <1>2, LeftType DEF HandlerInv
  <1>4. QED
    BY <1>1, <1>3, HandlerStep DEF Unsupported

LEMMA BindStep ==
  ASSUME IInv, NEW r \in Requests, Bind(r)
  PROVE  IInv'
  <1>1. /\ req[r] \in Handler /\ req[r].work \in Works /\ req[r].out = Plain("nothing")
        /\ current \in Services
    BY HandlerParts DEF Bind, IInv, TypeOK
  <1>2. Bound(req[r], current) \in Handler /\ HandlerInv(Bound(req[r], current))
    BY <1>1, BoundType DEF HandlerInv
  <1>3. QED
    BY <1>1, <1>2, HandlerStep DEF Bind

-----------------------------------------------------------------------------
(* Steps on a job. *)

\* The job of w becomes j.
Put(s, w, j) == job' = [job EXCEPT ![s][w] = j]

\* What a new value of the job of w does to the jobs of the services.
LEMMA JobUpdate ==
  ASSUME TypeOK, NEW s \in Services, NEW w \in Works, NEW j \in Job, Put(s, w, j)
  PROVE  /\ job' \in [Services -> [Works -> Job]]
         /\ job'[s][w] = j
         /\ \A t \in Services, v \in Works : t # s \/ v # w => job'[t][v] = job[t][v]
         /\ \A t \in Services \ {s} : Jobs(t)' = Jobs(t)
         /\ j.pc = "none" => Jobs(s)' = Jobs(s) \ {w}
         /\ j.pc # "none" => Jobs(s)' = Jobs(s) \cup {w}
  <1>1. job \in [Services -> [Works -> Job]]
    BY DEF TypeOK
  <1>2. job' \in [Services -> [Works -> Job]]
    BY <1>1 DEF Put
  <1>3. job'[s][w] = j
    BY <1>1 DEF Put
  <1>4. \A t \in Services, v \in Works : t # s \/ v # w => job'[t][v] = job[t][v]
    BY <1>1 DEF Put
  <1>5. \A t \in Services \ {s} : Jobs(t)' = Jobs(t)
    BY <1>4 DEF Jobs
  <1>6. /\ j.pc = "none" => Jobs(s)' = Jobs(s) \ {w}
        /\ j.pc # "none" => Jobs(s)' = Jobs(s) \cup {w}
    BY <1>3, <1>4 DEF Jobs
  <1>7. QED
    BY <1>2, <1>3, <1>4, <1>5, <1>6

LEMMA StartJobStep ==
  ASSUME IInv, NEW r \in Requests, StartJob(r)
  PROVE  IInv'
  <1>0. PICK s \in Services, w \in Works : s = req[r].service /\ w = req[r].work
    BY HandlerParts DEF StartJob
  <1>1. /\ req[r] \in Handler /\ now \in Nat /\ req[r].out = Plain("nothing") /\ TypeOK
    BY HandlerParts DEF StartJob, IInv
  <1>3. PICK j \in Job : j = Calling(now + Timeout) /\ j.pc # "none" /\ ~j.res.ok
    BY <1>1, JobType, OutcomeType
  <1>4. PICK h \in Handler : /\ h = Waiting(req[r]) /\ h.pc = "waiting" /\ ~h.done
                            /\ h.work = w /\ h.service = s /\ h.out = Plain("nothing")
    BY <1>0, <1>1, WaitingType
  <1>2. /\ w \notin Jobs(s) /\ ~Full(s, w) /\ job' = [job EXCEPT ![s][w] = j]
        /\ busy' = [busy EXCEPT ![s] = @ \cup {Group[w]}]
        /\ req' = [req EXCEPT ![r] = h]
        /\ UNCHANGED <<now, current, closed, cache, minted, landed>>
    BY <1>0, <1>3, <1>4 DEF StartJob
  <1>5. /\ job' \in [Services -> [Works -> Job]]
        /\ job'[s][w] = j
        /\ \A t \in Services, v \in Works : t # s \/ v # w => job'[t][v] = job[t][v]
        /\ \A t \in Services \ {s} : Jobs(t)' = Jobs(t)
        /\ Jobs(s)' = Jobs(s) \cup {w}
    <2>1. Put(s, w, j)
      BY <1>2 DEF Put
    <2>2. QED
      BY <1>1, <1>3, <2>1, JobUpdate
  <1>6. \A t \in Services : busy'[t] = IF t = s THEN busy[s] \cup {Group[w]} ELSE busy[t]
    BY <1>1, <1>2 DEF TypeOK
  <1>7. TypeOK'
    <2>1. req' \in [Requests -> Handler]
      BY <1>1, <1>2, <1>4 DEF TypeOK
    <2>2. busy' \in [Services -> SUBSET {Group[v] : v \in Works}]
      BY <1>1, <1>2 DEF TypeOK
    <2>3. QED
      BY <1>1, <1>2, <1>5, <2>1, <2>2 DEF TypeOK
  <1>8. Slots'
    <2>1. \A t \in Services : Cached(t)' = Cached(t)
      BY <1>2 DEF Cached
    <2>2. SlotsOf(Jobs(s), Cached(s), busy[s])
      BY DEF IInv, Slots
    <2>3. IsFiniteSet(Jobs(s)) /\ Cardinality(Jobs(s)) \in Nat
      BY <2>2, FS_CardinalityType DEF SlotsOf
    <2>4. /\ IsFiniteSet(Jobs(s) \cup {w})
          /\ Cardinality(Jobs(s) \cup {w}) = Cardinality(Jobs(s)) + 1
      BY <1>2, <2>3, FS_AddElement
    <2>5. Cardinality(Jobs(s) \cup {w}) <= WorkersMax /\ Group[w] \notin busy[s]
      BY <1>2, <2>3, <2>4 DEF Full
    <2>6. SlotsOf(Jobs(s) \cup {w}, Cached(s), busy[s] \cup {Group[w]})
      BY <2>2, <2>4, <2>5 DEF SlotsOf
    <2>7. ASSUME NEW t \in Services PROVE SlotsOf(Jobs(t)', Cached(t)', busy'[t])
      <3>1. CASE t = s
        BY <1>5, <1>6, <2>1, <2>6, <3>1
      <3>2. CASE t # s
        BY <1>5, <1>6, <2>1, <3>2 DEF IInv, Slots
      <3>3. QED
        BY <3>1, <3>2
    <2>8. QED
      BY <2>7 DEF Slots
  <1>9. Handlers'
    <2>1. \A q \in Requests : req'[q] = IF q = r THEN h ELSE req[q]
      BY <1>1, <1>2 DEF TypeOK
    <2>2. HandlerInv(h)'
      BY <1>1, <1>4, <1>5 DEF HandlerInv
    <2>3. ASSUME NEW q \in Requests, q # r PROVE HandlerInv(req[q])'
      <3>1. PICK g \in Handler : g = req[q] /\ g = req'[q] /\ HandlerInv(g)
        BY <2>1, <2>3 DEF IInv, Handlers, TypeOK
      <3>2. \A t \in Services : Jobs(t) \subseteq Jobs(t)'
        BY <1>5
      <3>3. HandlerInv(g)'
        BY <1>2, <3>1, <3>2, HandlerGrows
      <3>4. QED
        BY <3>1, <3>3 DEF HandlerInv, Own
    <2>4. QED
      BY <2>1, <2>2, <2>3 DEF Handlers
  <1>10. Genuine'
    BY <1>1, <1>2, <1>3, <1>5 DEF IInv, Genuine, Own
  <1>11. QED
    BY <1>7, <1>8, <1>9, <1>10 DEF IInv

\* A job that has an answer is still a job.
LEMMA RelayStep ==
  ASSUME IInv, NEW s \in Services, NEW w \in Works, NEW e \in Outcome,
         e.ok => e.work = w, RelayAnswers(s, w, e)
  PROVE  IInv'
  <1>1. TypeOK /\ job[s][w] \in Job /\ w \in Jobs(s)
    BY DEF IInv, TypeOK, RelayAnswers, Jobs
  <1>3. PICK j \in Job : j = Back(job[s][w], e) /\ j.pc # "none" /\ j.res = e
    BY <1>1, JobType
  <1>2. Put(s, w, j) /\ UNCHANGED <<now, current, closed, cache, busy, req, minted, landed>>
    BY <1>3 DEF RelayAnswers, Put
  <1>4. /\ job' \in [Services -> [Works -> Job]]
        /\ job'[s][w] = j
        /\ \A t \in Services, v \in Works : t # s \/ v # w => job'[t][v] = job[t][v]
        /\ \A t \in Services : Jobs(t)' = Jobs(t)
    <2>1. Jobs(s) \cup {w} = Jobs(s)
      BY <1>1
    <2>2. \A t \in Services \ {s} : Jobs(t)' = Jobs(t)
      BY <1>1, <1>2, <1>3, JobUpdate
    <2>3. Jobs(s)' = Jobs(s) \cup {w}
      BY <1>1, <1>2, <1>3, JobUpdate
    <2>4. \A t \in Services : Jobs(t)' = Jobs(t)
      BY <2>1, <2>2, <2>3
    <2>5. /\ job' \in [Services -> [Works -> Job]]
          /\ job'[s][w] = j
          /\ \A t \in Services, v \in Works : t # s \/ v # w => job'[t][v] = job[t][v]
      BY <1>1, <1>2, JobUpdate
    <2>6. QED
      BY <2>4, <2>5
  <1>5. TypeOK'
    BY <1>1, <1>2, <1>4 DEF TypeOK
  <1>6. Slots'
    <2>1. \A t \in Services : Cached(t)' = Cached(t)
      BY <1>2 DEF Cached
    <2>2. QED
      BY <1>2, <1>4, <2>1, SlotsStay DEF IInv
  <1>7. Handlers'
    BY <1>1, <1>2, <1>4 DEF IInv, Handlers, HandlerInv, Own, TypeOK, Handler
  <1>8. Genuine'
    BY <1>2, <1>3, <1>4 DEF IInv, Genuine, Own
  <1>9. QED
    BY <1>5, <1>6, <1>7, <1>8 DEF IInv

\* Steps that touch neither jobs nor handlers.
LEMMA ServiceStep ==
  ASSUME IInv, Reset \/ Close \/ Tick
  PROVE  IInv'
  <1>1. UNCHANGED <<cache, job, busy, req, minted, landed>>
    BY DEF Reset, Close, Tick
  <1>2. TypeOK'
    <2>1. CASE Reset
      BY <1>1, <2>1 DEF IInv, TypeOK, Reset, Services
    <2>2. CASE Close
      BY <1>1, <2>2 DEF IInv, TypeOK, Close
    <2>3. CASE Tick
      <3>1. now' \in 1..MaxTime
        BY <2>3 DEF IInv, TypeOK, Tick
      <3>2. QED
        BY <1>1, <2>3, <3>1 DEF IInv, TypeOK, Tick
    <2>4. QED
      BY <2>1, <2>2, <2>3
  <1>3. \A t \in Services : Jobs(t)' = Jobs(t) /\ Cached(t)' = Cached(t)
    BY <1>1 DEF Jobs, Cached
  <1>4. Slots'
    BY <1>1, <1>3, SlotsStay DEF IInv
  <1>5. Handlers' /\ Genuine'
    BY <1>1 DEF IInv, Handlers, HandlerInv, Genuine, Own, Jobs
  <1>6. QED
    BY <1>2, <1>4, <1>5 DEF IInv

-----------------------------------------------------------------------------
(* The end of a job. *)

LEMMA LandedType ==
  ASSUME TypeOK, NEW s \in Services, NEW w \in Works, NEW e \in Outcome
  PROVE  /\ Landed(s, w, e) \in [Works -> Outcome]
         /\ [landed EXCEPT ![s] = Landed(s, w, e)] \in [Services -> [Works -> Outcome]]
  <1>1. landed \in [Services -> [Works -> Outcome]] /\ Uncached \in Outcome
    BY OutcomeType DEF TypeOK
  <1>2. Landed(s, w, e) \in [Works -> Outcome]
    BY <1>1 DEF Landed
  <1>3. QED
    BY <1>1, <1>2

\* The works that a cache has an outcome for.
Used(c) == {v \in Works : c[v] # Uncached}

\* A cache with one more outcome never outgrows its bound.
LEMMA StoredBound ==
  ASSUME NEW c \in [Works -> Outcome], NEW w \in Works, NEW e \in Outcome,
         IsFiniteSet(Used(c)),
         Cardinality(Used(c)) <= CacheMax,
         NEW d \in Stored(c, w, e)
  PROVE  /\ d \in [Works -> Outcome]
         /\ d[w] = e
         /\ \A v \in Works : v # w => d[v] = c[v] \/ d[v] = Uncached
         /\ IsFiniteSet(Used(d))
         /\ Cardinality(Used(d)) <= CacheMax
  <1>1. PICK k \in [Works -> Outcome] :
           /\ d = [k EXCEPT ![w] = e]
           /\ \A v \in Works : k[v] = c[v] \/ k[v] = Uncached
           /\ \/ k = c /\ ~(Cardinality(Used(c)) >= CacheMax)
              \/ \E v \in Used(c) : k = [c EXCEPT ![v] = Uncached]
    <2>1. CASE Cardinality(Used(c)) >= CacheMax
      <3>1. d \in {[f EXCEPT ![w] = e] : f \in {[c EXCEPT ![v] = Uncached] : v \in Used(c)}}
        BY <2>1 DEF Stored, Used
      <3>2. PICK f \in {[c EXCEPT ![v] = Uncached] : v \in Used(c)} : d = [f EXCEPT ![w] = e]
        BY <3>1
      <3>3. PICK v \in Used(c) : f = [c EXCEPT ![v] = Uncached]
        BY <3>2
      <3>4. QED
        BY <3>2, <3>3, OutcomeType DEF Used
    <2>2. CASE ~(Cardinality(Used(c)) >= CacheMax)
      BY <2>2 DEF Stored, Used
    <2>3. QED
      BY <2>1, <2>2
  <1>2. /\ d \in [Works -> Outcome] /\ d[w] = e
        /\ \A v \in Works : v # w => d[v] = k[v]
    BY <1>1
  <1>3. IsFiniteSet(Used(c)) /\ Cardinality(Used(c)) \in Nat /\ Cardinality(Used(c)) <= CacheMax
    BY FS_CardinalityType
  <1>4. IsFiniteSet(Used(k)) /\ Cardinality(Used(k)) \in Nat /\ Cardinality(Used(k)) < CacheMax
    <2>1. CASE k = c /\ ~(Cardinality(Used(c)) >= CacheMax)
      <3>1. Used(k) = Used(c)
        BY <2>1
      <3>2. QED
        BY <1>3, <2>1, <3>1
    <2>2. ASSUME NEW v \in Used(c), k = [c EXCEPT ![v] = Uncached]
          PROVE  IsFiniteSet(Used(k)) /\ Cardinality(Used(k)) \in Nat
                 /\ Cardinality(Used(k)) < CacheMax
      <3>1. Used(k) = Used(c) \ {v}
        BY <2>2 DEF Used
      <3>2. v \in Used(c)
        BY <2>2
      <3>3. IsFiniteSet(Used(c) \ {v})
            /\ Cardinality(Used(c) \ {v}) = Cardinality(Used(c)) - 1
        BY <1>3, <3>2, FS_RemoveElement
      <3>4. Cardinality(Used(c) \ {v}) \in Nat
        BY <3>3, FS_CardinalityType
      <3>5. QED
        BY <1>3, <3>1, <3>3, <3>4
    <2>3. QED
      BY <1>1, <2>1, <2>2
  <1>5. Used(d) \subseteq Used(k) \cup {w}
    BY <1>2 DEF Used
  <1>6. IsFiniteSet(Used(d)) /\ Cardinality(Used(d)) <= CacheMax
    <2>1. IsFiniteSet(Used(k) \cup {w})
          /\ Cardinality(Used(k) \cup {w}) <= Cardinality(Used(k)) + 1
          /\ Cardinality(Used(k) \cup {w}) \in Nat
      <3>1. CASE w \in Used(k)
        BY <1>4, <3>1, FS_AddElement
      <3>2. CASE w \notin Used(k)
        <4>1. /\ IsFiniteSet(Used(k) \cup {w})
              /\ Cardinality(Used(k) \cup {w}) = Cardinality(Used(k)) + 1
          BY <1>4, <3>2, FS_AddElement
        <4>2. QED
          BY <1>4, <4>1
      <3>3. QED
        BY <3>1, <3>2
    <2>2. IsFiniteSet(Used(d)) /\ Cardinality(Used(d)) <= Cardinality(Used(k) \cup {w})
          /\ Cardinality(Used(d)) \in Nat
      BY <1>5, <2>1, FS_Subset, FS_CardinalityType
    <2>3. QED
      BY <1>4, <2>1, <2>2
  <1>7. QED
    BY <1>1, <1>2, <1>6

LEMMA FinishStep ==
  ASSUME IInv, NEW s \in Services, NEW w \in Works, Finish(s, w)
  PROVE  IInv'
  <1>1. /\ TypeOK /\ job[s][w] \in Job /\ w \in Jobs(s) /\ cache[s] \in [Works -> Outcome]
        /\ now \in Nat /\ SlotsOf(Jobs(s), Cached(s), busy[s])
    <2>1. TypeOK /\ job[s][w] \in Job /\ cache[s] \in [Works -> Outcome] /\ now \in Nat
      BY DEF IInv, TypeOK
    <2>2. w \in Jobs(s)
      BY DEF Finish, Jobs
    <2>3. SlotsOf(Jobs(s), Cached(s), busy[s])
      BY DEF IInv, Slots
    <2>4. QED
      BY <2>1, <2>2, <2>3
  <1>2. PICK res \in Outcome :
           /\ res = (IF ContextDone(s, w) THEN Failed ELSE job[s][w].res)
           /\ res.ok => res.work = w
    BY <1>1, OutcomeType DEF IInv, Genuine, Job
  <1>3. PICK e \in Outcome :
           /\ e = (IF res.ok THEN res ELSE [Failed EXCEPT !.until = now + Cooldown])
           /\ e.ok => e = res
    <2>1. [Failed EXCEPT !.until = now + Cooldown] \in Outcome
          /\ ~[Failed EXCEPT !.until = now + Cooldown].ok
      BY <1>1, OutcomeType
    <2>2. QED
      BY <2>1
  <1>4. /\ Put(s, w, NoJob) /\ UNCHANGED <<now, current, closed>>
        /\ busy' = [busy EXCEPT ![s] = @ \ {Group[w]}]
        /\ \/ cache' = cache
           \/ \E c \in Stored(cache[s], w, e) : cache' = [cache EXCEPT ![s] = c]
        /\ minted' = IF res.ok THEN minted \cup {[work |-> w, until |-> res.until]}
                               ELSE minted
        /\ landed' = [landed EXCEPT ![s] = Landed(s, w, e)]
    BY <1>2, <1>3 DEF Finish, Put
  <1>5. req' = [r \in Requests |->
                  IF /\ req[r].pc = "waiting" /\ ~req[r].done
                     /\ req[r].service = s /\ req[r].work = w
                  THEN Woken(req[r], res) ELSE req[r]]
    BY <1>2 DEF Finish
  <1>6. minted' \subseteq [work: Works, until: Nat] /\ minted \subseteq minted'
        /\ (res.ok => [work |-> w, until |-> res.until] \in minted')
    BY <1>1, <1>4 DEF TypeOK, Outcome
  <1>7. /\ job' \in [Services -> [Works -> Job]]
        /\ job'[s][w] = NoJob
        /\ \A t \in Services, v \in Works : t # s \/ v # w => job'[t][v] = job[t][v]
        /\ \A t \in Services \ {s} : Jobs(t)' = Jobs(t)
        /\ Jobs(s)' = Jobs(s) \ {w}
    <2>1. NoJob \in Job /\ NoJob.pc = "none"
      BY JobType
    <2>2. QED
      BY <1>1, <1>4, <2>1, JobUpdate
  <1>8. /\ cache' \in [Services -> [Works -> Outcome]]
        /\ \A t \in Services \ {s} : cache'[t] = cache[t]
        /\ \A v \in Works : \/ cache'[s][v] = cache[s][v]
                            \/ cache'[s][v] = Uncached
                            \/ v = w /\ cache'[s][v] = e
        /\ IsFiniteSet(Cached(s)') /\ Cardinality(Cached(s)') <= CacheMax
    <2>1. CASE cache' = cache
      <3>1. Cached(s)' = Cached(s)
        BY <2>1 DEF Cached
      <3>2. QED
        BY <1>1, <2>1, <3>1 DEF TypeOK, SlotsOf
    <2>2. ASSUME NEW c \in Stored(cache[s], w, e), cache' = [cache EXCEPT ![s] = c]
          PROVE  <1>8!:
      <3>1. /\ IsFiniteSet(Used(cache[s]))
            /\ Cardinality(Used(cache[s])) <= CacheMax
        BY <1>1 DEF SlotsOf, Cached, Used
      <3>2. /\ c \in [Works -> Outcome] /\ c[w] = e
            /\ \A v \in Works : v # w => c[v] = cache[s][v] \/ c[v] = Uncached
            /\ IsFiniteSet(Used(c))
            /\ Cardinality(Used(c)) <= CacheMax
        BY <1>1, <3>1, StoredBound
      <3>3. /\ cache' \in [Services -> [Works -> Outcome]] /\ cache'[s] = c
            /\ \A t \in Services \ {s} : cache'[t] = cache[t]
        BY <1>1, <2>2, <3>2 DEF TypeOK
      <3>4. Cached(s)' = Used(c)
        BY <3>3 DEF Cached, Used
      <3>5. QED
        BY <3>2, <3>3, <3>4
    <2>3. QED
      BY <1>4, <2>1, <2>2
  <1>9. TypeOK'
    <2>1. req' \in [Requests -> Handler]
      BY <1>1, <1>5, WokenType DEF TypeOK
    <2>2. busy' \in [Services -> SUBSET {Group[v] : v \in Works}]
      BY <1>1, <1>4 DEF TypeOK
    <2>3. landed' \in [Services -> [Works -> Outcome]]
      BY <1>1, <1>4, LandedType
    <2>4. QED
      BY <1>1, <1>4, <1>6, <1>7, <1>8, <2>1, <2>2, <2>3 DEF TypeOK
  <1>10. Slots'
    <2>1. \A t \in Services : busy'[t] = IF t = s THEN busy[s] \ {Group[w]} ELSE busy[t]
      BY <1>1, <1>4 DEF TypeOK
    <2>2. IsFiniteSet(Jobs(s)) /\ Cardinality(Jobs(s)) \in Nat /\ Cardinality(Jobs(s)) <= WorkersMax
      BY <1>1, FS_CardinalityType DEF SlotsOf
    <2>3. IsFiniteSet(Jobs(s) \ {w}) /\ Cardinality(Jobs(s) \ {w}) <= WorkersMax
      <3>1. /\ IsFiniteSet(Jobs(s) \ {w})
            /\ Cardinality(Jobs(s) \ {w}) = Cardinality(Jobs(s)) - 1
        BY <1>1, <2>2, FS_RemoveElement
      <3>2. QED
        BY <2>2, <3>1
    <2>4. SlotsOf(Jobs(s) \ {w}, Cached(s)', busy[s] \ {Group[w]})
      <3>1. busy[s] \ {Group[w]} = {Group[v] : v \in Jobs(s) \ {w}}
        BY <1>1 DEF SlotsOf
      <3>2. QED
        BY <1>1, <1>8, <2>3, <3>1 DEF SlotsOf
    <2>5. ASSUME NEW t \in Services PROVE SlotsOf(Jobs(t)', Cached(t)', busy'[t])
      <3>1. CASE t = s
        BY <1>7, <2>1, <2>4, <3>1
      <3>2. CASE t # s
        <4>1. Cached(t)' = Cached(t)
          BY <1>8, <3>2 DEF Cached
        <4>2. QED
          BY <1>7, <2>1, <3>2, <4>1 DEF IInv, Slots
      <3>3. QED
        BY <3>1, <3>2
    <2>6. QED
      BY <2>5 DEF Slots
  <1>11. Handlers'
    <2>1. ASSUME NEW q \in Requests PROVE HandlerInv(req[q])'
      <3>1. PICK g \in Handler : g = req[q] /\ HandlerInv(g)
        BY <1>1 DEF IInv, Handlers, TypeOK
      <3>2. CASE g.pc = "waiting" /\ ~g.done /\ g.service = s /\ g.work = w
        <4>1. PICK h \in Handler : /\ h = Woken(g, res) /\ h.pc = g.pc /\ h.done
                                   /\ h.work = g.work /\ h.res = res /\ h.out = g.out
          BY WokenType
        <4>2. req'[q] = h
          BY <1>5, <3>1, <3>2, <4>1
        <4>3. HandlerInv(h)'
          BY <1>2, <1>6, <3>1, <3>2, <4>1 DEF HandlerInv, Own
        <4>4. QED
          BY <4>2, <4>3 DEF HandlerInv, Own
      <3>3. CASE ~(g.pc = "waiting" /\ ~g.done /\ g.service = s /\ g.work = w)
        <4>1. req'[q] = g
          BY <1>5, <3>1, <3>3
        <4>2. g.service \in Services
          BY DEF Handler
        <4>3. g.pc = "waiting" /\ ~g.done => g.work \in Jobs(g.service)'
          BY <1>7, <3>1, <3>3, <4>2 DEF HandlerInv
        <4>4. HandlerInv(g)'
          BY <1>6, <3>1, <4>3 DEF HandlerInv, Own
        <4>5. QED
          BY <4>1, <4>4 DEF HandlerInv, Own
      <3>4. QED
        BY <3>2, <3>3
    <2>2. QED
      BY <2>1 DEF Handlers
  <1>12. Genuine'
    <2>1. ASSUME NEW t \in Services, NEW v \in Works PROVE Own(cache[t][v], v)'
      <3>1. Own(cache[t][v], v)
        BY DEF IInv, Genuine
      <3>2. cache'[t][v] = cache[t][v] \/ cache'[t][v] = Uncached \/ (v = w /\ cache'[t][v] = e)
        BY <1>8
      <3>3. QED
        BY <1>2, <1>3, <1>6, <3>1, <3>2, OutcomeType DEF Own
    <2>2. ASSUME NEW t \in Services, NEW v \in Works
          PROVE  job'[t][v].res.ok => job'[t][v].res.work = v
      BY <1>7, OutcomeType DEF IInv, Genuine, NoJob
    <2>3. QED
      BY <2>1, <2>2 DEF Genuine
  <1>13. QED
    BY <1>9, <1>10, <1>11, <1>12 DEF IInv

-----------------------------------------------------------------------------
(* The invariants. *)

LEMMA HandleStep ==
  ASSUME IInv, NEW r \in Requests, Handle(r)
  PROVE  IInv'
  <1>1. /\ req[r].service \in Services /\ req[r].res \in Outcome
        /\ HandlerInv(req[r])
        /\ req[r].pc # "idle" /\ req[r].pc # "left" => req[r].work \in Works
    BY HandlerParts
  <1>2. Failed \in Outcome /\ Own(Failed, req[r].work)
    BY OutcomeType DEF Own
  <1>3. CASE Reject(r)
    BY <1>2, <1>3, GotStep DEF Reject
  <1>4. CASE Bind(r)
    BY <1>4, BindStep
  <1>5. CASE StartClosed(r)
    BY <1>2, <1>5, GotStep DEF StartClosed
  <1>6. CASE StartHit(r)
    <2>1. PICK e \in Outcome : e = cache[req[r].service][req[r].work] /\ Own(e, req[r].work)
      BY <1>1, <1>6 DEF StartHit, IInv, TypeOK, Genuine
    <2>2. QED
      BY <1>6, <2>1, GotStep DEF StartHit
  <1>7. CASE StartJoin(r)
    BY <1>7, WaitStep DEF StartJoin
  <1>8. CASE StartBusy(r)
    BY <1>2, <1>8, GotStep DEF StartBusy
  <1>9. CASE StartJob(r)
    BY <1>9, StartJobStep
  <1>10. CASE WaitDone(r)
    <2>1. Own(req[r].res, req[r].work)
      BY <1>1, <1>10 DEF WaitDone, HandlerInv
    <2>2. QED
      BY <1>1, <1>10, <2>1, GotStep DEF WaitDone
  <1>11. CASE WaitOver(r)
    BY <1>2, <1>11, GotStep DEF WaitOver
  <1>12. CASE Answer(r)
    BY <1>12, AnswerStep
  <1>13. CASE Unsupported(r)
    BY <1>13, UnsupportedStep
  <1>14. QED
    BY <1>3, <1>4, <1>5, <1>6, <1>7, <1>8, <1>9, <1>10, <1>11, <1>12, <1>13 DEF Handle

LEMMA RunStep ==
  ASSUME IInv, NEW s \in Services, NEW w \in Works, Run(s, w)
  PROVE  IInv'
  <1>1. CASE RelayGrants(s, w)
    <2>1. PICK life \in Lifetimes :
             RelayAnswers(s, w, [ok |-> TRUE, work |-> w, until |-> now + life])
      BY <1>1 DEF RelayGrants
    <2>2. now + life \in Nat
      BY DEF IInv, TypeOK
    <2>3. [ok |-> TRUE, work |-> w, until |-> now + life] \in Outcome
      BY <2>2 DEF Outcome
    <2>4. QED
      BY <2>1, <2>3, RelayStep
  <1>2. CASE RelayFails(s, w)
    BY <1>2, OutcomeType, RelayStep DEF RelayFails
  <1>3. CASE Finish(s, w)
    BY <1>3, FinishStep
  <1>4. QED
    BY <1>1, <1>2, <1>3 DEF Run

LEMMA StutterStep ==
  ASSUME IInv, UNCHANGED vars
  PROVE  IInv'
  <1>1. \A t \in Services : Jobs(t)' = Jobs(t) /\ Cached(t)' = Cached(t)
    BY DEF Jobs, Cached, vars
  <1>2. Slots'
    BY <1>1, SlotsStay DEF IInv, vars
  <1>3. QED
    BY <1>2 DEF vars, IInv, TypeOK, Handlers, HandlerInv, Genuine, Own, Jobs

LEMMA NextInv == IInv /\ [Next]_vars => IInv'
  <1> SUFFICES ASSUME IInv, [Next]_vars PROVE IInv'
    OBVIOUS
  <1>1. CASE \E r \in Requests, w \in Works : Ask(r, w)
    BY <1>1, AskStep
  <1>2. CASE \E r \in Requests : Handle(r)
    BY <1>2, HandleStep
  <1>3. CASE \E s \in Services, w \in Works : Run(s, w)
    BY <1>3, RunStep
  <1>4. CASE Reset \/ Close \/ Tick
    BY <1>4, ServiceStep
  <1>5. CASE UNCHANGED vars
    BY <1>5, StutterStep
  <1>6. QED
    BY <1>1, <1>2, <1>3, <1>4, <1>5 DEF Next

LEMMA Invariant == Spec => []IInv
  BY InitInv, NextInv, PTL DEF Spec

\* Every variable of the service keeps its type.
THEOREM TypeCorrect == Spec => []TypeOK
  <1>1. IInv => TypeOK
    BY DEF IInv
  <1>2. QED
    BY <1>1, Invariant, PTL

\* Neither an outcome nor a timeout nor a reset leaks a slot, and no number of
\* handlers makes a service run more jobs or keep more outcomes than it may.
THEOREM SlotsMatch == Spec => []SlotsMatchJobs
  <1>1. IInv => SlotsMatchJobs
    BY DEF IInv, Slots, SlotsOf, SlotsMatchJobs
  <1>2. QED
    BY <1>1, Invariant, PTL

\* The group of a work is its account: no account asks with two access tokens.
OneTokenPerAccount == \A v, w \in Works : Account[v] = Account[w] => Group[v] = Group[w]

\* What the dashboard says of the workers holds but for refreshed tokens: as long
\* as an account keeps its access token, a service runs one job of it at a time
\* (busy, cloud_mint_service.go 136).  With a second token it does not.
THEOREM AccountsSerialWithOneToken == OneTokenPerAccount => (Spec => []AccountsAreSerial)
  <1> SUFFICES ASSUME OneTokenPerAccount PROVE Spec => []AccountsAreSerial
    OBVIOUS
  <1>1. SlotsMatchJobs => AccountsAreSerial
    BY DEF SlotsMatchJobs, AccountsAreSerial, OneTokenPerAccount, Jobs
  <1>2. QED
    BY <1>1, SlotsMatch, PTL

\* No handler waits on a channel that nobody is left to close.
THEOREM NobodyWaitsInVain == Spec => []WaitersHaveAJob
  <1>1. IInv => WaitersHaveAJob
    BY DEF IInv, Handlers, HandlerInv, WaitersHaveAJob
  <1>2. QED
    BY <1>1, Invariant, PTL


-------------------------------------------------------------------------------
(***************************************************************************)
(* The step properties of CloudMintService, for every value of its         *)
(* constants: late outcomes serve retries, and every step is a step of     *)
(* TicketGate or leaves what the gate shows unchanged.                     *)
(***************************************************************************)

-----------------------------------------------------------------------------
(* Retries find the outcome of the last job. *)

\* What the last job of a work has left is what the cache answers with.
Remembered ==
    \A s \in Services, w \in Works : landed[s][w] # Uncached => cache[s][w] = landed[s][w]

\* A cache with room only gains the new outcome.
LEMMA StoredWithRoom ==
  ASSUME NEW c \in [Works -> Outcome], NEW w \in Works, NEW e \in Outcome,
         ~(Cardinality(Used(c)) >= CacheMax), NEW d \in Stored(c, w, e)
  PROVE  d = [c EXCEPT ![w] = e]
  BY DEF Stored, Used

LEMMA FinishRemembers ==
  ASSUME IInv, Remembered, NEW s \in Services, NEW w \in Works, Finish(s, w)
  PROVE  Remembered'
  <1>1. /\ TypeOK /\ cache \in [Services -> [Works -> Outcome]]
        /\ landed \in [Services -> [Works -> Outcome]] /\ now \in Nat
    BY DEF IInv, TypeOK
  <1>2. PICK e \in Outcome :
           /\ s \in closed => cache' = cache
           /\ s \notin closed
                => \E c \in Stored(cache[s], w, e) : cache' = [cache EXCEPT ![s] = c]
           /\ landed' = [landed EXCEPT ![s] = Landed(s, w, e)]
    <2>1. PICK res \in Outcome : res = (IF ContextDone(s, w) THEN Failed ELSE job[s][w].res)
      BY OutcomeType DEF IInv, TypeOK, Job
    <2>2. PICK e \in Outcome :
             e = (IF res.ok THEN res ELSE [Failed EXCEPT !.until = now + Cooldown])
      <3>1. now + Cooldown \in Nat
        BY <1>1
      <3>2. [Failed EXCEPT !.until = now + Cooldown] \in Outcome
        BY <3>1, OutcomeType
      <3>3. QED
        BY <3>2
    <2>3. QED
      BY <2>1, <2>2 DEF Finish
  <1>3. /\ landed'[s] = Landed(s, w, e)
        /\ \A t \in Services \ {s} : landed'[t] = landed[t] /\ cache'[t] = cache[t]
    BY <1>1, <1>2
  <1>4. ASSUME NEW v \in Works, landed'[s][v] # Uncached
        PROVE  cache'[s][v] = landed'[s][v]
    <2>1. CASE s \in closed
      BY <1>2, <1>3, <1>4, <2>1 DEF Landed, Remembered
    <2>2. CASE s \notin closed
      <3>1. PICK c \in Stored(cache[s], w, e) : cache' = [cache EXCEPT ![s] = c]
        BY <1>2, <2>2
      <3>2. cache'[s] = c
        BY <1>1, <3>1
      <3>3. IsFiniteSet(Used(cache[s])) /\ Cardinality(Used(cache[s])) <= CacheMax
        BY DEF IInv, Slots, SlotsOf, Cached, Used
      <3>4. CASE v = w
        <4>1. c[w] = e
          BY <1>1, <3>3, StoredBound
        <4>2. QED
          BY <1>3, <2>2, <3>2, <3>4, <4>1 DEF Landed
      <3>5. CASE v # w
        <4>1. ~(Cardinality(Used(cache[s])) >= CacheMax) /\ landed'[s][v] = landed[s][v]
          BY <1>3, <1>4, <2>2, <3>5 DEF Landed, Cached, Used
        <4>2. c[v] = cache[s][v]
          BY <1>1, <3>5, <4>1, StoredWithRoom
        <4>3. QED
          BY <1>4, <3>2, <4>1, <4>2 DEF Remembered
      <3>6. QED
        BY <3>4, <3>5
    <2>3. QED
      BY <2>1, <2>2
  <1>5. QED
    BY <1>3, <1>4 DEF Remembered

\* Only the end of a job touches the cache.
LEMMA RememberedStep == IInv /\ Remembered /\ [Next]_vars => Remembered'
  <1> SUFFICES ASSUME IInv, Remembered, [Next]_vars PROVE Remembered'
    OBVIOUS
  <1>1. ASSUME UNCHANGED <<cache, landed>> PROVE Remembered'
    BY <1>1 DEF Remembered
  <1>2. CASE \E r \in Requests, w \in Works : Ask(r, w)
    BY <1>1, <1>2 DEF Ask
  <1>3. CASE \E r \in Requests : Handle(r)
    BY <1>1, <1>3 DEF Handle, Unsupported, Reject, Bind, StartClosed, StartHit, StartJoin, StartBusy,
                      StartJob, WaitDone, WaitOver, Answer
  <1>4. ASSUME NEW s \in Services, NEW w \in Works, Run(s, w)
        PROVE  Remembered'
    <2>1. CASE RelayGrants(s, w) \/ RelayFails(s, w)
      BY <1>1, <2>1 DEF RelayGrants, RelayFails, RelayAnswers
    <2>2. CASE Finish(s, w)
      BY <2>2, FinishRemembers
    <2>3. QED
      BY <1>4, <2>1, <2>2 DEF Run
  <1>5. CASE Reset \/ Close \/ Tick
    BY <1>1, <1>5 DEF Reset, Close, Tick
  <1>6. CASE UNCHANGED vars
    BY <1>1, <1>6 DEF vars
  <1>7. QED
    BY <1>2, <1>3, <1>4, <1>5, <1>6 DEF Next

LEMMA Memory == Spec => []Remembered
  <1>1. Init => Remembered
    BY DEF Init, Remembered
  <1>2. QED
    BY <1>1, RememberedStep, Invariant, PTL DEF Spec

\* A handler that has the service is moved by its own start only.
LEMMA BoundStarts ==
  ASSUME IInv, Next, NEW r \in Requests, req[r].pc = "bound", req'[r] # req[r]
  PROVE  StartClosed(r) \/ StartHit(r) \/ StartJoin(r) \/ StartBusy(r) \/ StartJob(r)
  <1>1. req \in [Requests -> Handler]
    BY DEF IInv, TypeOK
  <1>2. ASSUME NEW q \in Requests, NEW h, req' = [req EXCEPT ![q] = h]
        PROVE  q = r
    BY <1>1, <1>2
  <1>3. ASSUME NEW q \in Requests, NEW w \in Works, Ask(q, w)
        PROVE  FALSE
    BY <1>2, <1>3 DEF Ask
  <1>4. ASSUME NEW q \in Requests, Handle(q)
        PROVE  q = r /\ Handle(r)
    <2>1. \E h : req' = [req EXCEPT ![q] = h]
      BY <1>4 DEF Handle, Unsupported, Reject, Bind, StartClosed, StartHit, StartJoin, StartBusy,
                  StartJob, WaitDone, WaitOver, Answer
    <2>2. QED
      BY <1>2, <1>4, <2>1
  <1>5. ASSUME Handle(r)
        PROVE  StartClosed(r) \/ StartHit(r) \/ StartJoin(r) \/ StartBusy(r) \/ StartJob(r)
    BY <1>5 DEF Handle, Unsupported, Reject, Bind, WaitDone, WaitOver, Answer
  <1>6. ASSUME NEW s \in Services, NEW w \in Works, Run(s, w)
        PROVE  FALSE
    <2>1. CASE RelayGrants(s, w) \/ RelayFails(s, w)
      BY <2>1 DEF RelayGrants, RelayFails, RelayAnswers
    <2>2. CASE Finish(s, w)
      BY <2>2 DEF Finish
    <2>3. QED
      BY <1>6, <2>1, <2>2 DEF Run
  <1>7. ~(Reset \/ Close \/ Tick)
    BY DEF Reset, Close, Tick
  <1>8. QED
    BY <1>3, <1>4, <1>5, <1>6, <1>7 DEF Next

LEMMA RetryStep ==
  ASSUME IInv, Remembered, Next, NEW r \in Requests, NEW s, NEW w,
         s = req[r].service, w = req[r].work,
         req[r].pc = "bound", s \notin closed, landed[s][w].until > now + Margin,
         req'[r] # req[r]
  PROVE  req'[r].pc = "got" /\ req'[r].res = landed[s][w]
  <1>1. /\ req[r] \in Handler /\ s \in Services /\ w \in Works /\ now \in Nat
        /\ MaxServices > 0 /\ req \in [Requests -> Handler] /\ cache[s][w] \in Outcome
    BY HandlerParts DEF IInv, TypeOK
  <1>2. cache[s][w] = landed[s][w]
    <2>1. Uncached.until = 0
      BY DEF Uncached, Failed
    <2>2. landed[s][w] # Uncached
      BY <1>1, <2>1
    <2>3. QED
      BY <1>1, <2>2 DEF Remembered
  <1>3. Hit(s, w)
    BY <1>2 DEF Hit
  <1>4. StartHit(r)
    BY <1>3, BoundStarts DEF StartClosed, StartJoin, StartBusy, StartJob
  <1>5. req'[r] = Got(req[r], cache[s][w])
    BY <1>1, <1>4 DEF StartHit
  <1>6. QED
    BY <1>1, <1>2, <1>5, GotType

\* As long as the outcome of a job lasts and no full cache had to make room, it
\* serves every handler that comes to the open service, however late it was: the
\* relay is not asked again and nobody waits or is turned away.
THEOREM Retries == Spec => LateOutcomesServeRetries
  <1>1. IInv /\ Remembered /\ [Next]_vars
          => [\A r \in Requests :
                LET s == req[r].service
                    w == req[r].work
                IN  /\ req[r].pc = "bound" /\ s \notin closed
                    /\ landed[s][w].until > now + Margin
                    /\ req'[r] # req[r]
                    => req'[r].pc = "got" /\ req'[r].res = landed[s][w]]_vars
    BY RetryStep
  <1>2. QED
    BY <1>1, Invariant, Memory, PTL DEF Spec, LateOutcomesServeRetries

-----------------------------------------------------------------------------
(* The service implements the gate. *)

\* What the gate shows of the handlers.
Asking  == [r \in Requests |-> req[r].work]
Answers == [r \in Requests |-> req[r].out]

LEMMA GateInit == Init => Gate!Init
  BY IdleType DEF Init, Gate!Init, Gate!Plain, Plain

\* A handler that keeps its work and has not left.
LEMMA QuietStep ==
  ASSUME IInv, NEW r \in Requests, NEW h \in Handler, req' = [req EXCEPT ![r] = h],
         h.work = req[r].work, h.out = req[r].out, UNCHANGED <<now, minted>>
  PROVE  UNCHANGED Gate!gate
  <1>1. \A q \in Requests : req'[q] = IF q = r THEN h ELSE req[q]
    BY DEF IInv, TypeOK
  <1>2. \A q \in Requests : req'[q].work = req[q].work /\ req'[q].out = req[q].out
    BY <1>1
  <1>3. Asking' = Asking /\ Answers' = Answers
    BY <1>2 DEF Asking, Answers
  <1>4. QED
    BY <1>3 DEF Gate!gate, Asking, Answers

LEMMA GateAsk ==
  ASSUME IInv, NEW r \in Requests, NEW w \in Works, Ask(r, w)
  PROVE  Gate!Ask(r, w)
  <1>1. PICK h \in Handler : h = Asked(w) /\ h.work = w /\ h.out = Plain("nothing")
    BY HandlerParts, AskedType
  <1>2. req[r].work = NoWork /\ req[r].out = Plain("nothing")
    BY HandlerParts DEF Ask, HandlerInv
  <1>3. \A q \in Requests : req'[q] = IF q = r THEN h ELSE req[q]
    BY <1>1 DEF Ask, IInv, TypeOK
  <1>4. Answers' = Answers
    BY <1>1, <1>2, <1>3 DEF Answers
  <1>5. Asking' = [Asking EXCEPT ![r] = w]
    BY <1>1, <1>3 DEF Asking
  <1>6. Asking[r] = NoWork /\ Answers[r].kind = "nothing"
    BY <1>2 DEF Asking, Answers, Plain
  <1>7. UNCHANGED <<now, minted>>
    BY DEF Ask
  <1>8. QED
    BY <1>4, <1>5, <1>6, <1>7 DEF Gate!Ask, Asking, Answers

LEMMA GateAnswer ==
  ASSUME IInv, NEW r \in Requests, Answer(r)
  PROVE  Gate!Answer(r)
  <1>1. /\ req[r].res \in Outcome /\ req[r].work \in Works /\ Own(req[r].res, req[r].work)
        /\ MaxServices > 0 /\ now \in Nat
    BY HandlerParts DEF Answer, HandlerInv
  <1>2. PICK o \in Out : /\ req' = [req EXCEPT ![r] = Left(o)]
                         /\ o \in Gate!Answers(req[r].work)
    <2>1. CASE req[r].res.ok /\ req[r].res.until > now + Margin
      <3>1. /\ With(req[r].res) \in Out
            /\ req' = [req EXCEPT ![r] = Left(With(req[r].res))]
        BY <1>1, <2>1, OutType DEF Answer, Own
      <3>2. PICK t \in Gate!Fresh(req[r].work) :
               t = [work |-> req[r].work, until |-> req[r].res.until]
        BY <1>1, <2>1 DEF Own, Gate!Fresh
      <3>3. With(req[r].res) = Gate!With(t)
        BY <1>1, <2>1, <3>2 DEF With, Gate!With, Own
      <3>4. QED
        BY <3>1, <3>2, <3>3 DEF Gate!Answers
    <2>2. CASE ~(req[r].res.ok /\ req[r].res.until > now + Margin)
      <3>1. CASE req[r].work \in FailClosed
        BY <2>2, <3>1, OutType DEF Answer, Gate!Answers, Gate!Plain, Plain
      <3>2. CASE req[r].work \notin FailClosed
        BY <1>1, <2>2, <3>2, OutType DEF Answer, Gate!Answers, Gate!Plain, Plain
      <3>3. QED
        BY <3>1, <3>2
    <2>3. QED
      BY <2>1, <2>2
  <1>3. PICK h \in Handler : h = Left(o) /\ h.work = NoWork /\ h.out = o
    BY <1>1, LeftType
  <1>4. \A q \in Requests : req'[q] = IF q = r THEN h ELSE req[q]
    BY <1>2, <1>3 DEF IInv, TypeOK
  <1>5. Asking' = [Asking EXCEPT ![r] = NoWork] /\ Asking[r] = req[r].work
    BY <1>3, <1>4 DEF Asking
  <1>6. Answers' = [Answers EXCEPT ![r] = o]
    BY <1>3, <1>4 DEF Answers
  <1>7. UNCHANGED <<now, minted>>
    BY DEF Answer
  <1>8. QED
    BY <1>1, <1>2, <1>5, <1>6, <1>7 DEF Gate!Answer, Asking, Answers

LEMMA GateUnsupported ==
  ASSUME IInv, NEW r \in Requests, Unsupported(r)
  PROVE  Gate!Answer(r)
  <1>1. /\ req[r].work \in Works /\ MaxServices > 0
    BY HandlerParts DEF Unsupported
  <1>2. PICK o \in Out : o = Plain("refused") /\ o \in Gate!Answers(req[r].work)
    BY OutType DEF Gate!Answers, Gate!Plain, Plain
  <1>3. PICK h \in Handler : h = Left(o) /\ h.work = NoWork /\ h.out = o
    BY <1>1, LeftType
  <1>4. \A q \in Requests : req'[q] = IF q = r THEN h ELSE req[q]
    BY <1>2, <1>3 DEF Unsupported, IInv, TypeOK
  <1>5. Asking' = [Asking EXCEPT ![r] = NoWork] /\ Asking[r] = req[r].work
    BY <1>3, <1>4 DEF Asking
  <1>6. Answers' = [Answers EXCEPT ![r] = o]
    BY <1>3, <1>4 DEF Answers
  <1>7. UNCHANGED <<now, minted>>
    BY DEF Unsupported
  <1>8. QED
    BY <1>1, <1>2, <1>5, <1>6, <1>7 DEF Gate!Answer, Asking, Answers

LEMMA GateHandle ==
  ASSUME IInv, NEW r \in Requests, Handle(r)
  PROVE  Gate!Answer(r) \/ UNCHANGED Gate!gate
  <1>1. /\ req[r] \in Handler /\ req[r].service \in Services /\ req[r].res \in Outcome
        /\ now \in Nat /\ MaxServices > 0 /\ current \in Services
        /\ req[r].pc # "idle" /\ req[r].pc # "left"
             => req[r].work \in Works /\ req[r].out = Plain("nothing")
    BY HandlerParts DEF IInv, TypeOK
  <1>2. ASSUME NEW e \in Outcome, req' = [req EXCEPT ![r] = Got(@, e)],
               req[r].pc \in {"asked", "bound", "waiting"}, UNCHANGED <<now, minted>>
        PROVE  UNCHANGED Gate!gate
    <2>1. PICK h \in Handler : h = Got(req[r], e) /\ h.work = req[r].work
                               /\ h.out = Plain("nothing")
      BY <1>1, GotType
    <2>2. QED
      BY <1>1, <1>2, <2>1, QuietStep
  <1>3. ASSUME req' = [req EXCEPT ![r] = Waiting(@)], UNCHANGED <<now, minted>>
        PROVE  UNCHANGED Gate!gate
    <2>1. PICK h \in Handler : h = Waiting(req[r]) /\ h.work = req[r].work
                               /\ h.out = req[r].out
      BY <1>1, WaitingType
    <2>2. QED
      BY <1>3, <2>1, QuietStep
  <1>4. CASE Reject(r) \/ StartClosed(r) \/ StartBusy(r) \/ WaitOver(r)
    BY <1>2, <1>4, OutcomeType DEF Reject, StartClosed, StartBusy, WaitOver
  <1>5. CASE Bind(r)
    <2>1. PICK h \in Handler : h = Bound(req[r], current) /\ h.work = req[r].work
                               /\ h.out = req[r].out
      BY <1>1, BoundType
    <2>2. QED
      BY <1>5, <2>1, QuietStep DEF Bind
  <1>6. CASE StartHit(r)
    <2>1. PICK e \in Outcome : e = cache[req[r].service][req[r].work]
      BY <1>1, <1>6 DEF StartHit, IInv, TypeOK
    <2>2. QED
      BY <1>2, <1>6, <2>1 DEF StartHit
  <1>7. CASE StartJoin(r) \/ StartJob(r)
    BY <1>3, <1>7 DEF StartJoin, StartJob
  <1>8. CASE WaitDone(r)
    BY <1>1, <1>2, <1>8 DEF WaitDone
  <1>9. CASE Answer(r)
    BY <1>9, GateAnswer
  <1>10. CASE Unsupported(r)
    BY <1>10, GateUnsupported
  <1>11. QED
    BY <1>4, <1>5, <1>6, <1>7, <1>8, <1>9, <1>10 DEF Handle

LEMMA GateFinish ==
  ASSUME IInv, NEW s \in Services, NEW w \in Works, Finish(s, w)
  PROVE  Gate!Mint \/ UNCHANGED Gate!gate
  <1>1. PICK res \in Outcome : res = (IF ContextDone(s, w) THEN Failed ELSE job[s][w].res)
    BY OutcomeType DEF IInv, TypeOK, Job
  <1>2. req' = [r \in Requests |->
                  IF /\ req[r].pc = "waiting" /\ ~req[r].done
                     /\ req[r].service = s /\ req[r].work = w
                  THEN Woken(req[r], res) ELSE req[r]]
    BY <1>1 DEF Finish
  <1>3. ASSUME NEW q \in Requests
        PROVE  req'[q].work = req[q].work /\ req'[q].out = req[q].out
    <2>1. req[q] \in Handler
      BY HandlerParts
    <2>2. PICK h \in Handler : h = Woken(req[q], res) /\ h.work = req[q].work
                               /\ h.out = req[q].out
      BY <2>1, WokenType
    <2>3. req'[q] = h \/ req'[q] = req[q]
      BY <1>2, <2>2
    <2>4. QED
      BY <2>2, <2>3
  <1>4. Asking' = Asking /\ Answers' = Answers /\ now' = now
    BY <1>3 DEF Asking, Answers, Finish
  <1>5. CASE res.ok
    <2>1. minted' = minted \cup {[work |-> w, until |-> res.until]}
      BY <1>1, <1>5 DEF Finish
    <2>2. [work |-> w, until |-> res.until] \in Gate!Ticket
      BY DEF Outcome, Gate!Ticket
    <2>3. QED
      BY <1>4, <2>1, <2>2 DEF Gate!Mint, Asking, Answers
  <1>6. CASE ~res.ok
    <2>1. minted' = minted
      BY <1>1, <1>6 DEF Finish
    <2>2. QED
      BY <1>4, <2>1 DEF Gate!gate, Asking, Answers
  <1>7. QED
    BY <1>5, <1>6

LEMMA GateNext == IInv /\ [Next]_vars => [Gate!Next]_Gate!gate
  <1> SUFFICES ASSUME IInv, [Next]_vars PROVE Gate!Next \/ UNCHANGED Gate!gate
    OBVIOUS
  <1>1. CASE \E r \in Requests, w \in Works : Ask(r, w)
    BY <1>1, GateAsk DEF Gate!Next
  <1>2. CASE \E r \in Requests : Handle(r)
    BY <1>2, GateHandle DEF Gate!Next
  <1>3. ASSUME NEW s \in Services, NEW w \in Works, Run(s, w)
        PROVE  Gate!Next \/ UNCHANGED Gate!gate
    <2>1. CASE RelayGrants(s, w) \/ RelayFails(s, w)
      BY <2>1 DEF RelayGrants, RelayFails, RelayAnswers, Gate!gate
    <2>2. CASE Finish(s, w)
      BY <2>2, GateFinish DEF Gate!Next
    <2>3. QED
      BY <1>3, <2>1, <2>2 DEF Run
  <1>4. CASE Reset \/ Close
    BY <1>4 DEF Reset, Close, Gate!gate
  <1>5. CASE Tick
    BY <1>5 DEF Tick, Gate!Tick, Gate!Next
  <1>6. CASE UNCHANGED vars
    BY <1>6 DEF vars, Gate!gate
  <1>7. QED
    BY <1>1, <1>2, <1>3, <1>4, <1>5, <1>6 DEF Next

\* Whatever the interleaving, a request leaves with a ticket minted for its own
\* work that is still good, refused, or bare when it may be.
THEOREM ImplementsGate == Spec => Gate!Safe
  BY GateInit, GateNext, Invariant, PTL DEF Spec, Gate!Safe

=============================================================================
