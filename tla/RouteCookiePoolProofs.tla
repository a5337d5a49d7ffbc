------------------------ MODULE RouteCookiePoolProofs ------------------------
(***************************************************************************)
(* Proofs about RouteCookiePool, for every value of its constants.         *)
(*                                                                         *)
(* Every step changes the map and the file in one of few ways: not at all, *)
(* by ChangePool, by a reload, by a clear or by the end of the process.    *)
(* The lemmas say what each way preserves; the theorems go through the     *)
(* actions and cite them.                                                  *)
(***************************************************************************)
EXTENDS RouteCookiePool, TLAPS

USE PoolConstants

\* What TypeOK says of the map, the files and the histories kept about them.
StoreOK ==
    /\ pool \in [Pairs -> Entry] /\ WellFormed(pool)
    /\ dirty \in BOOLEAN
    /\ flushedAt \in Nat
    /\ disk \in [Dirs -> [Pairs -> Entry]] /\ \A d \in Dirs : WellFormed(disk[d])
    /\ gone \subseteq Pairs
    /\ clearedAway \subseteq Pairs
    /\ offLock \subseteq Dirs

\* What TypeOK says of the rest.
ControlOK ==
    /\ now \in 1..MaxTime
    /\ mode \in {"up", "stopped", "crashed"}
    /\ cfg \in Config
    /\ pending \in [Requests -> Record]
    /\ att \in [Requests -> Attempt]
    /\ clear \in ClearState /\ WellFormed(clear.doc)
    /\ reloads \in Nat
    /\ clears \in Nat

\* A handler that still uses the instant it captured captured it in the past.
CapturedInstants ==
    \A r \in Requests : att[r].pc \in {"recalled", "harvested"} => att[r].t \in 1..now

\* A clear that is about to write knows the directory it writes to.
ClearHasDirectory == clear.pc \in {"emptied", "copied"} => clear.dir \in Dirs

\* The inductive type invariant.
IType == TypeOK /\ CapturedInstants /\ ClearHasDirectory

LEMMA TypeSplit == TypeOK <=> StoreOK /\ ControlOK
  BY DEF TypeOK, StoreOK, ControlOK

LEMMA NoEntryType == NoEntry \in Entry /\ EmptyPool \in [Pairs -> Entry] /\ WellFormed(EmptyPool)
  BY DEF NoEntry, Entry, EmptyPool, WellFormed, InPool

LEMMA LocalsType == NoRecord \in Record /\ Idle \in Attempt /\ NoClear \in ClearState
                    /\ WellFormed(NoClear.doc)
  BY NoEntryType DEF NoRecord, Record, Idle, Attempt, NoClear, ClearState, Keys

\* Writing a pool renders a pool.
LEMMA PersistedType ==
  ASSUME NEW p \in [Pairs -> Entry], WellFormed(p), NEW t
  PROVE  Persisted(p, t) \in [Pairs -> Entry] /\ WellFormed(Persisted(p, t))
  BY NoEntryType DEF Persisted, WellFormed, InPool

\* A change of the map with the flush that follows it keeps the store typed.
LEMMA ChangePoolType ==
  ASSUME StoreOK, NEW p \in [Pairs -> Entry], WellFormed(p), NEW t \in Nat,
         ChangePool(p, t), gone' \subseteq Pairs, clearedAway' \subseteq Pairs
  PROVE  StoreOK'
  <1>1. pool' = p
    BY DEF ChangePool
  <1>2. dirty' \in BOOLEAN /\ flushedAt' \in Nat /\ offLock' \subseteq Dirs
    BY DEF ChangePool, StoreOK
  <1>3. disk' \in [Dirs -> [Pairs -> Entry]] /\ \A d \in Dirs : WellFormed(disk'[d])
    <2>1. CASE UNCHANGED disk
      BY <2>1 DEF StoreOK
    <2>2. CASE disk' = [disk EXCEPT ![cfg.dir] = Persisted(p, t)]
      BY <2>2, PersistedType DEF StoreOK
    <2>3. QED
      BY <2>1, <2>2 DEF ChangePool
  <1>4. QED
    BY <1>1, <1>2, <1>3 DEF StoreOK, WellFormed, InPool

LEMMA DeadlineType ==
  ASSUME NEW t \in Nat, NEW life \in Lifetimes
  PROVE  Deadline(t, life) \in Nat
  BY DEF Deadline

\* A sighting keeps the store typed.
LEMMA NoteType ==
  ASSUME StoreOK, ControlOK, NEW k \in Pairs, NEW s \in Nat \ {0}, NEW d \in Nat,
         NoteRouteCookies(k, s, d)
  PROVE  StoreOK'
  <1> DEFINE e == pool[k]
             noted == [seen   |-> IF s > e.seen THEN s ELSE e.seen,
                       expire |-> IF d # 0 THEN d ELSE e.expire,
                       good   |-> e.good,
                       bad    |-> e.bad]
             p == [pool EXCEPT ![k] = noted]
  <1>1. e \in Entry
    BY DEF StoreOK
  <1>2. noted \in Entry /\ noted.seen # 0
    BY <1>1 DEF Entry
  <1>3. p \in [Pairs -> Entry] /\ WellFormed(p)
    BY <1>2 DEF StoreOK, WellFormed, InPool
  <1>4. ChangePool(p, now) /\ gone' \subseteq Pairs /\ clearedAway' \subseteq Pairs /\ now \in Nat
    BY DEF NoteRouteCookies, StoreOK, ControlOK
  <1>5. QED
    BY <1>3, <1>4, ChangePoolType

LEMMA RevokeType ==
  ASSUME StoreOK, NEW k, NEW t \in Nat, RevokeRouteCookie(k, t)
  PROVE  StoreOK'
  <1>1. CASE k \in Pairs /\ InPool(pool, k)
    <2> DEFINE p == [pool EXCEPT ![k] = NoEntry]
    <2>1. p \in [Pairs -> Entry] /\ WellFormed(p)
      BY NoEntryType DEF StoreOK, WellFormed, InPool
    <2>2. ChangePool(p, t) /\ gone' \subseteq Pairs /\ clearedAway' \subseteq Pairs
      BY <1>1 DEF RevokeRouteCookie, StoreOK
    <2>3. QED
      BY <2>1, <2>2, ChangePoolType
  <1>2. CASE ~(k \in Pairs /\ InPool(pool, k))
    BY <1>2 DEF RevokeRouteCookie, StoreOK, WellFormed, InPool
  <1>3. QED
    BY <1>1, <1>2

LEMMA MarkType ==
  ASSUME StoreOK, NEW k, NEW kind, NEW t \in Nat, MarkRouteCookieOutcome(k, kind, t)
  PROVE  StoreOK'
  <1>1. CASE k \in Pairs /\ InPool(pool, k) /\ kind # "silent"
    <2> DEFINE m == Marked(pool[k], kind, t)
               p == [pool EXCEPT ![k] = m]
    <2>1. m \in Entry /\ m.seen = pool[k].seen
      BY <1>1 DEF Marked, Entry, StoreOK
    <2>2. p \in [Pairs -> Entry] /\ WellFormed(p)
      BY <2>1, <1>1 DEF StoreOK, WellFormed, InPool
    <2>3. ChangePool(p, t) /\ gone' \subseteq Pairs /\ clearedAway' \subseteq Pairs
      BY <1>1 DEF MarkRouteCookieOutcome, StoreOK
    <2>4. QED
      BY <2>2, <2>3, ChangePoolType
  <1>2. CASE ~(k \in Pairs /\ InPool(pool, k) /\ kind # "silent")
    BY <1>2 DEF MarkRouteCookieOutcome, StoreOK, WellFormed, InPool
  <1>3. QED
    BY <1>1, <1>2

-----------------------------------------------------------------------------
(* Type correctness. *)

\* A step that leaves the map, the files and their histories alone.
LEMMA StoreUnchanged ==
  ASSUME StoreOK, UNCHANGED <<pool, fileVars, gone, clearedAway>>
  PROVE  StoreOK'
  BY DEF StoreOK, fileVars, WellFormed, InPool

LEMMA InitType == Init => IType
  <1> SUFFICES ASSUME Init PROVE IType
    OBVIOUS
  <1>1. StoreOK
    BY NoEntryType DEF Init, StoreOK
  <1>2. ControlOK
    BY LocalsType DEF Init, ControlOK
  <1>3. CapturedInstants /\ ClearHasDirectory
    BY DEF Init, CapturedInstants, ClearHasDirectory, Idle, NoClear
  <1>4. QED
    BY <1>1, <1>2, <1>3, TypeSplit DEF IType

\* A step of one handler that leaves a typed attempt and record behind and
\* nothing else.
LEMMA HandlerType ==
  ASSUME ControlOK, CapturedInstants, ClearHasDirectory, NEW r \in Requests,
         NEW a \in Attempt, a.pc \in {"recalled", "harvested"} => a.t \in 1..now,
         att' = [att EXCEPT ![r] = a], pending' \in [Requests -> Record],
         UNCHANGED <<now, mode, cfg, clear, clears, reloads>>
  PROVE  ControlOK' /\ CapturedInstants' /\ ClearHasDirectory'
  <1>1. ControlOK'
    BY DEF ControlOK, WellFormed, InPool
  <1>2. CapturedInstants'
    BY DEF ControlOK, CapturedInstants
  <1>3. ClearHasDirectory'
    BY DEF ClearHasDirectory
  <1>4. QED
    BY <1>1, <1>2, <1>3

\* A fresh attempt, as interceptAfterAuth begins it.
LEMMA BeginType ==
  ASSUME ControlOK, CapturedInstants, ClearHasDirectory, NEW r \in Requests,
         NEW c \in Keys, NEW dry \in BOOLEAN, NEW bare \in BOOLEAN,
         BeginAttempt(r, c, dry, bare), pending' \in [Requests -> Record],
         UNCHANGED <<now, mode, cfg, clear, clears, reloads>>
  PROVE  ControlOK' /\ CapturedInstants' /\ ClearHasDirectory'
  <1> DEFINE a == [Idle EXCEPT !.pc = IF bare THEN "sent" ELSE "begun",
                               !.carried = c, !.dry = dry, !.bare = bare]
  <1>1. a \in Attempt /\ a.pc \in {"sent", "begun"}
    BY LocalsType DEF Idle, Attempt
  <1>2. att' = [att EXCEPT ![r] = a]
    BY DEF BeginAttempt
  <1> HIDE DEF a
  <1>3. QED
    BY <1>1, <1>2, HandlerType

\* Locals of a handler that stays within its type.
LEMMA AttemptParts ==
  ASSUME ControlOK, CapturedInstants, NEW r \in Requests
  PROVE  /\ att[r] \in Attempt /\ pending[r] \in Record
         /\ att[r].carried \in Keys /\ att[r].key \in Keys
         /\ att[r].steered \in BOOLEAN /\ att[r].t \in Nat
         /\ att[r].pc \in {"recalled", "harvested"} => att[r].t \in 1..now
         /\ now \in Nat \ {0}
  BY DEF ControlOK, CapturedInstants, Attempt, Record

\* The locals recallRequestRecord leaves in the handler.
LEMMA RecalledType ==
  ASSUME NEW a \in Attempt, NEW rec \in Record, NEW t \in Nat
  PROVE  Recalled(a, rec, t) \in Attempt /\ Recalled(a, rec, t).t = t
  <1>1. PICK k \in Keys, s \in BOOLEAN : k = rec.key /\ s = rec.steered
    BY DEF Record
  <1>2. /\ [a EXCEPT !.pc = "recalled", !.key = k, !.steered = s, !.t = t] \in Attempt
        /\ [a EXCEPT !.pc = "recalled", !.key = k, !.steered = s, !.t = t].t = t
    BY DEF Attempt
  <1>3. QED
    BY <1>1, <1>2 DEF Recalled

\* The actions of one request.
LEMMA RequestType ==
  ASSUME IType, NEW r \in Requests, Intercept(r) \/ Respond(r)
  PROVE  IType'
  <1>0. StoreOK /\ ControlOK /\ CapturedInstants /\ ClearHasDirectory
    BY TypeSplit DEF IType
  <1> DEFINE Rest == ControlOK' /\ CapturedInstants' /\ ClearHasDirectory'
             Kept == UNCHANGED <<now, mode, cfg, clear, clears, reloads>>
  <1>a. StoreOK' /\ Rest => IType'
    BY TypeSplit DEF IType, TypeOK, StoreOK, ControlOK
  <1>b. pending \in [Requests -> Record]
    BY <1>0 DEF ControlOK
  <1>1. ASSUME NEW c \in Keys, InterceptProbe(r, c)
        PROVE  StoreOK' /\ Rest
    BY <1>0, <1>1, <1>b, StoreUnchanged, BeginType DEF InterceptProbe, clearVars
  <1>2. ASSUME NEW c \in Keys, NEW named \in BOOLEAN, InterceptAfterAuth(r, c, named)
        PROVE  StoreOK' /\ Rest
    <2> DEFINE rec == [NoRecord EXCEPT !.known = TRUE, !.at = now]
    <2>a. rec \in Record
      BY <1>0, AttemptParts DEF Record, NoRecord, Keys
    <2>1. pending' \in [Requests -> Record]
      BY <1>b, <1>2, <2>a, LocalsType DEF InterceptAfterAuth
    <2>2. cfg.dryRun \in BOOLEAN
      BY <1>0 DEF ControlOK, Config
    <2>3. QED
      BY <1>0, <1>2, <2>1, <2>2, StoreUnchanged, BeginType DEF InterceptAfterAuth, clearVars
  <1>3. CASE PassUnchanged(r)
    <2> DEFINE a == [att[r] EXCEPT !.pc = "sent", !.dry = FALSE]
    <2>1. a \in Attempt /\ a.pc = "sent"
      BY <1>0, AttemptParts DEF Attempt
    <2>2. att' = [att EXCEPT ![r] = a] /\ pending' \in [Requests -> Record] /\ Kept
      BY <1>3, <1>b DEF PassUnchanged, clearVars
    <2>3. StoreOK'
      BY <1>0, <1>3, StoreUnchanged DEF PassUnchanged
    <2> HIDE DEF a
    <2>4. QED
      BY <1>0, <1>a, <2>1, <2>2, <2>3, HandlerType
  <1>4. CASE RememberUnchanged(r)
    <2> DEFINE a == [att[r] EXCEPT !.pc = "sent", !.dry = FALSE]
               rec == [pending[r] EXCEPT !.key = IF pending[r].known
                                                 THEN att[r].carried ELSE NoPair]
    <2>1. a \in Attempt /\ a.pc = "sent"
      BY <1>0, AttemptParts DEF Attempt
    <2>2. rec \in Record
      BY <1>0, AttemptParts DEF Record, Keys
    <2>3. att' = [att EXCEPT ![r] = a] /\ pending' = [pending EXCEPT ![r] = rec] /\ Kept
      BY <1>4 DEF RememberUnchanged, clearVars
    <2>4. StoreOK'
      BY <1>0, <1>4, StoreUnchanged DEF RememberUnchanged
    <2> HIDE DEF a, rec
    <2>5. pending' \in [Requests -> Record]
      BY <1>b, <2>2, <2>3
    <2>6. QED
      BY <1>0, <1>a, <2>1, <2>3, <2>4, <2>5, HandlerType
  <1>5. ASSUME NEW k \in Pairs, ChooseRoute(r, k)
        PROVE  StoreOK' /\ Rest
    <2> DEFINE a == [att[r] EXCEPT !.pc = "chosen", !.key = k]
    <2>1. a \in Attempt /\ a.pc = "chosen"
      BY <1>0, AttemptParts DEF Attempt, Keys
    <2>2. att' = [att EXCEPT ![r] = a] /\ pending' \in [Requests -> Record] /\ Kept
      BY <1>5, <1>b DEF ChooseRoute, clearVars
    <2>3. StoreOK'
      BY <1>0, <1>5, StoreUnchanged DEF ChooseRoute
    <2> HIDE DEF a
    <2>4. QED
      BY <1>0, <2>1, <2>2, <2>3, HandlerType
  <1>6. CASE SendSteered(r)
    <2> DEFINE a == [att[r] EXCEPT !.pc = "sent", !.carried = att[r].key, !.key = NoPair]
               rec == IF pending[r].known
                      THEN [pending[r] EXCEPT !.steered = TRUE, !.key = att[r].key]
                      ELSE pending[r]
    <2>1. a \in Attempt /\ a.pc = "sent"
      BY <1>0, AttemptParts DEF Attempt, Keys
    <2>2. rec \in Record
      BY <1>0, AttemptParts DEF Record
    <2>3. att' = [att EXCEPT ![r] = a] /\ pending' = [pending EXCEPT ![r] = rec] /\ Kept
      BY <1>6 DEF SendSteered, clearVars
    <2>4. StoreOK'
      BY <1>0, <1>6, StoreUnchanged DEF SendSteered
    <2> HIDE DEF a, rec
    <2>5. pending' \in [Requests -> Record]
      BY <1>b, <2>2, <2>3
    <2>6. QED
      BY <1>0, <1>a, <2>1, <2>3, <2>4, <2>5, HandlerType
  <1>7. CASE RecallRequestRecord(r)
    <2> DEFINE rec == IF pending[r].known /\ now <= pending[r].at + PendingTTL
                      THEN pending[r] ELSE NoRecord
    <2>1. rec \in Record
      BY <1>0, AttemptParts, LocalsType
    <2> DEFINE a == Recalled(att[r], rec, now)
    <2>2. att' = [att EXCEPT ![r] = a] /\ pending' = [pending EXCEPT ![r] = NoRecord] /\ Kept
      BY <1>7 DEF RecallRequestRecord, clearVars
    <2>3. StoreOK'
      BY <1>0, <1>7, StoreUnchanged DEF RecallRequestRecord
    <2> HIDE DEF rec
    <2>4. now \in Nat \ {0} /\ a \in Attempt /\ a.t = now
      BY <1>0, <2>1, AttemptParts, RecalledType
    <2> HIDE DEF a
    <2>5. a.t \in 1..now
      BY <2>4
    <2>6. pending' \in [Requests -> Record]
      BY <1>b, <2>2, LocalsType
    <2>7. QED
      BY <1>0, <1>a, <2>2, <2>3, <2>4, <2>5, <2>6, HandlerType
  <1>8. CASE HarvestCookies(r)
    <2> DEFINE a == [att[r] EXCEPT !.pc = "harvested"]
    <2>1. a \in Attempt /\ a.t \in 1..now /\ att[r].t \in Nat \ {0}
      BY <1>0, <1>8, AttemptParts DEF Attempt, HarvestCookies
    <2>2. StoreOK'
      <3>1. CASE RevokeRouteCookie(att[r].key, att[r].t)
        BY <1>0, <2>1, <3>1, RevokeType
      <3>2. ASSUME NEW k \in Pairs, NEW life \in Lifetimes,
                   NoteRouteCookies(k, att[r].t, Deadline(att[r].t, life))
            PROVE  StoreOK'
        <4>1. Deadline(att[r].t, life) \in Nat
          BY <2>1, DeadlineType
        <4>2. QED
          BY <1>0, <2>1, <3>2, <4>1, NoteType
      <3>3. CASE UNCHANGED <<pool, fileVars, gone, clearedAway>>
        BY <1>0, <3>3, StoreUnchanged
      <3>4. QED
        BY <1>8, <3>1, <3>2, <3>3 DEF HarvestCookies
    <2>3. att' = [att EXCEPT ![r] = a] /\ pending' \in [Requests -> Record] /\ Kept
      BY <1>8, <1>b DEF HarvestCookies, clearVars
    <2> HIDE DEF a
    <2>4. QED
      BY <1>0, <1>a, <2>1, <2>2, <2>3, HandlerType
  <1>9. ASSUME NEW kind, HarvestOutcome(r, kind)
        PROVE  StoreOK' /\ Rest
    <2> DEFINE a == [att[r] EXCEPT !.pc = "scanning", !.t = 0]
    <2>1. a \in Attempt /\ a.pc = "scanning" /\ att[r].t \in Nat
      BY <1>0, AttemptParts DEF Attempt
    <2>2. StoreOK'
      <3>1. CASE att[r].steered
        BY <1>0, <1>9, <2>1, <3>1, MarkType DEF HarvestOutcome
      <3>2. CASE ~att[r].steered
        BY <1>0, <1>9, <3>2, StoreUnchanged DEF HarvestOutcome
      <3>3. QED
        BY <3>1, <3>2
    <2>3. att' = [att EXCEPT ![r] = a] /\ pending' \in [Requests -> Record] /\ Kept
      BY <1>9, <1>b DEF HarvestOutcome, clearVars
    <2> HIDE DEF a
    <2>4. QED
      BY <1>0, <2>1, <2>2, <2>3, HandlerType
  <1>10. CASE ServedModelMismatch(r)
    <2>1. StoreOK'
      BY <1>0, <1>10, AttemptParts, MarkType DEF ServedModelMismatch
    <2>2. att' = [att EXCEPT ![r] = Idle] /\ Idle.pc = "idle" /\ Kept
      BY <1>10 DEF ServedModelMismatch, clearVars, Idle
    <2>3. pending' \in [Requests -> Record]
      BY <1>10, <1>b DEF ServedModelMismatch
    <2>4. QED
      BY <1>0, <1>a, <2>1, <2>2, <2>3, LocalsType, HandlerType
  <1>11. CASE ResponseDone(r)
    <2>1. StoreOK'
      BY <1>0, <1>11, StoreUnchanged DEF ResponseDone
    <2>2. att' = [att EXCEPT ![r] = Idle] /\ Idle.pc = "idle" /\ Kept
      BY <1>11 DEF ResponseDone, clearVars, Idle
    <2>3. pending' \in [Requests -> Record]
      BY <1>11, <1>b DEF ResponseDone
    <2>4. QED
      BY <1>0, <1>a, <2>1, <2>2, <2>3, LocalsType, HandlerType
  <1> HIDE DEF Rest, Kept
  <1>12. QED
    BY <1>a, <1>1, <1>2, <1>3, <1>4, <1>5, <1>6, <1>7, <1>8, <1>9, <1>10, <1>11
       DEF Intercept, Respond

\* The actions of the operator and of the process.
LEMMA OperateType ==
  ASSUME IType, Operate
  PROVE  IType'
  <1>0. StoreOK /\ ControlOK /\ CapturedInstants /\ ClearHasDirectory
    BY TypeSplit DEF IType
  <1>a. StoreOK' /\ ControlOK' /\ CapturedInstants' /\ ClearHasDirectory' => IType'
    BY DEF IType, TypeOK, StoreOK, ControlOK
  <1>b. \A c \in Configs : c \in Config
    OBVIOUS
  <1>1. ASSUME NEW c \in Configs, Toggle(c)
        PROVE  IType'
    <2>1. StoreOK'
      BY <1>0, <1>1, StoreUnchanged DEF Toggle
    <2>2. ControlOK' /\ CapturedInstants' /\ ClearHasDirectory'
      BY <1>0, <1>1, <1>b DEF Toggle, ControlOK, CapturedInstants, ClearHasDirectory,
                              reqVars, clearVars, WellFormed, InPool
    <2>3. QED
      BY <1>a, <2>1, <2>2
  <1>2. ASSUME NEW c \in Configs, Reload(c), mode' \in {"up", "stopped", "crashed"}
        PROVE  IType'
    <2>1. pool' \in [Pairs -> Entry] /\ WellFormed(pool)'
      <3>1. c.dir \in Dirs \cup {NoDir}
        BY <1>b DEF Config
      <3>2. Load(c.dir) \in [Pairs -> Entry] /\ WellFormed(Load(c.dir))
        BY <1>0, <3>1, NoEntryType DEF Load, StoreOK
      <3>3. QED
        BY <1>2, <3>2 DEF Reload, WellFormed, InPool
    <2>2. StoreOK'
      BY <1>0, <1>2, <2>1 DEF Reload, StoreOK, WellFormed, InPool
    <2>3. ControlOK' /\ CapturedInstants' /\ ClearHasDirectory'
      BY <1>0, <1>2, <1>b DEF Reload, ControlOK, CapturedInstants, ClearHasDirectory,
                              reqVars, clearVars, WellFormed, InPool
    <2>4. QED
      BY <1>a, <2>2, <2>3
  <1>3. ASSUME NEW c \in Configs, Reconfigure(c)
        PROVE  IType'
    BY <1>0, <1>2, <1>3 DEF Reconfigure, ControlOK
  <1>4. ASSUME NEW c \in Configs, Start(c)
        PROVE  IType'
    BY <1>0, <1>2, <1>4 DEF Start, ControlOK
  <1>5. ASSUME GoDown, mode' \in {"up", "stopped", "crashed"},
               disk' \in [Dirs -> [Pairs -> Entry]], \A d \in Dirs : WellFormed(disk'[d]),
               offLock' \subseteq Dirs
        PROVE  IType'
    <2>1. StoreOK'
      BY <1>0, <1>5, NoEntryType DEF GoDown, StoreOK, WellFormed, InPool
    <2>2. ControlOK'
      BY <1>0, <1>5, LocalsType DEF GoDown, ControlOK, WellFormed, InPool
    <2>3. CapturedInstants' /\ ClearHasDirectory'
      BY <1>5 DEF GoDown, CapturedInstants, ClearHasDirectory, Idle, NoClear
    <2>4. QED
      BY <1>a, <2>1, <2>2, <2>3
  <1>6. CASE Crash
    <2>1. disk' = disk /\ offLock' = offLock
      BY <1>6 DEF Crash
    <2>2. QED
      BY <1>0, <1>5, <1>6, <2>1 DEF Crash, StoreOK
  <1>7. CASE Shutdown
    <2>1. CASE UNCHANGED <<disk, offLock>>
      BY <1>0, <1>5, <1>7, <2>1 DEF Shutdown, StoreOK
    <2>2. CASE /\ disk' = [disk EXCEPT ![cfg.dir] = Persisted(pool, now)]
               /\ offLock' = offLock \ {cfg.dir}
      <3>1. /\ disk' \in [Dirs -> [Pairs -> Entry]]
            /\ \A d \in Dirs : WellFormed(disk'[d])
            /\ offLock' \subseteq Dirs
        BY <1>0, <2>2, PersistedType DEF StoreOK
      <3>2. QED
        BY <1>5, <1>7, <3>1 DEF Shutdown
    <2>3. QED
      BY <1>7, <2>1, <2>2 DEF Shutdown
  <1>8. QED
    BY <1>1, <1>3, <1>4, <1>6, <1>7 DEF Operate

\* The sections of a "clear all" request.
LEMMA ClearType ==
  ASSUME IType, Clear
  PROVE  IType'
  <1>0. StoreOK /\ ControlOK /\ CapturedInstants /\ ClearHasDirectory
    BY TypeSplit DEF IType
  <1>a. StoreOK' /\ ControlOK' /\ CapturedInstants' /\ ClearHasDirectory' => IType'
    BY DEF IType, TypeOK, StoreOK, ControlOK
  <1>b. ASSUME UNCHANGED <<now, att>>
        PROVE  CapturedInstants'
    BY <1>0, <1>b DEF CapturedInstants
  <1>1. CASE ClearBegin
    <2>1. StoreOK'
      BY <1>0, <1>1, StoreUnchanged DEF ClearBegin
    <2>2. cfg.dir \in Dirs \cup {NoDir}
      BY <1>0 DEF ControlOK, Config
    <2>3. /\ clear' \in ClearState /\ clear'.pc = "begun" /\ clear'.doc = EmptyPool
      BY <1>1, <2>2, LocalsType DEF ClearBegin, ClearState, NoClear
    <2>4. ControlOK'
      BY <1>0, <1>1, <2>3, NoEntryType DEF ClearBegin, ControlOK, reqVars, WellFormed, InPool
    <2>5. QED
      BY <1>a, <1>b, <1>1, <2>1, <2>3, <2>4 DEF ClearBegin, ClearHasDirectory, reqVars
  <1>2. CASE ClearMemory
    <2>1. StoreOK'
      BY <1>0, <1>2, NoEntryType DEF ClearMemory, StoreOK, WellFormed, InPool
    <2>2. CASE clear.dir = NoDir
      <3>1. ControlOK'
        BY <1>0, <1>2, <2>2, LocalsType DEF ClearMemory, ControlOK, reqVars, WellFormed, InPool
      <3>2. QED
        BY <1>a, <1>b, <1>2, <2>1, <2>2, <3>1
           DEF ClearMemory, ClearHasDirectory, reqVars, NoClear
    <2>3. CASE clear.dir # NoDir
      <3> DEFINE c == [clear EXCEPT !.pc = "emptied"]
      <3>1. c \in ClearState /\ c.dir = clear.dir /\ c.dir \in Dirs /\ c.doc = clear.doc
        BY <1>0, <2>3 DEF ControlOK, ClearState
      <3>2. clear' = c
        BY <1>2, <2>3 DEF ClearMemory
      <3> HIDE DEF c
      <3>3. ControlOK'
        BY <1>0, <1>2, <3>1, <3>2 DEF ClearMemory, ControlOK, reqVars, WellFormed, InPool
      <3>4. QED
        BY <1>a, <1>b, <1>2, <2>1, <3>1, <3>2, <3>3
           DEF ClearMemory, ClearHasDirectory, reqVars
    <2>4. QED
      BY <2>2, <2>3
  <1>3. CASE ClearRender
    <2>1. StoreOK'
      BY <1>0, <1>3, StoreUnchanged DEF ClearRender
    <2> DEFINE doc == Persisted(pool, now)
               c == [clear EXCEPT !.pc = "copied", !.doc = doc]
    <2>2. doc \in [Pairs -> Entry] /\ WellFormed(doc)
      BY <1>0, PersistedType DEF StoreOK
    <2>3. clear' = c
      BY <1>3 DEF ClearRender
    <2> HIDE DEF doc
    <2>4. c \in ClearState /\ c.dir = clear.dir /\ c.doc = doc
      BY <1>0, <2>2 DEF ControlOK, ClearState
    <2>5. clear.dir \in Dirs
      BY <1>0, <1>3 DEF ClearRender, ClearHasDirectory
    <2> HIDE DEF c
    <2>6. ControlOK'
      BY <1>0, <1>3, <2>2, <2>3, <2>4 DEF ClearRender, ControlOK, reqVars, WellFormed, InPool
    <2>7. QED
      BY <1>a, <1>b, <1>3, <2>1, <2>3, <2>4, <2>5, <2>6
         DEF ClearRender, ClearHasDirectory, reqVars
  <1>4. CASE ClearWrite
    <2>1. clear.doc \in [Pairs -> Entry] /\ WellFormed(clear.doc) /\ clear.dir \in Dirs
      BY <1>0, <1>4 DEF ControlOK, ClearState, ClearWrite, ClearHasDirectory
    <2>2. /\ disk' \in [Dirs -> [Pairs -> Entry]]
          /\ \A d \in Dirs : WellFormed(disk'[d])
          /\ offLock' \subseteq Dirs
      BY <1>0, <1>4, <2>1 DEF ClearWrite, StoreOK
    <2>3. StoreOK'
      BY <1>0, <1>4, <2>2 DEF ClearWrite, StoreOK, WellFormed, InPool
    <2>4. ControlOK'
      BY <1>0, <1>4, LocalsType DEF ClearWrite, ControlOK, reqVars, WellFormed, InPool
    <2>5. QED
      BY <1>a, <1>b, <1>4, <2>3, <2>4 DEF ClearWrite, ClearHasDirectory, reqVars, NoClear
  <1>5. QED
    BY <1>1, <1>2, <1>3, <1>4 DEF Clear

LEMMA StepType == IType /\ [Next]_vars => IType'
  <1> SUFFICES ASSUME IType, [Next]_vars PROVE IType'
    OBVIOUS
  <1>0. StoreOK /\ ControlOK /\ CapturedInstants /\ ClearHasDirectory
    BY TypeSplit DEF IType
  <1>a. StoreOK' /\ ControlOK' /\ CapturedInstants' /\ ClearHasDirectory' => IType'
    BY DEF IType, TypeOK, StoreOK, ControlOK
  <1>1. ASSUME NEW k \in Pairs, NEW life \in Lifetimes, ProbeConsume(k, life)
        PROVE  IType'
    <2>1. now \in Nat \ {0} /\ Deadline(now, life) \in Nat
      BY <1>0, DeadlineType DEF ControlOK
    <2>2. StoreOK'
      BY <1>0, <1>1, <2>1, NoteType DEF ProbeConsume
    <2>3. ControlOK' /\ CapturedInstants' /\ ClearHasDirectory'
      BY <1>0, <1>1 DEF ProbeConsume, ControlOK, CapturedInstants, ClearHasDirectory,
                        reqVars, clearVars, WellFormed, InPool
    <2>4. QED
      BY <1>a, <2>2, <2>3
  <1>2. CASE Tick
    <2>1. StoreOK'
      BY <1>0, <1>2, StoreUnchanged DEF Tick
    <2>2. ControlOK' /\ CapturedInstants' /\ ClearHasDirectory'
      BY <1>0, <1>2 DEF Tick, ControlOK, CapturedInstants, ClearHasDirectory,
                        reqVars, clearVars, WellFormed, InPool
    <2>3. QED
      BY <1>a, <2>1, <2>2
  <1>3. CASE UNCHANGED vars
    <2>1. StoreOK'
      BY <1>0, <1>3, StoreUnchanged DEF vars, fileVars
    <2>2. ControlOK' /\ CapturedInstants' /\ ClearHasDirectory'
      BY <1>0, <1>3 DEF vars, ControlOK, CapturedInstants, ClearHasDirectory,
                        WellFormed, InPool
    <2>3. QED
      BY <1>a, <2>1, <2>2
  <1>4. QED
    BY <1>1, <1>2, <1>3, RequestType, OperateType, ClearType DEF Next

\* The variables keep their types: no handler, clear, reload or crash leaves a
\* pair with an outcome mark but no sighting, in the map or in a file.
THEOREM TypeCorrect == Spec => []TypeOK
  <1>1. IType => TypeOK
    BY DEF IType
  <1>2. QED
    BY <1>1, InitType, StepType, PTL DEF Spec

=============================================================================
