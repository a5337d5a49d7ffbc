------------------------ MODULE RouteCookiePoolSafety ------------------------
(***************************************************************************)
(* Proofs of the safety properties of RouteCookiePool, for every value of  *)
(* its constants.                                                          *)
(*                                                                         *)
(* EveryStep sorts the steps by what they do to the map and to the files;  *)
(* durability and the order of sightings follow from this classification.  *)
(* That a response is charged to the pair its own attempt carried follows  *)
(* from what pendingAuth may hold at every program point of a handler.     *)
(***************************************************************************)
EXTENDS RouteCookiePoolProofs

USE PoolConstants

\* Steps that leave the map, the files and the directory alone.
Bystander ==
    /\ UNCHANGED <<pool, fileVars, gone, clearedAway, mode, reloads>>
    /\ cfg'.dir = cfg.dir
    /\ now' \in {now, now + 1}

\* Steps of a handler that change the map with an instant of the past.
Kinds     == {"limited", "silent", "normal"}
Noting    == \E k \in Pairs, s \in 1..now, d \in Nat : NoteRouteCookies(k, s, d)
Revoking  == \E k \in Keys, t \in 1..now : RevokeRouteCookie(k, t)
Marking   == \E k \in Keys, kind \in Kinds, t \in 1..now : MarkRouteCookieOutcome(k, kind, t)
Handler   == (Noting \/ Revoking \/ Marking) /\ UNCHANGED <<now, mode, cfg, reloads>>

Reloading == mode' = "up" /\ \E c \in Configs : Reload(c)

\* Every step is of one of these kinds.
LEMMA EveryStep ==
  ASSUME IType, [Next]_vars
  PROVE  Bystander \/ Handler \/ ClearMemory \/ ClearWrite \/ Reloading \/ Crash \/ Shutdown
  <1>0. ControlOK /\ CapturedInstants /\ now \in Nat \ {0}
    BY TypeSplit DEF IType, ControlOK
  <1>1. ASSUME NEW r \in Requests, Intercept(r)
        PROVE  Bystander
    BY <1>1 DEF Intercept, InterceptProbe, InterceptAfterAuth, PassUnchanged,
       RememberUnchanged, ChooseRoute, SendSteered, Bystander, fileVars
  <1>2. ASSUME NEW r \in Requests, Respond(r)
        PROVE  Bystander \/ Handler
    <2>1. CASE RecallRequestRecord(r) \/ ResponseDone(r)
      BY <2>1 DEF RecallRequestRecord, ResponseDone, Bystander, fileVars
    <2>2. att[r].key \in Keys /\ now \in 1..now
      BY <1>0, AttemptParts
    <2>3. CASE HarvestCookies(r)
      <3>1. att[r].t \in 1..now /\ att[r].t \in Nat
        BY <1>0, <2>3, AttemptParts DEF HarvestCookies
      <3>2. UNCHANGED <<now, mode, cfg, reloads>>
        BY <2>3 DEF HarvestCookies
      <3>3. CASE RevokeRouteCookie(att[r].key, att[r].t)
        BY <2>2, <3>1, <3>2, <3>3 DEF Handler, Revoking
      <3>4. ASSUME NEW k \in Pairs, NEW life \in Lifetimes,
                   NoteRouteCookies(k, att[r].t, Deadline(att[r].t, life))
            PROVE  Handler
        <4>1. Deadline(att[r].t, life) \in Nat
          BY <3>1, DeadlineType
        <4>2. Noting
          BY <3>1, <3>4, <4>1 DEF Noting
        <4>3. QED
          BY <3>2, <4>2 DEF Handler
      <3>5. CASE UNCHANGED <<pool, fileVars, gone, clearedAway>>
        BY <3>2, <3>5 DEF Bystander
      <3>6. QED
        BY <2>3, <3>3, <3>4, <3>5 DEF HarvestCookies
    <2>4. ASSUME NEW kind \in {"limited", "silent", "normal"}, HarvestOutcome(r, kind)
          PROVE  Bystander \/ Handler
      <3>1. att[r].t \in 1..now /\ kind \in Kinds
        BY <1>0, <2>4, AttemptParts DEF HarvestOutcome, Kinds
      <3>2. UNCHANGED <<now, mode, cfg, reloads>>
        BY <2>4 DEF HarvestOutcome
      <3>3. CASE att[r].steered
        <4>1. MarkRouteCookieOutcome(att[r].key, kind, att[r].t)
          BY <2>4, <3>3 DEF HarvestOutcome
        <4>2. Marking
          BY <2>2, <3>1, <4>1 DEF Marking
        <4>3. QED
          BY <3>2, <4>2 DEF Handler
      <3>4. CASE ~att[r].steered
        BY <2>4, <3>2, <3>4 DEF HarvestOutcome, Bystander
      <3>5. QED
        BY <3>3, <3>4
    <2>5. CASE ServedModelMismatch(r)
      <3>1. MarkRouteCookieOutcome(att[r].key, "limited", now)
        BY <2>5 DEF ServedModelMismatch
      <3>2. Marking
        BY <2>2, <3>1 DEF Marking, Kinds
      <3>3. QED
        BY <2>5, <3>2 DEF ServedModelMismatch, Handler
    <2>6. QED
      BY <1>2, <2>1, <2>3, <2>4, <2>5 DEF Respond
  <1>3. ASSUME NEW k \in Pairs, NEW life \in Lifetimes, ProbeConsume(k, life)
        PROVE  Handler
    <2>1. Deadline(now, life) \in Nat /\ now \in 1..now
      BY <1>0, DeadlineType
    <2>2. NoteRouteCookies(k, now, Deadline(now, life))
      BY <1>3 DEF ProbeConsume
    <2>3. Noting
      BY <2>1, <2>2 DEF Noting
    <2>4. QED
      BY <1>3, <2>3 DEF ProbeConsume, Handler
  <1>4. CASE ClearBegin \/ ClearRender
    BY <1>4 DEF ClearBegin, ClearRender, Bystander, fileVars
  <1>5. CASE Tick \/ UNCHANGED vars
    BY <1>5 DEF Tick, vars, Bystander, fileVars
  <1>6. ASSUME NEW c \in Configs, Toggle(c) \/ Reconfigure(c) \/ Start(c)
        PROVE  Bystander \/ Reloading
    BY <1>6 DEF Toggle, Reconfigure, Start, Bystander, Reloading
  <1>7. QED
    BY <1>1, <1>2, <1>3, <1>4, <1>5, <1>6 DEF Next, Clear, Operate

-----------------------------------------------------------------------------
(* Durability. *)

FlushedInThePast == flushedAt <= now

GoneAreOut == \A k \in gone : ~InPool(pool, k)

\* The inductive invariant: what memory holds and the file agree whenever the
\* pool is clean, and no flush is stamped with an instant to come.
Durable == FlushedInThePast /\ CleanPoolIsDurable /\ GoneAreOut

\* What is past its life stays so.
LEMMA LapsedStays ==
  ASSUME NEW e \in Entry, NEW t \in Nat, NEW u \in Nat, t <= u, Lapsed(e, t)
  PROVE  Lapsed(e, u)
  <1>1. e.seen \in Nat /\ e.expire \in Nat /\ TTL \in Nat
    BY DEF Entry
  <1>2. QED
    BY <1>1 DEF Lapsed

\* A change of the map with its flush, stamped with an instant of the past.
LEMMA ChangePoolDurable ==
  ASSUME StoreOK, FlushedInThePast, now \in Nat, UNCHANGED <<now, mode, cfg>>,
         NEW p \in [Pairs -> Entry], WellFormed(p), NEW t \in 1..now, ChangePool(p, t)
  PROVE  FlushedInThePast' /\ CleanPoolIsDurable'
  <1>1. CASE dirty' = TRUE /\ flushedAt' = flushedAt
    BY <1>1 DEF FlushedInThePast, CleanPoolIsDurable, Clean
  <1>2. CASE /\ cfg.dir # NoDir
             /\ disk' = [disk EXCEPT ![cfg.dir] = Persisted(p, t)]
             /\ flushedAt' = t
    <2>1. FlushedInThePast'
      BY <1>2 DEF FlushedInThePast
    <2>2. ASSUME Clean', NEW k \in Pairs
          PROVE  Saved(k)'
      <3>1. pool' = p /\ cfg.dir \in Dirs
        BY <2>2 DEF ChangePool, Clean
      <3>2. disk'[cfg'.dir][k] = IF EntryUsable(p[k], t) THEN p[k] ELSE NoEntry
        BY <1>2, <3>1 DEF StoreOK, Persisted
      <3>3. CASE EntryUsable(p[k], t)
        BY <3>1, <3>2, <3>3 DEF Saved
      <3>4. CASE p[k].seen = 0
        <4>1. p[k] = NoEntry
          BY <3>4 DEF WellFormed, InPool
        <4>2. QED
          BY <3>1, <3>2, <4>1 DEF Saved
      <3>5. CASE p[k].seen > t
        <4>1. ~EntryUsable(p[k], t)
          BY <3>5 DEF EntryUsable, Entry
        <4>2. QED
          BY <1>2, <3>1, <3>2, <3>5, <4>1 DEF Saved
      <3>6. CASE Lapsed(p[k], t) /\ p[k].seen # 0
        <4>1. Lapsed(p[k], now)
          BY <3>6, LapsedStays
        <4>2. ~EntryUsable(p[k], t)
          BY <3>6 DEF EntryUsable
        <4>3. QED
          BY <3>1, <3>2, <4>1, <4>2 DEF Saved
      <3>7. QED
        BY <3>3, <3>4, <3>5, <3>6 DEF EntryUsable, Entry
    <2>3. QED
      BY <2>1, <2>2 DEF CleanPoolIsDurable
  <1>3. QED
    BY <1>1, <1>2 DEF ChangePool

\* A step that leaves the map and the files alone; time may pass.
LEMMA BystanderDurable ==
  ASSUME StoreOK, now \in Nat, Durable, Bystander
  PROVE  Durable'
  <1>1. FlushedInThePast'
    BY DEF Durable, FlushedInThePast, Bystander, fileVars, StoreOK
  <1>2. GoneAreOut'
    BY DEF Durable, GoneAreOut, Bystander, InPool
  <1>3. ASSUME Clean', NEW k \in Pairs
        PROVE  Saved(k)'
    <2>1. Clean
      BY <1>3 DEF Clean, Bystander, fileVars
    <2>2. Saved(k)
      BY <2>1 DEF Durable, CleanPoolIsDurable
    <2>3. pool[k] \in Entry /\ (Lapsed(pool[k], now) => Lapsed(pool[k], now'))
      BY LapsedStays DEF StoreOK, Bystander
    <2>4. QED
      BY <2>2, <2>3 DEF Saved, Bystander, fileVars, Lapsed
  <1>4. QED
    BY <1>1, <1>2, <1>3 DEF Durable, CleanPoolIsDurable

LEMMA HandlerDurable ==
  ASSUME StoreOK, now \in Nat \ {0}, Durable, Handler
  PROVE  Durable'
  <1>1. ASSUME NEW k \in Pairs, NEW s \in 1..now, NEW d \in Nat, NoteRouteCookies(k, s, d)
        PROVE  Durable'
    <2> DEFINE e == pool[k]
               noted == [seen   |-> IF s > e.seen THEN s ELSE e.seen,
                         expire |-> IF d # 0 THEN d ELSE e.expire,
                         good   |-> e.good,
                         bad    |-> e.bad]
               p == [pool EXCEPT ![k] = noted]
    <2>1. e \in Entry
      BY DEF StoreOK
    <2>2. noted \in Entry /\ noted.seen # 0
      BY <2>1 DEF Entry
    <2>3. p \in [Pairs -> Entry] /\ WellFormed(p)
      BY <2>2 DEF StoreOK, WellFormed, InPool
    <2>4. ChangePool(p, now) /\ now \in 1..now
      BY <1>1 DEF NoteRouteCookies
    <2>5. FlushedInThePast' /\ CleanPoolIsDurable'
      BY <2>3, <2>4, ChangePoolDurable DEF Durable, Handler
    <2> HIDE DEF noted
    <2>6. pool' = p /\ gone' = gone \ {k}
      BY <1>1, <2>4 DEF NoteRouteCookies, ChangePool
    <2>7. GoneAreOut'
      BY <2>6 DEF Durable, GoneAreOut, InPool, StoreOK
    <2>8. QED
      BY <2>5, <2>7 DEF Durable
  <1>2. ASSUME NEW k \in Keys, NEW t \in 1..now, RevokeRouteCookie(k, t)
        PROVE  Durable'
    <2>1. CASE k \in Pairs /\ InPool(pool, k)
      <3> DEFINE p == [pool EXCEPT ![k] = NoEntry]
      <3>1. p \in [Pairs -> Entry] /\ WellFormed(p)
        BY NoEntryType DEF StoreOK, WellFormed, InPool
      <3>2. ChangePool(p, t) /\ gone' = gone \cup {k}
        BY <1>2, <2>1 DEF RevokeRouteCookie
      <3>3. FlushedInThePast' /\ CleanPoolIsDurable'
        BY <3>1, <3>2, ChangePoolDurable DEF Durable, Handler
      <3>4. pool' = p
        BY <3>2 DEF ChangePool
      <3>5. GoneAreOut'
        BY <2>1, <3>2, <3>4 DEF Durable, GoneAreOut, InPool, NoEntry, StoreOK
      <3>6. QED
        BY <3>3, <3>5 DEF Durable
    <2>2. CASE ~(k \in Pairs /\ InPool(pool, k))
      BY <1>2, <2>2 DEF RevokeRouteCookie, Durable, FlushedInThePast, CleanPoolIsDurable,
         GoneAreOut, Clean, Saved, InPool, Lapsed, Handler
    <2>3. QED
      BY <2>1, <2>2
  <1>3. ASSUME NEW k \in Keys, NEW kind \in Kinds, NEW t \in 1..now,
               MarkRouteCookieOutcome(k, kind, t)
        PROVE  Durable'
    <2>1. CASE k \in Pairs /\ InPool(pool, k) /\ kind # "silent"
      <3> DEFINE m == Marked(pool[k], kind, t)
                 p == [pool EXCEPT ![k] = m]
      <3>1. m \in Entry /\ m.seen = pool[k].seen
        BY <2>1 DEF Marked, Entry, StoreOK
      <3>2. p \in [Pairs -> Entry] /\ WellFormed(p)
        BY <3>1, <2>1 DEF StoreOK, WellFormed, InPool
      <3>3. ChangePool(p, t) /\ gone' = gone
        BY <1>3, <2>1 DEF MarkRouteCookieOutcome
      <3>4. FlushedInThePast' /\ CleanPoolIsDurable'
        BY <3>2, <3>3, ChangePoolDurable DEF Durable, Handler
      <3> HIDE DEF m
      <3>5. pool' = p
        BY <3>3 DEF ChangePool
      <3>6. GoneAreOut'
        BY <2>1, <3>1, <3>3, <3>5 DEF Durable, GoneAreOut, InPool, StoreOK
      <3>7. QED
        BY <3>4, <3>6 DEF Durable
    <2>2. CASE ~(k \in Pairs /\ InPool(pool, k) /\ kind # "silent")
      BY <1>3, <2>2 DEF MarkRouteCookieOutcome, Durable, FlushedInThePast,
         CleanPoolIsDurable, GoneAreOut, Clean, Saved, InPool, Lapsed, Handler
    <2>3. QED
      BY <2>1, <2>2
  <1>4. QED
    BY <1>1, <1>2, <1>3 DEF Handler, Noting, Revoking, Marking

LEMMA DurableStep == IType /\ Durable /\ [Next]_vars => Durable'
  <1> SUFFICES ASSUME IType, Durable, [Next]_vars PROVE Durable'
    OBVIOUS
  <1>0. StoreOK /\ ControlOK /\ ClearHasDirectory /\ now \in Nat \ {0} /\ flushedAt \in Nat
    BY TypeSplit DEF IType, ControlOK, StoreOK
  <1>1. CASE Bystander
    BY <1>0, <1>1, BystanderDurable
  <1>2. CASE Handler
    BY <1>0, <1>2, HandlerDurable
  <1>3. CASE ClearMemory
    BY <1>0, <1>3 DEF ClearMemory, Durable, FlushedInThePast, CleanPoolIsDurable, Clean,
       GoneAreOut, InPool, EmptyPool, NoEntry, StoreOK
  <1>4. CASE ClearWrite
    <2>1. /\ UNCHANGED <<now, mode, cfg, pool, dirty, flushedAt, gone>>
          /\ offLock \subseteq offLock'
          /\ disk' = disk \/ (/\ disk' = [disk EXCEPT ![clear.dir] = clear.doc]
                              /\ clear.dir \in offLock')
      BY <1>4 DEF ClearWrite
    <2>2. FlushedInThePast' /\ GoneAreOut'
      BY <2>1 DEF Durable, FlushedInThePast, GoneAreOut, InPool
    <2>3. ASSUME Clean', NEW k \in Pairs
          PROVE  Saved(k)'
      <3>1. Clean /\ disk'[cfg.dir] = disk[cfg.dir]
        BY <1>0, <2>1, <2>3 DEF Clean, StoreOK
      <3>2. Saved(k)
        BY <3>1 DEF Durable, CleanPoolIsDurable
      <3>3. QED
        BY <2>1, <3>1, <3>2 DEF Saved, Lapsed
    <2>4. QED
      BY <2>2, <2>3 DEF Durable, CleanPoolIsDurable
  <1>5. CASE Reloading
    <2>1. PICK c \in Configs : Reload(c)
      BY <1>5 DEF Reloading
    <2>2. FlushedInThePast' /\ GoneAreOut'
      BY <1>0, <2>1 DEF Reload, FlushedInThePast, GoneAreOut
    <2>3. ASSUME Clean', NEW k \in Pairs
          PROVE  Saved(k)'
      BY <2>1, <2>3 DEF Clean, Reload, Load, Saved
    <2>4. QED
      BY <2>2, <2>3 DEF Durable, CleanPoolIsDurable
  <1>6. CASE Crash \/ Shutdown
    <2>1. GoDown /\ mode' # "up"
      BY <1>6 DEF Crash, Shutdown
    <2>2. QED
      BY <1>0, <2>1 DEF GoDown, Durable, FlushedInThePast, CleanPoolIsDurable, Clean, GoneAreOut
  <1>7. QED
    BY <1>1, <1>2, <1>3, <1>4, <1>5, <1>6, EveryStep

LEMMA DurableInit == Init => Durable
  BY DEF Init, Durable, FlushedInThePast, CleanPoolIsDurable, Saved, Clean, GoneAreOut,
     Config, EmptyPool

LEMMA Invariant == Spec => [](IType /\ Durable)
  <1>1. Init => IType /\ Durable
    BY InitType, DurableInit
  <1>2. IType /\ Durable /\ [Next]_vars => (IType /\ Durable)'
    BY StepType, DurableStep
  <1>3. QED
    BY <1>1, <1>2, PTL DEF Spec

\* Whenever cookiesDirty is false, a restart reads back every pair of the map
\* that is still alive: flushes, failed writes, reloads and clears included.
THEOREM CleanPoolDurable == Spec => []CleanPoolIsDurable
  <1>1. Durable => CleanPoolIsDurable
    BY DEF Durable
  <1>2. QED
    BY <1>1, Invariant, PTL

\* A revoked or cleared pair stays out of the map, and out of the file once the
\* pool is clean, until it is harvested again.
THEOREM RemovedStayOut == Spec => []RemovedPairsStayOut
  <1>1. IType /\ Durable => RemovedPairsStayOut
    <2> SUFFICES ASSUME IType, Durable, NEW k \in gone
                 PROVE  ~InPool(pool, k) /\ (Clean => ~InPool(disk[cfg.dir], k))
      BY DEF RemovedPairsStayOut
    <2>1. ~InPool(pool, k) /\ k \in Pairs /\ StoreOK
      BY TypeSplit DEF IType, StoreOK, Durable, GoneAreOut
    <2>2. pool[k] = NoEntry
      BY <2>1 DEF StoreOK, WellFormed
    <2>3. ASSUME Clean
          PROVE  ~InPool(disk[cfg.dir], k)
      <3>1. Saved(k)
        BY <2>1, <2>3 DEF Durable, CleanPoolIsDurable
      <3>2. QED
        BY <2>2, <3>1 DEF Saved, InPool, NoEntry
    <2>4. QED
      BY <2>1, <2>3
  <1>2. QED
    BY <1>1, Invariant, PTL

\* An orderly shutdown leaves every usable pair in the file: one that is not
\* dirty was there already, a dirty pool is written past the throttle.
THEOREM ShutdownSaves == Spec => ShutdownKeepsThePool
  <1>1. IType /\ Durable /\ [Next]_vars
        => [mode = "up" /\ mode' = "stopped" /\ cfg.dir \in Dirs \ offLock'
            => \A k \in Usable(pool, now) :
                  \/ disk'[cfg.dir][k] = pool[k]
                  \/ ~dirty /\ pool[k].seen > flushedAt]_vars
    <2> SUFFICES ASSUME IType, Durable, [Next]_vars, mode = "up", mode' = "stopped",
                        cfg.dir \in Dirs \ offLock', NEW k \in Usable(pool, now)
                 PROVE  \/ disk'[cfg.dir][k] = pool[k]
                        \/ ~dirty /\ pool[k].seen > flushedAt
      OBVIOUS
    <2>1. StoreOK /\ k \in Pairs /\ EntryUsable(pool[k], now)
      BY TypeSplit DEF IType, Usable
    <2>2. Shutdown
      BY EveryStep DEF Bystander, Handler, ClearMemory, ClearWrite, Reloading, Crash
    <2>3. CASE dirty
      BY <2>1, <2>2, <2>3 DEF Shutdown, Persisted, StoreOK
    <2>4. CASE ~dirty
      <3>1. Clean /\ disk' = disk
        BY <2>2, <2>4 DEF Shutdown, Clean
      <3>2. Saved(k) /\ ~Lapsed(pool[k], now)
        BY <2>1, <3>1 DEF Durable, CleanPoolIsDurable, EntryUsable
      <3>3. QED
        BY <2>4, <3>1, <3>2 DEF Saved
    <2>5. QED
      BY <2>3, <2>4
  <1>2. QED
    BY <1>1, Invariant, PTL DEF Spec, ShutdownKeepsThePool

-----------------------------------------------------------------------------
(* The order of sightings. *)

\* SeenAt of a pair in the map never moves back, whatever the order in which
\* its responses are handled.
THEOREM SightingsForward == Spec => SightingsMoveForward
  <1>1. IType /\ [Next]_vars
        => [\A k \in Pairs :
               reloads' = reloads /\ InPool(pool, k) /\ InPool(pool', k)
               => pool'[k].seen >= pool[k].seen]_vars
    <2> SUFFICES ASSUME IType, [Next]_vars, NEW k \in Pairs, reloads' = reloads,
                        InPool(pool, k), InPool(pool', k)
                 PROVE  pool'[k].seen >= pool[k].seen
      OBVIOUS
    <2>0. StoreOK /\ reloads \in Nat /\ pool[k].seen \in Nat
      BY TypeSplit DEF IType, StoreOK, ControlOK, Entry
    <2>1. CASE pool' = pool
      BY <2>0, <2>1
    <2>2. CASE Handler
      <3>1. ASSUME NEW j \in Pairs, NEW s \in 1..now, NEW d \in Nat, NoteRouteCookies(j, s, d)
            PROVE  pool'[k].seen >= pool[k].seen
        <4>1. pool[j].seen \in Nat /\ now \in Nat /\ s \in Nat
          BY TypeSplit DEF IType, StoreOK, ControlOK, Entry
        <4>2. pool'[j].seen = IF s > pool[j].seen THEN s ELSE pool[j].seen
          BY <2>0, <3>1 DEF NoteRouteCookies, ChangePool, StoreOK
        <4>3. j # k => pool'[k] = pool[k]
          BY <2>0, <3>1 DEF NoteRouteCookies, ChangePool, StoreOK
        <4>4. QED
          BY <2>0, <4>1, <4>2, <4>3
      <3>2. ASSUME NEW j \in Keys, NEW t \in 1..now, RevokeRouteCookie(j, t)
            PROVE  pool'[k] = pool[k]
        BY <2>0, <3>2 DEF RevokeRouteCookie, ChangePool, StoreOK, InPool, NoEntry
      <3>3. ASSUME NEW j \in Keys, NEW kind \in Kinds, NEW t \in 1..now,
                   MarkRouteCookieOutcome(j, kind, t)
            PROVE  pool'[k].seen = pool[k].seen
        BY <2>0, <3>3 DEF MarkRouteCookieOutcome, ChangePool, StoreOK, Marked, Entry
      <3>4. QED
        BY <2>0, <2>2, <3>1, <3>2, <3>3 DEF Handler, Noting, Revoking, Marking
    <2>3. CASE ClearMemory \/ Crash \/ Shutdown
      BY <2>3 DEF ClearMemory, Crash, Shutdown, GoDown, InPool, EmptyPool, NoEntry
    <2>4. ~Reloading
      BY <2>0 DEF Reloading, Reload
    <2>5. QED
      BY <2>1, <2>2, <2>3, <2>4, EveryStep DEF Bystander, ClearWrite
  <1>2. QED
    BY <1>1, Invariant, PTL DEF Spec, SightingsMoveForward


-------------------------------------------------------------------------------
(***************************************************************************)
(* Proof that a response is charged to the pair its own attempt carried.   *)
(*                                                                         *)
(* A request id is reused by the host and its record in pendingAuth is     *)
(* written, read and removed in different critical sections; the invariant *)
(* says what the record and the handler's locals may name at each of them. *)
(***************************************************************************)

\* Until the request is steered its record names no pair; once it is sent, and
\* until its record is recalled, the record names the pair it carries or none;
\* what a handler recalled from it is the pair the attempt carried.
Faithful(a, rec) ==
    /\ a.pc \in {"begun", "chosen"} => rec.key = NoPair
    /\ a.pc = "sent" /\ ~a.bare /\ rec.key # NoPair => rec.key = a.carried
    /\ a.pc \in {"recalled", "harvested", "scanning"} /\ ~a.bare /\ a.key # NoPair
         => a.key = a.carried

Charges == \A r \in Requests : Faithful(att[r], pending[r])

\* A step of one handler.
LEMMA OneHandler ==
  ASSUME Charges, ControlOK, NEW r \in Requests, NEW a, NEW rec, Faithful(a, rec),
         att' = [att EXCEPT ![r] = a], pending' = [pending EXCEPT ![r] = rec]
  PROVE  Charges'
  BY DEF Charges, Faithful, ControlOK

LEMMA FreshAttempt ==
  ASSUME Charges, ControlOK, NEW r \in Requests, NEW c \in Keys, NEW dry \in BOOLEAN,
         NEW bare \in BOOLEAN, NEW rec \in Record, BeginAttempt(r, c, dry, bare),
         bare \/ rec.key = NoPair, pending' = [pending EXCEPT ![r] = rec]
  PROVE  Charges'
  <1> DEFINE a == [Idle EXCEPT !.pc = IF bare THEN "sent" ELSE "begun",
                               !.carried = c, !.dry = dry, !.bare = bare]
  <1>1. a.pc = (IF bare THEN "sent" ELSE "begun") /\ a.bare = bare
    BY DEF Idle
  <1>2. att' = [att EXCEPT ![r] = a]
    BY DEF BeginAttempt
  <1> HIDE DEF a
  <1>3. Faithful(a, rec)
    BY <1>1 DEF Faithful
  <1>4. QED
    BY <1>2, <1>3, OneHandler

\* The actions of one request.
LEMMA ChargesRequest ==
  ASSUME ControlOK, Charges, NEW r \in Requests, Intercept(r) \/ Respond(r), StoreOK,
         CapturedInstants
  PROVE  Charges'
  <1>0. att[r] \in Attempt /\ pending[r] \in Record /\ Faithful(att[r], pending[r])
    BY AttemptParts DEF Charges
  <1>a. pending = [pending EXCEPT ![r] = pending[r]] /\ att = [att EXCEPT ![r] = att[r]]
    BY DEF ControlOK
  <1>1. ASSUME NEW c \in Keys, InterceptProbe(r, c)
        PROVE  Charges'
    BY <1>0, <1>a, <1>1, FreshAttempt DEF InterceptProbe
  <1>2. ASSUME NEW c \in Keys, NEW named \in BOOLEAN, InterceptAfterAuth(r, c, named)
        PROVE  Charges'
    <2> DEFINE rec == IF named THEN [NoRecord EXCEPT !.known = TRUE, !.at = now] ELSE NoRecord
    <2>1. rec \in Record /\ rec.key = NoPair
      BY AttemptParts DEF Record, NoRecord, Keys
    <2>2. pending' = [pending EXCEPT ![r] = rec] /\ BeginAttempt(r, c, cfg.dryRun, FALSE)
      BY <1>2 DEF InterceptAfterAuth
    <2>3. cfg.dryRun \in BOOLEAN
      BY DEF ControlOK, Config
    <2> HIDE DEF rec
    <2>4. QED
      BY <2>1, <2>2, <2>3, FreshAttempt
  <1>3. CASE PassUnchanged(r)
    <2> DEFINE a == [att[r] EXCEPT !.pc = "sent", !.dry = FALSE]
    <2>1. a.pc = "sent" /\ a.bare = att[r].bare /\ a.carried = att[r].carried
      BY <1>0 DEF Attempt
    <2>2. /\ att' = [att EXCEPT ![r] = a] /\ pending' = [pending EXCEPT ![r] = pending[r]]
          /\ att[r].pc = "begun"
      BY <1>a, <1>3 DEF PassUnchanged
    <2> HIDE DEF a
    <2>3. Faithful(a, pending[r])
      BY <1>0, <2>1, <2>2 DEF Faithful
    <2>4. QED
      BY <2>2, <2>3, OneHandler
  <1>4. CASE RememberUnchanged(r)
    <2> DEFINE a == [att[r] EXCEPT !.pc = "sent", !.dry = FALSE]
               key == IF pending[r].known THEN att[r].carried ELSE NoPair
               rec == [pending[r] EXCEPT !.key = key]
    <2>1. a.pc = "sent" /\ a.carried = att[r].carried /\ rec.key = key
      BY <1>0 DEF Attempt, Record
    <2>2. att' = [att EXCEPT ![r] = a] /\ pending' = [pending EXCEPT ![r] = rec]
      BY <1>4 DEF RememberUnchanged
    <2>3. key \in {NoPair, att[r].carried}
      OBVIOUS
    <2> HIDE DEF a, rec, key
    <2>4. Faithful(a, rec)
      BY <2>1, <2>3 DEF Faithful
    <2>5. QED
      BY <2>2, <2>4, OneHandler
  <1>5. ASSUME NEW k \in Pairs, ChooseRoute(r, k)
        PROVE  Charges'
    <2> DEFINE a == [att[r] EXCEPT !.pc = "chosen", !.key = k]
    <2>1. a.pc = "chosen"
      BY <1>0 DEF Attempt
    <2>2. /\ att' = [att EXCEPT ![r] = a] /\ pending' = [pending EXCEPT ![r] = pending[r]]
          /\ att[r].pc = "begun"
      BY <1>a, <1>5 DEF ChooseRoute
    <2> HIDE DEF a
    <2>3. Faithful(a, pending[r])
      BY <1>0, <2>1, <2>2 DEF Faithful
    <2>4. QED
      BY <2>2, <2>3, OneHandler
  <1>6. CASE SendSteered(r)
    <2> DEFINE a == [att[r] EXCEPT !.pc = "sent", !.carried = att[r].key, !.key = NoPair]
               rec == IF pending[r].known
                      THEN [pending[r] EXCEPT !.steered = TRUE, !.key = att[r].key]
                      ELSE pending[r]
    <2>1. a.pc = "sent" /\ a.carried = att[r].key /\ rec.key \in {pending[r].key, att[r].key}
      BY <1>0 DEF Attempt, Record
    <2>2. /\ att' = [att EXCEPT ![r] = a] /\ pending' = [pending EXCEPT ![r] = rec]
          /\ att[r].pc = "chosen"
      BY <1>6 DEF SendSteered
    <2> HIDE DEF a, rec
    <2>3. Faithful(a, rec)
      BY <1>0, <2>1, <2>2 DEF Faithful
    <2>4. QED
      BY <2>2, <2>3, OneHandler
  <1>7. CASE RecallRequestRecord(r)
    <2> DEFINE rec == IF pending[r].known /\ now <= pending[r].at + PendingTTL
                      THEN pending[r] ELSE NoRecord
               a == Recalled(att[r], rec, now)
    <2>1. /\ a.pc = "recalled" /\ a.bare = att[r].bare /\ a.carried = att[r].carried
          /\ a.key = rec.key
      BY <1>0 DEF Attempt, Recalled
    <2>2. rec.key \in {NoPair, pending[r].key} /\ NoRecord.key = NoPair
      BY DEF NoRecord
    <2>3. /\ att' = [att EXCEPT ![r] = a] /\ pending' = [pending EXCEPT ![r] = NoRecord]
          /\ att[r].pc = "sent"
      BY <1>7 DEF RecallRequestRecord
    <2> HIDE DEF a, rec
    <2>4. Faithful(a, NoRecord)
      BY <1>0, <2>1, <2>2, <2>3 DEF Faithful
    <2>5. QED
      BY <2>3, <2>4, OneHandler
  <1>8. CASE HarvestCookies(r)
    <2> DEFINE a == [att[r] EXCEPT !.pc = "harvested"]
    <2>1. /\ a.pc = "harvested" /\ a.bare = att[r].bare /\ a.carried = att[r].carried
          /\ a.key = att[r].key
      BY <1>0 DEF Attempt
    <2>2. /\ att' = [att EXCEPT ![r] = a] /\ pending' = [pending EXCEPT ![r] = pending[r]]
          /\ att[r].pc = "recalled"
      BY <1>a, <1>8 DEF HarvestCookies
    <2> HIDE DEF a
    <2>3. Faithful(a, pending[r])
      BY <1>0, <2>1, <2>2 DEF Faithful
    <2>4. QED
      BY <2>2, <2>3, OneHandler
  <1>9. ASSUME NEW kind, HarvestOutcome(r, kind)
        PROVE  Charges'
    <2> DEFINE a == [att[r] EXCEPT !.pc = "scanning", !.t = 0]
    <2>1. /\ a.pc = "scanning" /\ a.bare = att[r].bare /\ a.carried = att[r].carried
          /\ a.key = att[r].key
      BY <1>0 DEF Attempt
    <2>2. /\ att' = [att EXCEPT ![r] = a] /\ pending' = [pending EXCEPT ![r] = pending[r]]
          /\ att[r].pc = "harvested"
      BY <1>a, <1>9 DEF HarvestOutcome
    <2> HIDE DEF a
    <2>3. Faithful(a, pending[r])
      BY <1>0, <2>1, <2>2 DEF Faithful
    <2>4. QED
      BY <2>2, <2>3, OneHandler
  <1>10. CASE ServedModelMismatch(r) \/ ResponseDone(r)
    <2>1. att' = [att EXCEPT ![r] = Idle] /\ pending' = [pending EXCEPT ![r] = pending[r]]
      BY <1>a, <1>10 DEF ServedModelMismatch, ResponseDone
    <2>2. Faithful(Idle, pending[r])
      BY DEF Faithful, Idle
    <2>3. QED
      BY <2>1, <2>2, OneHandler
  <1>11. QED
    BY <1>1, <1>2, <1>3, <1>4, <1>5, <1>6, <1>7, <1>8, <1>9, <1>10 DEF Intercept, Respond

LEMMA ChargesInit == Init => Charges
  BY DEF Init, Charges, Faithful, Idle

LEMMA ChargesStep == IType /\ Charges /\ [Next]_vars => Charges'
  <1> SUFFICES ASSUME IType, Charges, [Next]_vars PROVE Charges'
    OBVIOUS
  <1>0. StoreOK /\ ControlOK /\ CapturedInstants
    BY TypeSplit DEF IType
  <1>1. ASSUME UNCHANGED reqVars PROVE Charges'
    BY <1>1 DEF Charges, reqVars
  <1>2. ASSUME GoDown PROVE Charges'
    BY <1>2 DEF GoDown, Charges, Faithful, Idle
  <1>3. CASE Clear \/ Tick \/ UNCHANGED vars
    BY <1>1, <1>3 DEF Clear, ClearBegin, ClearMemory, ClearRender, ClearWrite, Tick, vars,
                      reqVars
  <1>4. CASE Operate
    BY <1>1, <1>2, <1>4 DEF Operate, Toggle, Reconfigure, Start, Reload, Crash, Shutdown
  <1>5. ASSUME NEW k \in Pairs, NEW life \in Lifetimes, ProbeConsume(k, life)
        PROVE  Charges'
    BY <1>1, <1>5 DEF ProbeConsume
  <1>6. QED
    BY <1>0, <1>3, <1>4, <1>5, ChargesRequest DEF Next

-----------------------------------------------------------------------------
(* What a step may do to the marks of a pair. *)

Marks(p, k) == <<p[k].good, p[k].bad>>

LEMMA ChargedCarrier ==
  ASSUME IType, Charges, Next, NEW k \in Pairs, mode' = "up", reloads' = reloads,
         clear' = clear, InPool(pool, k), Marks(pool', k) # Marks(pool, k)
  PROVE  \E r \in Requests : Moved(r) /\ (att[r].carried = k \/ att[r].bare)
  <1>0. StoreOK /\ ControlOK /\ CapturedInstants /\ reloads \in Nat
    BY TypeSplit DEF IType, ControlOK
  <1>1. pool' # pool
    BY DEF Marks
  <1>2. ASSUME NEW j \in Pairs, NEW s, NEW d, NoteRouteCookies(j, s, d)
        PROVE  FALSE
    <2>1. pool'[k].good = pool[k].good /\ pool'[k].bad = pool[k].bad
      BY <1>0, <1>2 DEF NoteRouteCookies, ChangePool, StoreOK
    <2>2. QED
      BY <2>1 DEF Marks
  <1>3. ASSUME NEW j, NEW t, RevokeRouteCookie(j, t)
        PROVE  j = k
    BY <1>0, <1>1, <1>3 DEF RevokeRouteCookie, ChangePool, StoreOK, Marks
  <1>4. ASSUME NEW j, NEW kind, NEW t, MarkRouteCookieOutcome(j, kind, t)
        PROVE  j = k
    BY <1>0, <1>1, <1>4 DEF MarkRouteCookieOutcome, ChangePool, StoreOK, Marks
  <1>5. ASSUME NEW r \in Requests, att[r].key = k,
               att[r].pc \in {"recalled", "harvested", "scanning"}, att'[r].pc # att[r].pc
        PROVE  Moved(r) /\ (att[r].carried = k \/ att[r].bare)
    BY <1>5 DEF Charges, Faithful, Moved
  <1>6. ASSUME NEW r \in Requests, Respond(r)
        PROVE  Moved(r) /\ (att[r].carried = k \/ att[r].bare)
    <2>0. att \in [Requests -> Attempt] /\ att[r] \in Attempt
      BY <1>0 DEF ControlOK
    <2>1. CASE RecallRequestRecord(r) \/ ResponseDone(r)
      BY <1>1, <2>1 DEF RecallRequestRecord, ResponseDone
    <2>2. CASE HarvestCookies(r)
      <3>1. att'[r].pc = "harvested" /\ att[r].pc = "recalled"
        BY <2>0, <2>2 DEF HarvestCookies, Attempt
      <3>2. att[r].key = k
        BY <1>1, <1>2, <1>3, <2>2 DEF HarvestCookies
      <3>3. QED
        BY <1>5, <3>1, <3>2
    <2>3. ASSUME NEW kind, HarvestOutcome(r, kind)
          PROVE  Moved(r) /\ (att[r].carried = k \/ att[r].bare)
      <3>1. att'[r].pc = "scanning" /\ att[r].pc = "harvested"
        BY <2>0, <2>3 DEF HarvestOutcome, Attempt
      <3>2. att[r].key = k
        BY <1>1, <1>4, <2>3 DEF HarvestOutcome
      <3>3. QED
        BY <1>5, <3>1, <3>2
    <2>4. CASE ServedModelMismatch(r)
      <3>1. att'[r].pc = "idle" /\ att[r].pc = "scanning"
        BY <2>0, <2>4 DEF ServedModelMismatch, Attempt, Idle
      <3>2. att[r].key = k
        BY <1>4, <2>4 DEF ServedModelMismatch
      <3>3. QED
        BY <1>5, <3>1, <3>2
    <2>5. QED
      BY <1>6, <2>1, <2>2, <2>3, <2>4 DEF Respond
  <1>7. ASSUME NEW r \in Requests, Intercept(r)
        PROVE  FALSE
    BY <1>1, <1>7 DEF Intercept, InterceptProbe, InterceptAfterAuth, PassUnchanged,
       RememberUnchanged, ChooseRoute, SendSteered
  <1>8. ASSUME NEW j \in Pairs, NEW life \in Lifetimes, ProbeConsume(j, life)
        PROVE  FALSE
    BY <1>2, <1>8 DEF ProbeConsume
  <1>9. ~ClearMemory
    <2>1. SUFFICES ASSUME ClearMemory PROVE FALSE
      OBVIOUS
    <2>2. clear.pc = "begun" /\ clear'.pc \in {"idle", "emptied"}
      BY <1>0, <2>1 DEF ClearMemory, NoClear, ControlOK, ClearState
    <2>3. QED
      BY <2>2
  <1>10. ~Clear
    BY <1>1, <1>9 DEF Clear, ClearBegin, ClearRender, ClearWrite
  <1>11. ~Operate /\ ~Tick
    BY <1>0, <1>1 DEF Operate, Toggle, Reconfigure, Start, Reload, Crash, Shutdown, Tick
  <1>12. QED
    BY <1>6, <1>7, <1>8, <1>10, <1>11 DEF Next

\* An outcome or a revocation reaches only the pair that the attempt answered
\* by this response carried, however often the host reuses the request id and
\* however the handlers of other requests interleave.
THEOREM CarrierCharged == Spec => OnlyTheCarrierIsCharged
  <1>1. Init => IType /\ Charges
    BY InitType, ChargesInit
  <1>2. IType /\ Charges /\ [Next]_vars => (IType /\ Charges)'
    BY StepType, ChargesStep
  <1>3. IType /\ Charges /\ [Next]_vars
        => [\A k \in Pairs :
               /\ mode' = "up" /\ reloads' = reloads /\ clear' = clear
               /\ InPool(pool, k)
               /\ <<pool'[k].good, pool'[k].bad>> # <<pool[k].good, pool[k].bad>>
               => \E r \in Requests : Moved(r) /\ (att[r].carried = k \/ att[r].bare)]_vars
    BY ChargedCarrier DEF Marks
  <1>4. QED
    BY <1>1, <1>2, <1>3, PTL DEF Spec, OnlyTheCarrierIsCharged

-------------------------------------------------------------------------------
(***************************************************************************)
(* What "clear all" needs to keep its promise.                             *)
(*                                                                         *)
(* A cleared pair can come back in three ways only: the file of the        *)
(* cleared directory is not written, the pool is loaded again while the    *)
(* clear is between its sections, or the file of another directory is      *)
(* loaded.  Handlers, flushes, crashes and restarts bring no pair back.    *)
(***************************************************************************)

\* The three ways are excluded: the rename of the rendered document succeeds,
\* no configure comes between the sections of a clear, and the store stays.
ClearsGoWell ==
    /\ ClearWrite => disk' = [disk EXCEPT ![clear.dir] = clear.doc]
    /\ reloads' # reloads => clear.pc = "idle"
    /\ cfg'.dir = cfg.dir

\* A pool or a document without any pair a clear removed.
Lacks(p) == \A k \in clearedAway : ~InPool(p, k)

\* Between the reset of the map and the rename, the file is the old one and
\* what is about to be written is known to be clean; otherwise the file is.
Swept ==
    /\ Lacks(pool)
    /\ cfg.dir # NoDir /\ clear.pc \in {"idle", "begun"} => Lacks(disk[cfg.dir])
    /\ clear.pc # "idle" => clear.dir = cfg.dir
    /\ clear.pc = "copied" => Lacks(clear.doc)

\* A flush writes no pair that the map lacks.
LEMMA FlushAddsNothing ==
  ASSUME StoreOK, ControlOK, NEW p \in [Pairs -> Entry], NEW t, ChangePool(p, t),
         NEW S \in SUBSET Pairs, \A k \in S : ~InPool(p, k)
  PROVE  /\ \A k \in S : ~InPool(pool', k)
         /\ cfg.dir # NoDir => \/ disk'[cfg.dir] = disk[cfg.dir]
                               \/ \A k \in S : ~InPool(disk'[cfg.dir], k)
  <1>1. pool' = p
    BY DEF ChangePool
  <1>2. CASE disk' = disk
    BY <1>1, <1>2
  <1>3. CASE cfg.dir # NoDir /\ disk' = [disk EXCEPT ![cfg.dir] = Persisted(p, t)]
    <2>1. cfg.dir \in Dirs
      BY <1>3 DEF ControlOK, Config
    <2>2. disk'[cfg.dir] = Persisted(p, t)
      BY <1>3, <2>1 DEF StoreOK
    <2>3. \A k \in S : ~InPool(Persisted(p, t), k)
      BY DEF Persisted, InPool, NoEntry
    <2>4. QED
      BY <1>1, <2>2, <2>3
  <1>4. QED
    BY <1>2, <1>3 DEF ChangePool

\* A handler brings back only the pair it has just seen.
LEMMA HandlerSwept ==
  ASSUME StoreOK, ControlOK, Handler, Lacks(pool)
  PROVE  /\ clearedAway' \subseteq clearedAway
         /\ Lacks(pool)'
         /\ cfg.dir # NoDir => disk'[cfg.dir] = disk[cfg.dir] \/ Lacks(disk[cfg.dir])'
  <1>0. now \in Nat \ {0}
    BY DEF ControlOK
  <1> DEFINE Done(S) == /\ clearedAway' = S
                        /\ S \subseteq clearedAway
                        /\ \A k \in S : ~InPool(pool', k)
                        /\ cfg.dir # NoDir
                             => \/ disk'[cfg.dir] = disk[cfg.dir]
                                \/ \A k \in S : ~InPool(disk'[cfg.dir], k)
  <1>1. ASSUME NEW k \in Pairs, NEW s \in 1..now, NEW d \in Nat, NoteRouteCookies(k, s, d)
        PROVE  Done(clearedAway \ {k})
    <2> DEFINE e == pool[k]
               noted == [seen   |-> IF s > e.seen THEN s ELSE e.seen,
                         expire |-> IF d # 0 THEN d ELSE e.expire,
                         good   |-> e.good,
                         bad    |-> e.bad]
               p == [pool EXCEPT ![k] = noted]
               S == clearedAway \ {k}
    <2>1. e \in Entry
      BY DEF StoreOK
    <2>2. noted \in Entry
      BY <1>0, <2>1 DEF Entry
    <2>3. ChangePool(p, now) /\ clearedAway' = S
      BY <1>1 DEF NoteRouteCookies
    <2> HIDE DEF noted
    <2>4. p \in [Pairs -> Entry] /\ S \in SUBSET Pairs
      BY <2>2 DEF StoreOK
    <2>5. \A j \in S : ~InPool(p, j)
      BY DEF Lacks, InPool, StoreOK
    <2> HIDE DEF p
    <2>6. /\ \A j \in S : ~InPool(pool', j)
          /\ cfg.dir # NoDir => \/ disk'[cfg.dir] = disk[cfg.dir]
                                \/ \A j \in S : ~InPool(disk'[cfg.dir], j)
      BY <2>3, <2>4, <2>5, FlushAddsNothing
    <2>7. QED
      BY <2>3, <2>6
  <1>2. ASSUME NEW p \in [Pairs -> Entry], NEW t, ChangePool(p, t), UNCHANGED clearedAway,
               \A j \in Pairs : InPool(p, j) => InPool(pool, j)
        PROVE  Done(clearedAway)
    <2>1. clearedAway \in SUBSET Pairs /\ \A j \in clearedAway : ~InPool(p, j)
      BY <1>2 DEF StoreOK, Lacks
    <2>2. QED
      BY <1>2, <2>1, FlushAddsNothing
  <1>3. ASSUME NEW k \in Keys, NEW t \in 1..now, RevokeRouteCookie(k, t)
        PROVE  Done(clearedAway)
    <2>1. CASE k \in Pairs /\ InPool(pool, k)
      <3> DEFINE p == [pool EXCEPT ![k] = NoEntry]
      <3>1. p \in [Pairs -> Entry] /\ \A j \in Pairs : InPool(p, j) => InPool(pool, j)
        BY NoEntryType DEF StoreOK, InPool, NoEntry
      <3>2. ChangePool(p, t) /\ UNCHANGED clearedAway
        BY <1>3, <2>1 DEF RevokeRouteCookie
      <3> HIDE DEF p
      <3>3. QED
        BY <1>2, <3>1, <3>2
    <2>2. CASE ~(k \in Pairs /\ InPool(pool, k))
      BY <1>3, <2>2 DEF RevokeRouteCookie, Lacks
    <2>3. QED
      BY <2>1, <2>2
  <1>4. ASSUME NEW k \in Keys, NEW kind \in Kinds, NEW t \in 1..now,
               MarkRouteCookieOutcome(k, kind, t)
        PROVE  Done(clearedAway)
    <2>1. CASE k \in Pairs /\ InPool(pool, k) /\ kind # "silent"
      <3> DEFINE m == Marked(pool[k], kind, t)
                 p == [pool EXCEPT ![k] = m]
      <3>1. m \in Entry /\ m.seen = pool[k].seen
        BY <1>0, <2>1 DEF Marked, Entry, StoreOK
      <3>2. ChangePool(p, t) /\ UNCHANGED clearedAway
        BY <1>4, <2>1 DEF MarkRouteCookieOutcome
      <3> HIDE DEF m
      <3>3. p \in [Pairs -> Entry] /\ \A j \in Pairs : InPool(p, j) => InPool(pool, j)
        BY <3>1 DEF StoreOK, InPool
      <3> HIDE DEF p
      <3>4. QED
        BY <1>2, <3>2, <3>3
    <2>2. CASE ~(k \in Pairs /\ InPool(pool, k) /\ kind # "silent")
      BY <1>4, <2>2 DEF MarkRouteCookieOutcome, Lacks
    <2>3. QED
      BY <2>1, <2>2
  <1>5. PICK S : Done(S)
    BY <1>1, <1>3, <1>4 DEF Handler, Noting, Revoking, Marking
  <1>6. UNCHANGED cfg
    BY DEF Handler
  <1>7. QED
    BY <1>5, <1>6 DEF Lacks

\* Steps that leave the handler of the clear where it is.
LEMMA ClearHandler ==
  ASSUME [Next]_vars
  PROVE  clear' = clear \/ Clear \/ Crash \/ Shutdown
  <1>1. ASSUME NEW r \in Requests, Intercept(r)
        PROVE  clear' = clear
    BY <1>1 DEF Intercept, InterceptProbe, InterceptAfterAuth, PassUnchanged,
       RememberUnchanged, ChooseRoute, SendSteered, clearVars
  <1>2. ASSUME NEW r \in Requests, Respond(r)
        PROVE  clear' = clear
    BY <1>2 DEF Respond, RecallRequestRecord, HarvestCookies, HarvestOutcome,
       ServedModelMismatch, ResponseDone, clearVars
  <1>3. ASSUME NEW c \in Configs, Toggle(c) \/ Reconfigure(c) \/ Start(c)
        PROVE  clear' = clear
    BY <1>3 DEF Toggle, Reconfigure, Start, Reload, clearVars
  <1>4. QED
    BY <1>1, <1>2, <1>3 DEF Next, Operate, ProbeConsume, Tick, vars, clearVars

LEMMA SweptStep ==
  ASSUME IType, Swept, [Next]_vars, cfg'.dir = cfg.dir,
         ClearWrite => disk' = [disk EXCEPT ![clear.dir] = clear.doc],
         reloads' # reloads => clear.pc = "idle"
  PROVE  Swept'
  <1>0. StoreOK /\ ControlOK /\ ClearHasDirectory /\ cfg.dir \in Dirs \cup {NoDir}
        /\ clear \in ClearState /\ reloads \in Nat
    BY TypeSplit DEF IType, ControlOK, Config
  <1>1. CASE ClearBegin
    BY <1>0, <1>1 DEF ClearBegin, Swept, Lacks, NoClear, fileVars, InPool, EmptyPool, NoEntry
  <1>2. CASE ClearMemory
    <2>1. Lacks(pool)'
      BY <1>0, <1>2 DEF ClearMemory, Lacks, InPool, EmptyPool, NoEntry, StoreOK
    <2>2. clear.dir = cfg.dir
      BY <1>2 DEF ClearMemory, Swept
    <2>3. CASE clear.dir = NoDir
      BY <1>2, <2>1, <2>2, <2>3 DEF ClearMemory, Swept, NoClear
    <2>4. CASE clear.dir # NoDir
      <3>1. clear'.pc = "emptied" /\ clear'.dir = clear.dir
        BY <1>0, <1>2, <2>4 DEF ClearMemory, ClearState
      <3>2. QED
        BY <1>2, <2>1, <2>2, <3>1 DEF ClearMemory, Swept
    <2>5. QED
      BY <2>3, <2>4
  <1>3. CASE ClearRender
    <2>1. clear'.pc = "copied" /\ clear'.dir = clear.dir /\ clear'.doc = Persisted(pool, now)
      BY <1>0, <1>3 DEF ClearRender, ClearState
    <2>2. Lacks(pool) /\ UNCHANGED <<pool, clearedAway, cfg>> /\ clear.dir = cfg.dir
      BY <1>3 DEF ClearRender, Swept
    <2>3. Lacks(clear.doc)'
      BY <1>0, <2>1, <2>2 DEF Lacks, Persisted, InPool, NoEntry, StoreOK
    <2>4. QED
      BY <2>1, <2>2, <2>3 DEF Swept, Lacks
  <1>4. CASE ClearWrite
    <2>1. /\ disk' = [disk EXCEPT ![clear.dir] = clear.doc]
          /\ clear.dir = cfg.dir /\ Lacks(clear.doc) /\ Lacks(pool)
          /\ UNCHANGED <<pool, clearedAway, cfg>> /\ clear' = NoClear
          /\ clear.dir \in Dirs
      BY <1>0, <1>4 DEF ClearWrite, Swept, ClearHasDirectory
    <2>2. disk'[cfg.dir] = clear.doc
      BY <1>0, <2>1 DEF StoreOK
    <2>3. Lacks(pool)' /\ Lacks(disk[cfg.dir])' /\ clear'.pc = "idle"
      BY <2>1, <2>2 DEF Lacks, NoClear
    <2>4. QED
      BY <2>3 DEF Swept
  <1>5. CASE Crash \/ Shutdown
    <2>1. /\ pool' = EmptyPool /\ clear'.pc = "idle" /\ cfg' = cfg
          /\ clearedAway' = IF clear.pc = "idle" THEN clearedAway ELSE {}
      BY <1>5 DEF Crash, Shutdown, GoDown, NoClear
    <2>2. Lacks(pool)'
      BY <1>0, <2>1 DEF Lacks, InPool, EmptyPool, NoEntry, StoreOK
    <2>3. CASE clear.pc # "idle"
      BY <2>1, <2>2, <2>3 DEF Swept, Lacks
    <2>4. CASE clear.pc = "idle"
      <3>1. SUFFICES ASSUME cfg.dir # NoDir PROVE Lacks(disk[cfg.dir])'
        BY <2>1, <2>2 DEF Swept
      <3>2. clearedAway' = clearedAway /\ Lacks(disk[cfg.dir]) /\ Lacks(pool)
        BY <2>1, <2>4, <3>1 DEF Swept
      <3>3. CASE disk' = disk
        BY <2>1, <3>2, <3>3 DEF Lacks
      <3>4. CASE disk' = [disk EXCEPT ![cfg.dir] = Persisted(pool, now)]
        <4>1. disk'[cfg.dir] = Persisted(pool, now)
          BY <1>0, <3>1, <3>4 DEF StoreOK
        <4>2. \A k \in clearedAway : ~InPool(Persisted(pool, now), k)
          BY <1>0, <3>2 DEF Lacks, Persisted, InPool, NoEntry, StoreOK
        <4>3. QED
          BY <2>1, <3>2, <4>1, <4>2 DEF Lacks
      <3>5. QED
        BY <1>5, <3>3, <3>4 DEF Crash, Shutdown
    <2>5. QED
      BY <2>3, <2>4
  <1>6. CASE clear' = clear /\ Bystander
    BY <1>6 DEF Bystander, fileVars, Swept, Lacks
  <1>7. CASE clear' = clear /\ Handler
    <2>1. /\ clearedAway' \subseteq clearedAway
          /\ Lacks(pool)'
          /\ cfg.dir # NoDir => disk'[cfg.dir] = disk[cfg.dir] \/ Lacks(disk[cfg.dir])'
      BY <1>0, <1>7, HandlerSwept DEF Swept
    <2>2. cfg' = cfg
      BY <1>7 DEF Handler
    <2>3. QED
      BY <1>7, <2>1, <2>2 DEF Swept, Lacks
  <1>8. CASE clear' = clear /\ Reloading
    <2>1. PICK c \in Configs : Reload(c)
      BY <1>8 DEF Reloading
    <2>2. clear.pc = "idle" /\ clear'.pc = "idle"
      BY <1>0, <1>8, <2>1 DEF Reload
    <2>3. UNCHANGED <<disk, clearedAway>> /\ pool' = Load(cfg.dir)
      BY <2>1 DEF Reload
    <2>4. CASE cfg.dir = NoDir
      BY <1>0, <2>2, <2>3, <2>4 DEF Load, Swept, Lacks, InPool, EmptyPool, NoEntry, StoreOK
    <2>5. CASE cfg.dir # NoDir
      BY <2>2, <2>3, <2>5 DEF Load, Swept, Lacks
    <2>6. QED
      BY <2>4, <2>5
  <1>9. QED
    BY <1>1, <1>2, <1>3, <1>4, <1>5, <1>6, <1>7, <1>8, EveryStep, ClearHandler DEF Clear

\* The pair a request is steered with is in the map.
LEMMA ChosenIsPooled ==
  ASSUME IType, Next, NEW r \in Requests, att[r].pc = "begun", att'[r].pc = "chosen"
  PROVE  att'[r].key \in Pairs /\ InPool(pool, att'[r].key)
  <1>0. att \in [Requests -> Attempt] /\ att[r] \in Attempt
    BY TypeSplit DEF IType, ControlOK
  <1>1. ASSUME NEW k \in Pairs, ChooseRoute(r, k)
        PROVE  att'[r].key \in Pairs /\ InPool(pool, att'[r].key)
    <2>1. att'[r].key = k
      BY <1>0, <1>1 DEF ChooseRoute, Attempt
    <2>2. EntryUsable(pool[k], now)
      BY <1>1 DEF ChooseRoute, BestRouteCookie, Healthy, Usable
    <2>3. QED
      BY <2>1, <2>2 DEF EntryUsable, InPool
  <1>2. ASSUME NEW q \in Requests, q # r, Intercept(q)
        PROVE  FALSE
    BY <1>0, <1>2 DEF Intercept, InterceptProbe, InterceptAfterAuth, BeginAttempt,
       PassUnchanged, RememberUnchanged, ChooseRoute, SendSteered
  <1>3. ASSUME NEW q \in Requests, Respond(q)
        PROVE  FALSE
    BY <1>0, <1>3 DEF Respond, RecallRequestRecord, Recalled, HarvestCookies,
       HarvestOutcome, ServedModelMismatch, ResponseDone, Idle, Attempt
  <1>4. ASSUME NEW c, InterceptProbe(r, c)
        PROVE  FALSE
    BY <1>4 DEF InterceptProbe, BeginAttempt
  <1>5. ASSUME NEW c, NEW named, InterceptAfterAuth(r, c, named)
        PROVE  FALSE
    BY <1>5 DEF InterceptAfterAuth, BeginAttempt
  <1>6. CASE PassUnchanged(r) \/ RememberUnchanged(r) \/ SendSteered(r)
    BY <1>0, <1>6 DEF PassUnchanged, RememberUnchanged, SendSteered, Attempt
  <1>7. ASSUME UNCHANGED att
        PROVE  FALSE
    BY <1>7
  <1>8. CASE Clear \/ Tick
    BY <1>7, <1>8 DEF Clear, ClearBegin, ClearMemory, ClearRender, ClearWrite, Tick, reqVars
  <1>9. CASE Operate
    <2>1. ASSUME NEW c, Toggle(c) \/ Reconfigure(c) \/ Start(c)
          PROVE  FALSE
      BY <1>7, <2>1 DEF Toggle, Reconfigure, Start, Reload, reqVars
    <2>2. CASE Crash \/ Shutdown
      BY <1>0, <2>2 DEF Crash, Shutdown, GoDown, Idle
    <2>3. QED
      BY <1>9, <2>1, <2>2 DEF Operate
  <1>10. ASSUME NEW k, NEW life, ProbeConsume(k, life)
         PROVE  FALSE
    BY <1>7, <1>10 DEF ProbeConsume, reqVars
  <1>11. QED
    BY <1>1, <1>2, <1>3, <1>4, <1>5, <1>6, <1>8, <1>9, <1>10 DEF Next, Intercept

\* "Clear all" keeps its promise, and keeps it through crashes, restarts and
\* every interleaving with handlers and their flushes, as long as its write
\* succeeds, no configure runs between its sections and the store stays the
\* same: what run pool_cleared shows violated needs one of the three.
THEOREM ClearsHold == Spec /\ [][ClearsGoWell]_vars => ClearedPairsAreNotSteered
  <1>1. Init => IType /\ Swept
    <2>1. Init => Swept
      BY DEF Init, Swept, Lacks, NoClear
    <2>2. QED
      BY <2>1, InitType
  <1>2. IType /\ Swept /\ [Next]_vars /\ [ClearsGoWell]_vars => (IType /\ Swept)'
    <2> SUFFICES ASSUME IType, Swept, [Next]_vars, [ClearsGoWell]_vars PROVE (IType /\ Swept)'
      OBVIOUS
    <2>1. CASE UNCHANGED vars
      <3>1. ~ClearWrite \/ disk' = [disk EXCEPT ![clear.dir] = clear.doc]
        <4>1. SUFFICES ASSUME ClearWrite PROVE FALSE
          OBVIOUS
        <4>2. QED
          BY <2>1, <4>1 DEF ClearWrite, NoClear, vars
      <3>2. QED
        BY <2>1, <3>1, StepType, SweptStep DEF vars
    <2>2. CASE ClearsGoWell
      BY <2>2, StepType, SweptStep DEF ClearsGoWell
    <2>3. QED
      BY <2>1, <2>2
  <1>3. IType /\ Swept /\ [Next]_vars
        => [\A r \in Requests :
               clear.pc = "idle" /\ att[r].pc = "begun" /\ att'[r].pc = "chosen"
               => att'[r].key \notin clearedAway]_vars
    <2> SUFFICES ASSUME IType, Swept, Next, NEW r \in Requests,
                        att[r].pc = "begun", att'[r].pc = "chosen"
                 PROVE  att'[r].key \notin clearedAway
      BY DEF vars
    <2>1. QED
      BY ChosenIsPooled DEF Swept, Lacks
  <1>4. QED
    BY <1>1, <1>2, <1>3, PTL DEF Spec, ClearedPairsAreNotSteered

=============================================================================
