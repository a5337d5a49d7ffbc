-------------------------- MODULE ObservationsProofs --------------------------
(***************************************************************************)
(* Proofs about Observations, for every value of its constants: the types  *)
(* with the bound of the tally, the single writer, and that a clean memory *)
(* is what the file holds.                                                 *)
(***************************************************************************)
EXTENDS Observations, FiniteSetTheorems, SequenceTheorems, TLAPS

USE ObservationsAssumption

-----------------------------------------------------------------------------
(* Tallies. *)

LEMMA TallyShape ==
  \A t : t \in Tallies <=> \E S \in SUBSET Keys : Small(S) /\ t \in [S -> Seconds]
  BY DEF Tallies

LEMMA TallyDomain ==
  ASSUME NEW t \in Tallies
  PROVE  DOMAIN t \subseteq Keys /\ Small(DOMAIN t) /\ t \in [DOMAIN t -> Seconds]
  BY TallyShape

LEMMA EmptyTally == Empty \in Tallies
  <1>1. Small({})
    BY FS_EmptySet DEF Small
  <1>2. Empty \in [{} -> Seconds]
    BY DEF Empty
  <1>3. QED
    BY <1>1, <1>2, TallyShape

LEMMA Without ==
  ASSUME NEW t \in Tallies, NEW k
  PROVE  /\ Restrict(t, DOMAIN t \ {k}) \in Tallies
         /\ DOMAIN Restrict(t, DOMAIN t \ {k}) = DOMAIN t \ {k}
         /\ k \in DOMAIN t => Cardinality(DOMAIN t \ {k}) + 1 <= BucketMax
  <1> DEFINE S == DOMAIN t \ {k}
  <1>1. IsFiniteSet(DOMAIN t) /\ Cardinality(DOMAIN t) <= BucketMax
    BY TallyDomain DEF Small
  <1>2. IsFiniteSet(S) /\ Cardinality(S) <= Cardinality(DOMAIN t)
    BY <1>1, FS_Subset
  <1>3. Cardinality(S) \in Nat /\ Cardinality(DOMAIN t) \in Nat
    BY <1>1, <1>2, FS_CardinalityType
  <1>4. Small(S) /\ S \in SUBSET Keys
    BY <1>1, <1>2, <1>3, TallyDomain DEF Small
  <1>5. Restrict(t, S) \in [S -> Seconds]
    BY TallyDomain DEF Restrict
  <1>6. k \in DOMAIN t => Cardinality(S) = Cardinality(DOMAIN t) - 1
    BY <1>1, FS_RemoveElement
  <1>7. DOMAIN Restrict(t, S) = S
    BY DEF Restrict
  <1>8. Restrict(t, S) \in Tallies
    BY <1>4, <1>5, TallyShape
  <1>9. k \in DOMAIN t => Cardinality(S) + 1 <= BucketMax
    BY <1>1, <1>3, <1>6
  <1>10. QED
    BY <1>7, <1>8, <1>9

\* There is room for a bucket once one went: the tally stays within its bound.
LEMMA RecordTally ==
  ASSUME TypeOK, NEW k \in Keys, NEW room \in EvictFor(k)
  PROVE  [j \in DOMAIN room \cup {k} |-> IF j = k THEN clock ELSE room[j]] \in Tallies
  <1>t. byKey \in Tallies /\ clock \in Seconds
    BY DEF TypeOK
  <1>1. room \in Tallies /\ (k \in DOMAIN room \/ Cardinality(DOMAIN room) < BucketMax)
    <2>1. CASE k \in DOMAIN byKey \/ Cardinality(DOMAIN byKey) < BucketMax
      BY <2>1, <1>t DEF EvictFor
    <2>2. CASE ~(k \in DOMAIN byKey \/ Cardinality(DOMAIN byKey) < BucketMax)
      <3>1. PICK old \in Keys : Oldest(old) /\ room = Restrict(byKey, DOMAIN byKey \ {old})
        BY <2>2 DEF EvictFor
      <3>2. old \in DOMAIN byKey
        BY <3>1 DEF Oldest
      <3>3. DOMAIN room = DOMAIN byKey \ {old} /\ room \in Tallies
        BY <3>1, <1>t, Without
      <3>4. IsFiniteSet(DOMAIN room)
        BY <3>3, TallyDomain DEF Small
      <3>5. Cardinality(DOMAIN room) \in Nat
        BY <3>4, FS_CardinalityType
      <3>6. Cardinality(DOMAIN room) + 1 <= BucketMax
        BY <3>2, <3>3, <1>t, Without
      <3>7. QED
        BY <3>3, <3>5, <3>6
    <2>3. QED
      BY <2>1, <2>2
  <1> DEFINE S == DOMAIN room \cup {k}
  <1>2. DOMAIN room \subseteq Keys /\ IsFiniteSet(DOMAIN room) /\ Cardinality(DOMAIN room) <= BucketMax
        /\ \A j \in DOMAIN room : room[j] \in Seconds
    BY <1>1, TallyDomain DEF Small
  <1>3. /\ IsFiniteSet(S)
        /\ Cardinality(S) = IF k \in DOMAIN room THEN Cardinality(DOMAIN room) ELSE Cardinality(DOMAIN room) + 1
    BY <1>2, FS_AddElement
  <1>4. Cardinality(DOMAIN room) \in Nat
    BY <1>2, FS_CardinalityType
  <1>5. Small(S) /\ S \in SUBSET Keys
    BY <1>1, <1>2, <1>3, <1>4 DEF Small
  <1>6. [j \in S |-> IF j = k THEN clock ELSE room[j]] \in [S -> Seconds]
    BY <1>2, <1>t
  <1>7. QED
    BY <1>5, <1>6, TallyShape

-----------------------------------------------------------------------------
(* Types. *)

LEMMA FlushUpdates ==
  ASSUME NEW f \in Flushes
  PROVE  /\ \A v \in {"called", "write", "failed", "end"} : [f EXCEPT !.step = v] \in Flushes
         /\ \A v \in Tallies : [f EXCEPT !.step = "write", !.snap = v] \in Flushes
  BY DEF Flushes

LEMMA RemoveAtType ==
  ASSUME NEW S, NEW s \in Seq(S), NEW i \in 1 .. Len(s)
  PROVE  RemoveAt(s, i) \in Seq(S)
  <1>1. SubSeq(s, 1, i - 1) \in Seq(S)
    BY SubSeqProperties
  <1>2. SubSeq(s, i + 1, Len(s)) \in Seq(S)
    BY SubSeqProperties
  <1>3. QED
    BY <1>1, <1>2, ConcatProperties DEF RemoveAt

\* A directory given to a flush.
LEMMA FlushType ==
  ASSUME NEW d \in Stores, NEW l \in BOOLEAN
  PROVE  Flush(d, l) \in Flushes
  BY EmptyTally DEF Flush, Flushes

LEMMA LoadType ==
  ASSUME TypeOK, NEW d \in Dirs, Load(d)
  PROVE  byKey' \in Tallies /\ dirty' \in BOOLEAN /\ rested' \in BOOLEAN /\ dir' \in Dirs
  BY EmptyTally DEF Load, Read, TypeOK, Stores

LEMMA FlushStepType ==
  ASSUME TypeOK, NEW i \in DOMAIN flushes, FlushStep(i)
  PROVE  TypeOK'
  <1>t. /\ flushes \in Seq(Flushes) /\ flushes[i] \in Flushes /\ i \in 1 .. Len(flushes)
        /\ flushes[i].dir \in Stores /\ flushes[i].snap \in Tallies
    <2>1. flushes \in Seq(Flushes)
      BY DEF TypeOK
    <2>2. i \in 1 .. Len(flushes)
      BY <2>1, LenProperties
    <2>3. flushes[i] \in Flushes
      BY <2>1, <2>2, ElementOfSeq
    <2>4. QED
      BY <2>1, <2>2, <2>3 DEF Flushes
  <1>r. RemoveAt(flushes, i) \in Seq(Flushes)
    BY <1>t, RemoveAtType
  <1>u. \A v \in {"called", "write", "failed", "end"} : [flushes EXCEPT ![i].step = v] \in Seq(Flushes)
    <2>1. ASSUME NEW v \in {"called", "write", "failed", "end"}
          PROVE  [flushes EXCEPT ![i] = [flushes[i] EXCEPT !.step = v]] \in Seq(Flushes)
      <3>1. [flushes[i] EXCEPT !.step = v] \in Flushes
        BY <1>t, FlushUpdates
      <3>2. QED
        BY <3>1, <1>t
    <2>2. QED
      BY <2>1
  <1>1. CASE Begin(i)
    <2>1. [flushes EXCEPT ![i].step = "write", ![i].snap = byKey] \in Seq(Flushes)
      <3>1. [flushes[i] EXCEPT !.step = "write", !.snap = byKey] \in Flushes
        BY <1>t, FlushUpdates DEF TypeOK
      <3>2. [flushes EXCEPT ![i] = [flushes[i] EXCEPT !.step = "write", !.snap = byKey]] \in Seq(Flushes)
        BY <3>1, <1>t
      <3>3. QED
        BY <3>2, <1>t
    <2>2. flushes' \in Seq(Flushes) /\ writing' \in BOOLEAN
      BY <2>1, <1>r, <1>1 DEF Begin, TypeOK
    <2>3. QED
      BY <2>2, <1>1 DEF Begin, TypeOK
  <1>2. CASE Write(i)
    BY <1>2, <1>t, <1>u DEF Write, TypeOK
  <1>3. CASE WriteFails(i)
    BY <1>3, <1>t, <1>u DEF WriteFails, TypeOK
  <1>4. CASE Remember(i)
    BY <1>4, <1>t, <1>u DEF Remember, TypeOK
  <1>5. CASE End(i)
    BY <1>5, <1>r DEF End, TypeOK
  <1>6. QED
    BY <1>1, <1>2, <1>3, <1>4, <1>5 DEF FlushStep

LEMMA InitType == Init => TypeOK
  <1> SUFFICES ASSUME Init PROVE TypeOK
    OBVIOUS
  <1>1. byKey \in Tallies /\ disk \in [Stores -> Tallies]
    BY EmptyTally DEF Init
  <1>2. flushes \in Seq(Flushes)
    BY EmptySeq DEF Init
  <1>3. clock \in Seconds /\ failures \in 0 .. MaxFailures
    BY DEF Init, Seconds
  <1>4. QED
    BY <1>1, <1>2, <1>3 DEF Init, TypeOK

LEMMA TypeStep ==
  ASSUME TypeOK, [Next]_vars
  PROVE  TypeOK'
  <1>1. CASE \E k \in Keys : Record(k)
    <2>1. PICK k \in Keys : Record(k)
      BY <1>1
    <2>2. byKey' \in Tallies
      BY <2>1, RecordTally DEF Record
    <2>3. dir # NoDir => Append(flushes, Flush(dir, FALSE)) \in Seq(Flushes)
      BY FlushType, AppendProperties DEF TypeOK, Stores
    <2>4. flushes' \in Seq(Flushes)
      BY <2>1, <2>3 DEF Record, TypeOK
    <2>5. writing' \in BOOLEAN
      BY <2>1 DEF Record, Due, TypeOK
    <2>6. QED
      BY <2>1, <2>2, <2>4, <2>5 DEF Record, TypeOK
  <1>2. CASE \E k \in Keys : DeleteObservation(k)
    <2>1. PICK k \in Keys : DeleteObservation(k)
      BY <1>2
    <2>2. byKey' \in Tallies
      BY <2>1, Without DEF DeleteObservation, TypeOK
    <2>3. QED
      BY <2>1, <2>2 DEF DeleteObservation, TypeOK
  <1>3. CASE ClearAll
    BY <1>3, EmptyTally DEF ClearAll, TypeOK
  <1>4. CASE \E i \in DOMAIN flushes : FlushStep(i)
    BY <1>4, FlushStepType
  <1>5. CASE \E d \in Dirs : Reconfigure(d)
    <2>1. PICK d \in Dirs : Reconfigure(d)
      BY <1>5
    <2>2. overlapped' \in BOOLEAN
      BY <2>1 DEF Reconfigure, TypeOK
    <2>3. QED
      BY <2>1, <2>2, LoadType DEF Reconfigure, TypeOK
  <1>6. CASE \E d \in Dirs : Start(d)
    BY <1>6, LoadType DEF Start, TypeOK
  <1>7. CASE Shutdown
    <2>1. dir # NoDir => Append(flushes, Flush(dir, TRUE)) \in Seq(Flushes)
      BY FlushType, AppendProperties DEF TypeOK, Stores
    <2>2. flushes' \in Seq(Flushes) /\ overlapped' \in BOOLEAN
      BY <2>1, <1>7 DEF Shutdown, TypeOK
    <2>3. QED
      BY <2>2, <1>7 DEF Shutdown, TypeOK
  <1>8. CASE Exit
    BY <1>8, EmptyTally, EmptySeq DEF Exit, TypeOK
  <1>9. CASE Elapse
    BY <1>9 DEF Elapse, TypeOK
  <1>10. CASE Tick
    <2>1. clock' \in Seconds
      BY <1>10 DEF Tick, TypeOK, Seconds
    <2>2. QED
      BY <2>1, <1>10 DEF Tick, TypeOK
  <1>11. CASE UNCHANGED vars
    BY <1>11 DEF vars, TypeOK
  <1>12. QED
    BY <1>1, <1>2, <1>3, <1>4, <1>5, <1>6, <1>7, <1>8, <1>9, <1>10, <1>11 DEF Next

-----------------------------------------------------------------------------
(* One writer, and what a clean memory means. *)

\* Until a load or the shutdown meets it, a flush is the only one, holds the claim
\* of the writer and writes to the directory in use.
Solo ==
    /\ process = "down" => flushes = << >> /\ ~overlapped
    /\ process = "running" \/ ~overlapped => Len(flushes) <= 1 /\ (flushes # << >> => writing)

\* A memory that is marked clean is in the file, or in the snapshot on its way there.
Kept(d, f) == /\ f.step \in {"called", "end"} => disk[d] = byKey
              /\ f.step = "write" => f.snap = byKey
Fresh ==
    ~overlapped =>
        /\ \A i \in DOMAIN flushes : flushes[i].dir = dir
        /\ Alive /\ dir # NoDir /\ ~dirty =>
              /\ flushes = << >> => disk[dir] = byKey
              /\ \A i \in DOMAIN flushes : Kept(dir, flushes[i])

LEMMA OnlyFlush ==
  ASSUME TypeOK, Len(flushes) <= 1, NEW i \in DOMAIN flushes
  PROVE  /\ i = 1 /\ DOMAIN flushes = {1} /\ Len(flushes) = 1 /\ flushes # << >>
         /\ RemoveAt(flushes, i) = << >>
         /\ flushes[i] \in Flushes
  <1>1. flushes \in Seq(Flushes) /\ Len(flushes) \in Nat /\ DOMAIN flushes = 1 .. Len(flushes)
    BY LenProperties DEF TypeOK
  <1>2. i = 1 /\ Len(flushes) = 1
    BY <1>1
  <1>3. DOMAIN flushes = {1} /\ flushes # << >>
    BY <1>1, <1>2
  <1>4. SubSeq(flushes, 1, 0) = << >> /\ SubSeq(flushes, 2, 1) = << >>
    BY SubSeqEmpty
  <1>5. RemoveAt(flushes, i) = << >>
    BY <1>2, <1>4 DEF RemoveAt
  <1>6. flushes[i] \in Flushes
    BY <1>1, <1>2, ElementOfSeq
  <1>7. QED
    BY <1>2, <1>3, <1>5, <1>6

LEMMA NoFlush ==
  ASSUME TypeOK
  PROVE  /\ flushes = << >> <=> Len(flushes) = 0
         /\ flushes # << >> => \E i \in DOMAIN flushes : TRUE
         /\ Len(flushes) \in Nat /\ flushes \in Seq(Flushes)
  <1>1. flushes \in Seq(Flushes)
    BY DEF TypeOK
  <1>2. /\ Len(flushes) \in Nat /\ DOMAIN flushes = 1 .. Len(flushes)
        /\ flushes = << >> <=> Len(flushes) = 0
    BY <1>1, LenProperties, EmptySeq
  <1>3. flushes # << >> => 1 \in DOMAIN flushes
    BY <1>2
  <1>4. QED
    BY <1>1, <1>2, <1>3

\* A flush called when there was none.
LEMMA FirstFlush ==
  ASSUME NEW d \in Stores, NEW l \in BOOLEAN
  PROVE  /\ Append(<< >>, Flush(d, l)) = << Flush(d, l) >>
         /\ Len(<< Flush(d, l) >>) = 1
         /\ DOMAIN << Flush(d, l) >> = {1}
         /\ << Flush(d, l) >>[1].dir = d
         /\ << Flush(d, l) >>[1].step = "called"
  BY DEF Flush

\* What a flush leaves behind: itself further on, or nothing.
LEMMA FlushStepSolo ==
  ASSUME TypeOK, Len(flushes) <= 1, NEW i \in DOMAIN flushes, FlushStep(i)
  PROVE  /\ \/ flushes' = << >>
            \/ /\ DOMAIN flushes' = {1} /\ Len(flushes') = 1
               /\ flushes'[1].dir = flushes[1].dir
               /\ UNCHANGED writing
         /\ i = 1
  <1>o. i = 1 /\ DOMAIN flushes = {1} /\ Len(flushes) = 1 /\ RemoveAt(flushes, i) = << >> /\ flushes[i] \in Flushes
    BY OnlyFlush
  <1>s. flushes \in Seq(Flushes)
    BY DEF TypeOK
  <1>e. ASSUME NEW f \in Flushes, f.dir = flushes[1].dir, flushes' = [flushes EXCEPT ![1] = f]
        PROVE  DOMAIN flushes' = {1} /\ Len(flushes') = 1 /\ flushes'[1].dir = flushes[1].dir
    <2>1. DOMAIN flushes' = {1} /\ flushes'[1] = f
      BY <1>e, <1>o
    <2>2. Len(flushes') = 1
      BY <1>e, <1>s, <1>o, ExceptSeq
    <2>3. QED
      BY <2>1, <2>2, <1>e
  <1>u. ASSUME NEW v \in {"called", "write", "failed", "end"}, flushes' = [flushes EXCEPT ![i].step = v]
        PROVE  DOMAIN flushes' = {1} /\ Len(flushes') = 1 /\ flushes'[1].dir = flushes[1].dir
    <2>1. [flushes[1] EXCEPT !.step = v] \in Flushes /\ [flushes[1] EXCEPT !.step = v].dir = flushes[1].dir
      BY <1>o, FlushUpdates DEF Flushes
    <2>2. flushes' = [flushes EXCEPT ![1] = [flushes[1] EXCEPT !.step = v]]
      BY <1>u, <1>o
    <2>3. QED
      BY <2>1, <2>2, <1>e
  <1>1. CASE Begin(i)
    <2>1. CASE dirty
      <3>1. [flushes[1] EXCEPT !.step = "write", !.snap = byKey] \in Flushes
            /\ [flushes[1] EXCEPT !.step = "write", !.snap = byKey].dir = flushes[1].dir
        BY <1>o, FlushUpdates DEF Flushes, TypeOK
      <3>2. flushes' = [flushes EXCEPT ![1] = [flushes[1] EXCEPT !.step = "write", !.snap = byKey]]
        BY <2>1, <1>1, <1>o DEF Begin
      <3>3. UNCHANGED writing
        BY <2>1, <1>1 DEF Begin
      <3>4. QED
        BY <3>1, <3>2, <3>3, <1>e, <1>o
    <2>2. CASE ~dirty
      BY <2>2, <1>1, <1>o DEF Begin
    <2>3. QED
      BY <2>1, <2>2
  <1>2. CASE Write(i)
    BY <1>2, <1>u, <1>o DEF Write
  <1>3. CASE WriteFails(i)
    BY <1>3, <1>u, <1>o DEF WriteFails
  <1>4. CASE Remember(i)
    BY <1>4, <1>u, <1>o DEF Remember
  <1>5. CASE End(i)
    BY <1>5, <1>o DEF End
  <1>6. QED
    BY <1>1, <1>2, <1>3, <1>4, <1>5 DEF FlushStep

LEMMA SoloStep ==
  ASSUME TypeOK, Solo, [Next]_vars
  PROVE  Solo'
  <1>e. Len(<< >>) = 0
    OBVIOUS
  <1>1. CASE \E k \in Keys : Record(k)
    <2>1. PICK k \in Keys : Record(k)
      BY <1>1
    <2>2. CASE Due /\ dir # NoDir
      <3>1. process = "running" \/ ~overlapped => flushes = << >>
        BY <2>2 DEF Solo, Due
      <3>2. flushes' = Append(flushes, Flush(dir, FALSE)) /\ writing'
        BY <2>1, <2>2 DEF Record
      <3>3. dir \in Stores
        BY <2>2 DEF TypeOK, Stores
      <3>4. process = "running" \/ ~overlapped => Len(flushes') = 1
        BY <3>1, <3>2, <3>3, FirstFlush
      <3>5. UNCHANGED <<process, overlapped>> /\ process # "down"
        BY <2>1 DEF Record, Alive
      <3>6. process' = "running" \/ ~overlapped' => Len(flushes') <= 1
        BY <3>4, <3>5
      <3>7. QED
        BY <3>2, <3>5, <3>6 DEF Solo
    <2>3. CASE ~(Due /\ dir # NoDir)
      <3>1. UNCHANGED <<flushes, process, overlapped>> /\ (writing => writing')
        BY <2>1, <2>3 DEF Record
      <3>2. QED
        BY <3>1 DEF Solo
    <2>4. QED
      BY <2>2, <2>3
  <1>2. CASE (\E k \in Keys : DeleteObservation(k)) \/ ClearAll \/ Elapse \/ Tick \/ UNCHANGED vars
    <2>1. UNCHANGED <<process, flushes, overlapped, writing>>
      BY <1>2 DEF DeleteObservation, ClearAll, Elapse, Tick, vars
    <2>2. QED
      BY <2>1 DEF Solo
  <1>3. CASE \E i \in DOMAIN flushes : FlushStep(i)
    <2>1. PICK i \in DOMAIN flushes : FlushStep(i)
      BY <1>3
    <2>2. UNCHANGED <<process, overlapped>>
      BY <2>1 DEF FlushStep, Begin, Write, WriteFails, Remember, End
    <2>3. process # "down"
      BY <2>1 DEF Solo
    <2>4. CASE Len(flushes) <= 1
      <3>1. flushes # << >>
        BY <2>4, OnlyFlush
      <3>2. \/ flushes' = << >>
            \/ Len(flushes') = 1 /\ UNCHANGED writing
        BY <2>1, <2>4, FlushStepSolo
      <3>3. Len(flushes') <= 1
        <4>1. CASE flushes' = << >>
          BY <4>1, <1>e
        <4>2. CASE Len(flushes') = 1
          BY <4>2
        <4>3. QED
          BY <4>1, <4>2, <3>2
      <3>4. flushes' = << >> \/ UNCHANGED writing
        BY <3>2
      <3>5. QED
        BY <2>2, <2>3, <3>1, <3>3, <3>4 DEF Solo
    <2>5. CASE ~(Len(flushes) <= 1)
      BY <2>2, <2>3, <2>5 DEF Solo
    <2>6. QED
      BY <2>4, <2>5
  <1>4. CASE \E d \in Dirs : Reconfigure(d)
    BY <1>4 DEF Reconfigure, Load, Solo
  <1>5. CASE \E d \in Dirs : Start(d)
    BY <1>5, <1>e DEF Start, Load, Solo
  <1>6. CASE Shutdown
    <2>1. process' = "stopping" /\ writing' /\ overlapped' = (overlapped \/ flushes # << >>)
      BY <1>6 DEF Shutdown
    <2>2. ASSUME ~overlapped' PROVE Len(flushes') <= 1
      <3>1. flushes = << >>
        BY <2>1, <2>2
      <3>2. CASE dir = NoDir
        BY <3>1, <3>2, <1>6, <1>e DEF Shutdown
      <3>3. CASE dir # NoDir
        <4>1. dir \in Stores
          BY <3>3 DEF TypeOK, Stores
        <4>2. QED
          BY <3>1, <3>3, <4>1, <1>6, FirstFlush DEF Shutdown
      <3>4. QED
        BY <3>2, <3>3
    <2>3. QED
      BY <2>1, <2>2 DEF Solo
  <1>7. CASE Exit
    BY <1>7, <1>e DEF Exit, Solo
  <1>8. QED
    BY <1>1, <1>2, <1>3, <1>4, <1>5, <1>6, <1>7 DEF Next

LEMMA FreshFlushStep ==
  ASSUME TypeOK, Solo, Fresh, NEW i \in DOMAIN flushes, FlushStep(i)
  PROVE  Fresh'
  <1> SUFFICES ASSUME ~overlapped'
               PROVE  /\ \A j \in DOMAIN flushes' : flushes'[j].dir = dir'
                      /\ Alive' /\ dir' # NoDir /\ ~dirty' =>
                            /\ flushes' = << >> => disk'[dir'] = byKey'
                            /\ \A j \in DOMAIN flushes' : Kept(dir, flushes[j])'
    BY DEF Fresh, Kept
  <1>f. UNCHANGED <<process, overlapped, dir, byKey>> /\ ~overlapped
    BY DEF FlushStep, Begin, Write, WriteFails, Remember, End
  <1>l. Len(flushes) <= 1
    BY <1>f DEF Solo
  <1>o. i = 1 /\ DOMAIN flushes = {1} /\ flushes # << >> /\ RemoveAt(flushes, i) = << >> /\ flushes[1] \in Flushes
    BY <1>l, OnlyFlush
  <1>d. flushes[1].dir = dir
    BY <1>f, <1>o DEF Fresh
  <1>e. DOMAIN << >> = {}
    OBVIOUS
  <1>n. \A j \in DOMAIN flushes' : j = 1 /\ flushes'[j].dir = dir'
    BY <1>l, <1>f, <1>d, <1>e, FlushStepSolo
  <1>k. dir # NoDir /\ Alive /\ ~dirty => Kept(dir, flushes[1])
    BY <1>f, <1>o DEF Fresh
  <1>u. \A v : [flushes EXCEPT ![1].step = v][1].step = v /\ [flushes EXCEPT ![1].step = v][1].snap = flushes[1].snap
               /\ [flushes EXCEPT ![1].step = v] # << >>
    BY <1>o DEF Flushes
  <1> SUFFICES ASSUME Alive', dir' # NoDir, ~dirty'
               PROVE  /\ flushes' = << >> => disk'[dir'] = byKey'
                      /\ 1 \in DOMAIN flushes' => Kept(dir, flushes[1])'
    BY <1>n
  <1>a. Alive /\ dir # NoDir /\ dir \in Stores
    BY <1>f DEF Alive, TypeOK, Stores
  <1>1. CASE Begin(i)
    <2>1. CASE dirty
      <3>1. flushes' = [flushes EXCEPT ![1].step = "write", ![1].snap = byKey] /\ UNCHANGED disk
        BY <2>1, <1>1, <1>o DEF Begin
      <3>2. flushes'[1].step = "write" /\ flushes'[1].snap = byKey /\ flushes' # << >>
        BY <3>1, <1>o DEF Flushes
      <3>3. QED
        BY <3>2, <1>f DEF Kept
    <2>2. CASE ~dirty
      <3>1. flushes' = << >> /\ UNCHANGED disk /\ flushes[1].step = "called"
        BY <2>2, <1>1, <1>o DEF Begin
      <3>2. disk[dir] = byKey
        BY <3>1, <2>2, <1>k, <1>a DEF Kept
      <3>3. QED
        BY <3>1, <3>2, <1>f, <1>e
    <2>3. QED
      BY <2>1, <2>2
  <1>2. CASE Write(i)
    <2>1. flushes[1].step = "write" /\ flushes' = [flushes EXCEPT ![1].step = "end"] /\ UNCHANGED dirty
          /\ disk' = [disk EXCEPT ![dir] = flushes[1].snap]
      BY <1>2, <1>o, <1>d DEF Write
    <2>2. flushes[1].snap = byKey
      BY <2>1, <1>k, <1>a DEF Kept
    <2>3. disk'[dir] = byKey
      BY <2>1, <2>2, <1>a DEF TypeOK
    <2>4. flushes'[1].step = "end" /\ flushes' # << >>
      BY <2>1, <1>u
    <2>5. QED
      BY <2>3, <2>4, <1>f DEF Kept
  <1>3. CASE WriteFails(i)
    <2>1. flushes' = [flushes EXCEPT ![1].step = "failed"]
      BY <1>3, <1>o DEF WriteFails
    <2>2. flushes'[1].step = "failed" /\ flushes' # << >>
      BY <2>1, <1>u
    <2>3. QED
      BY <2>2 DEF Kept
  <1>4. CASE Remember(i)
    BY <1>4 DEF Remember
  <1>5. CASE End(i)
    <2>1. flushes[1].step = "end" /\ flushes' = << >> /\ UNCHANGED <<dirty, disk>>
      BY <1>5, <1>o DEF End
    <2>2. disk[dir] = byKey
      BY <2>1, <1>k, <1>a DEF Kept
    <2>3. QED
      BY <2>1, <2>2, <1>f, <1>e
  <1>6. QED
    BY <1>1, <1>2, <1>3, <1>4, <1>5 DEF FlushStep

\* A load with no flush under way.
LEMMA FreshLoad ==
  ASSUME TypeOK, NEW d \in Dirs, Load(d), UNCHANGED <<flushes, disk>>, ~overlapped' => flushes = << >>
  PROVE  Fresh'
  <1>1. d # NoDir => disk'[dir'] = byKey'
    BY DEF Load, Read
  <1>2. ~overlapped' => flushes' = << >> /\ DOMAIN flushes' = {}
    OBVIOUS
  <1>3. dir' = d
    BY DEF Load
  <1>4. QED
    BY <1>1, <1>2, <1>3 DEF Fresh

LEMMA FreshStep ==
  ASSUME TypeOK, Solo, Fresh, [Next]_vars
  PROVE  Fresh'
  <1>1. CASE \E k \in Keys : Record(k)
    <2>1. PICK k \in Keys : Record(k)
      BY <1>1
    <2>2. dirty' /\ UNCHANGED <<dir, overlapped>>
      BY <2>1 DEF Record
    <2>3. ASSUME ~overlapped' PROVE \A j \in DOMAIN flushes' : flushes'[j].dir = dir
      <3>1. CASE Due /\ dir # NoDir
        <4>1. flushes = << >>
          BY <2>2, <2>3, <3>1 DEF Solo, Due
        <4>2. dir \in Stores
          BY <3>1 DEF TypeOK, Stores
        <4>3. flushes' = << Flush(dir, FALSE) >>
          BY <2>1, <3>1, <4>1, <4>2, FirstFlush DEF Record
        <4>4. QED
          BY <4>2, <4>3, FirstFlush
      <3>2. CASE ~(Due /\ dir # NoDir)
        <4>1. flushes' = flushes
          BY <2>1, <3>2 DEF Record
        <4>2. QED
          BY <4>1, <2>2, <2>3 DEF Fresh
      <3>3. QED
        BY <3>1, <3>2
    <2>4. QED
      BY <2>2, <2>3 DEF Fresh
  <1>2. CASE (\E k \in Keys : DeleteObservation(k)) \/ ClearAll
    <2>1. dirty' /\ UNCHANGED <<dir, overlapped, flushes>>
      BY <1>2 DEF DeleteObservation, ClearAll
    <2>2. QED
      BY <2>1 DEF Fresh
  <1>3. CASE Elapse \/ Tick \/ UNCHANGED vars
    <2>1. UNCHANGED <<dir, overlapped, flushes, process, dirty, disk, byKey>>
      BY <1>3 DEF Elapse, Tick, vars
    <2>2. QED
      BY <2>1 DEF Fresh, Kept, Alive
  <1>4. CASE \E i \in DOMAIN flushes : FlushStep(i)
    BY <1>4, FreshFlushStep
  <1>5. CASE \E d \in Dirs : Reconfigure(d)
    <2>1. PICK d \in Dirs : Reconfigure(d)
      BY <1>5
    <2>2. Load(d) /\ UNCHANGED <<flushes, disk>> /\ (~overlapped' => flushes = << >>)
      BY <2>1 DEF Reconfigure
    <2>3. QED
      BY <2>2, FreshLoad
  <1>6. CASE \E d \in Dirs : Start(d)
    <2>1. PICK d \in Dirs : Start(d)
      BY <1>6
    <2>2. Load(d) /\ UNCHANGED <<flushes, disk>> /\ (~overlapped' => flushes = << >>)
      BY <2>1 DEF Start, Solo
    <2>3. QED
      BY <2>2, FreshLoad
  <1>7. CASE Shutdown
    <2>1. process = "running" /\ UNCHANGED <<byKey, dirty, dir, disk>>
          /\ overlapped' = (overlapped \/ flushes # << >>)
      BY <1>7 DEF Shutdown
    <2>2. CASE overlapped'
      BY <2>2 DEF Fresh
    <2>3. CASE ~overlapped'
      <3>1. flushes = << >> /\ ~overlapped
        BY <2>1, <2>3
      <3>2. dir # NoDir /\ ~dirty => disk[dir] = byKey
        BY <3>1, <2>1 DEF Fresh, Alive
      <3>3. CASE dir = NoDir
        BY <3>1, <3>3, <2>1, <1>7 DEF Shutdown, Fresh
      <3>4. CASE dir # NoDir
        <4>1. dir \in Stores
          BY <3>4 DEF TypeOK, Stores
        <4>2. flushes' = << Flush(dir, TRUE) >>
          BY <3>1, <3>4, <4>1, <1>7, FirstFlush DEF Shutdown
        <4>3. DOMAIN flushes' = {1} /\ flushes'[1].dir = dir /\ flushes'[1].step = "called"
          BY <4>1, <4>2, FirstFlush
        <4>4. flushes' # << >>
          BY <4>3
        <4>5. QED
          BY <4>3, <4>4, <3>2, <2>1 DEF Fresh, Kept
      <3>5. QED
        BY <3>3, <3>4
    <2>4. QED
      BY <2>2, <2>3
  <1>8. CASE Exit
    BY <1>8 DEF Exit, Fresh, Alive
  <1>9. QED
    BY <1>1, <1>2, <1>3, <1>4, <1>5, <1>6, <1>7, <1>8 DEF Next

-----------------------------------------------------------------------------
(* The invariant, and what follows from it. *)

IInv == TypeOK /\ Solo /\ Fresh

LEMMA InitIInv == Init => IInv
  <1> SUFFICES ASSUME Init PROVE IInv
    OBVIOUS
  <1>1. Solo
    BY DEF Init, Solo
  <1>2. dir # NoDir => disk[dir] = byKey
    BY DEF Init, Stores
  <1>3. Fresh
    BY <1>2 DEF Init, Fresh
  <1>4. QED
    BY <1>1, <1>3, InitType DEF IInv

LEMMA IInvStep == IInv /\ [Next]_vars => IInv'
  BY TypeStep, SoloStep, FreshStep DEF IInv

LEMMA Invariance == Spec => []IInv
  BY InitIInv, IInvStep, PTL DEF Spec

\* Every variable has its type; the tally, each snapshot and each file stay
\* within BucketMax buckets.
THEOREM TypeCorrect == Spec => []TypeOK
  <1>1. IInv => TypeOK
    BY DEF IInv
  <1>2. QED
    BY <1>1, Invariance, PTL

\* While the process runs there is at most one flush, and it holds the claim.
THEOREM WriterIsAlone == Spec => []OneWriter
  <1>1. IInv => OneWriter
    BY DEF IInv, Solo, OneWriter
  <1>2. QED
    BY <1>1, Invariance, PTL

\* What is marked clean is what a restart reads back, except after a load or a
\* shutdown that met a flush under way.
THEOREM CleanMeansSaved == Spec => []CleanIsSaved
  <1>1. IInv => CleanIsSaved
    BY DEF IInv, Fresh, CleanIsSaved
  <1>2. QED
    BY <1>1, Invariance, PTL

-----------------------------------------------------------------------------
(***************************************************************************)
(* When the claim of the writer is never left behind.                      *)
(*                                                                         *)
(* recordEvent claims the writer before it looks for a directory.  As long *)
(* as no event comes due without one, a claim has a flush that gives it    *)
(* back, so the saves of SavesGoOn can go on.                              *)
(***************************************************************************)

\* An event that is due finds a directory.
DueHasAStore == (\E k \in Keys : Record(k)) /\ Due => dir # NoDir

\* A claim has a flush under way; a process that has ended leaves neither.
ClaimIsUsed ==
    /\ process = "running" /\ writing => flushes # << >>
    /\ process = "down" => ~writing /\ flushes = << >>

\* A flush that goes on stays in the queue; one that leaves gives the claim back.
LEMMA FlushStepClaim ==
  ASSUME TypeOK, NEW i \in DOMAIN flushes, FlushStep(i)
  PROVE  writing' => flushes' # << >>
  <1>1. flushes \in Seq(Flushes) /\ flushes # << >>
    BY EmptySeq DEF TypeOK
  <1>2. \A s, f : DOMAIN [flushes EXCEPT ![i].step = s] = DOMAIN flushes
               /\ DOMAIN [flushes EXCEPT ![i].step = s, ![i].snap = f] = DOMAIN flushes
    OBVIOUS
  <1>3. CASE Begin(i)
    <2>1. CASE dirty
      BY <1>2, <1>3, <2>1 DEF Begin
    <2>2. CASE ~dirty
      BY <1>3, <2>2 DEF Begin
    <2>3. QED
      BY <2>1, <2>2
  <1>4. CASE Write(i) \/ WriteFails(i) \/ Remember(i)
    <2>1. \E s \in {"end", "failed"} : flushes' = [flushes EXCEPT ![i].step = s]
      BY <1>4, Zenon DEF Write, WriteFails, Remember
    <2>2. i \in DOMAIN flushes'
      BY <1>2, <2>1
    <2>3. QED
      BY <2>2
  <1>5. CASE End(i)
    BY <1>5 DEF End
  <1>6. QED
    BY <1>3, <1>4, <1>5 DEF FlushStep

LEMMA ClaimStep ==
  ASSUME TypeOK, ClaimIsUsed, DueHasAStore, [Next]_vars
  PROVE  ClaimIsUsed'
  <1>1. CASE \E k \in Keys : Record(k)
    <2>1. PICK k \in Keys : Record(k)
      BY <1>1
    <2>2. UNCHANGED process /\ process # "down"
      BY <2>1 DEF Record, Alive
    <2>3. CASE Due
      <3>1. flushes' = Append(flushes, Flush(dir, FALSE))
        BY <2>1, <2>3 DEF Record, DueHasAStore
      <3>2. dir \in Stores
        BY <2>1, <2>3 DEF DueHasAStore, TypeOK, Stores
      <3>3. flushes \in Seq(Flushes) /\ Flush(dir, FALSE) \in Flushes
        BY <3>2, FlushType DEF TypeOK
      <3>4. flushes' # << >>
        <4>1. Len(flushes') = Len(flushes) + 1 /\ Len(flushes) \in Nat
          BY <3>1, <3>3, AppendProperties, LenProperties
        <4>2. QED
          BY <4>1
      <3>5. QED
        BY <2>2, <3>4 DEF ClaimIsUsed
    <2>4. CASE ~Due
      BY <2>1, <2>2, <2>4 DEF Record, ClaimIsUsed
    <2>5. QED
      BY <2>3, <2>4
  <1>2. CASE (\E k \in Keys : DeleteObservation(k)) \/ ClearAll \/ Elapse \/ Tick \/ UNCHANGED vars
    <2>1. UNCHANGED <<process, flushes, writing>>
      BY <1>2 DEF DeleteObservation, ClearAll, Elapse, Tick, vars
    <2>2. QED
      BY <2>1 DEF ClaimIsUsed
  <1>3. CASE \E i \in DOMAIN flushes : FlushStep(i)
    <2>1. PICK i \in DOMAIN flushes : FlushStep(i)
      BY <1>3
    <2>2. UNCHANGED process
      BY <2>1 DEF FlushStep, Begin, Write, WriteFails, Remember, End
    <2>3. process # "down"
      BY <2>1 DEF ClaimIsUsed
    <2>4. QED
      BY <2>1, <2>2, <2>3, FlushStepClaim DEF ClaimIsUsed
  <1>4. CASE \E d \in Dirs : Reconfigure(d)
    BY <1>4 DEF Reconfigure, Load, ClaimIsUsed
  <1>5. CASE \E d \in Dirs : Start(d)
    BY <1>5 DEF Start, Load, ClaimIsUsed
  <1>6. CASE Shutdown
    BY <1>6 DEF Shutdown, ClaimIsUsed
  <1>7. CASE Exit
    BY <1>7 DEF Exit, ClaimIsUsed
  <1>8. QED
    BY <1>1, <1>2, <1>3, <1>4, <1>5, <1>6, <1>7 DEF Next

\* While the process runs, the claim of recordEvent (observations.go:304-313) has
\* a flush that will give it back, over failed writes, clears, loads and
\* restarts, unless an event came due without a directory: the claim that run
\* observations_storeless leaves behind.
THEOREM ClaimsAreUsed == Spec /\ [][DueHasAStore]_vars => []ClaimIsUsed
  <1>1. Init => ClaimIsUsed
    BY DEF Init, ClaimIsUsed
  <1>2. IInv /\ ClaimIsUsed /\ [Next]_vars /\ [DueHasAStore]_vars => ClaimIsUsed'
    <2> SUFFICES ASSUME IInv, ClaimIsUsed, [Next]_vars, [DueHasAStore]_vars PROVE ClaimIsUsed'
      OBVIOUS
    <2>1. CASE DueHasAStore
      BY <2>1, ClaimStep DEF IInv
    <2>2. CASE UNCHANGED vars
      BY <2>2 DEF vars, ClaimIsUsed
    <2>3. QED
      BY <2>1, <2>2
  <1>3. QED
    BY <1>1, <1>2, InitIInv, IInvStep, PTL DEF Spec

=============================================================================
