----------------------------- MODULE Observations -----------------------------
(* The tally of observed serving states of observations.go and its file: events
   of requests, the throttled background writer, clears of the dashboard,
   reconfigurations that move the store, orderly and disorderly ends of the
   process. Each action is one critical section of observations.mu, or one
   rename of the file.

   A bucket is abstracted to the second of its last event (LastAt); its counts,
   its learned lengths and the feed of recent events change in the same
   critical sections and go through the same snapshot.                        *)
EXTENDS Integers, Sequences, SequencesExt, FiniteSets, Functions

CONSTANTS Keys,         \* buckets: an account and a model each
          Dirs,         \* values of store_dir
          NoDir,        \* the empty store_dir
          BucketMax,    \* observationsBucketMax
          MaxTime,      \* bound of the clock of the events
          MaxFailures   \* bound of the number of writes that fail

ASSUME ObservationsAssumption ==
    /\ BucketMax \in Nat \ {0}
    /\ MaxTime \in Nat
    /\ MaxFailures \in Nat

VARIABLES
    byKey,      \* the buckets: key -> second of the last event
    dirty,      \* memory holds what no snapshot has taken
    writing,    \* a background writer is claimed
    rested,     \* observationsFlushInterval has passed since lastOut
    dir,        \* the store_dir loaded last
    flushes,    \* the calls of flushObservations under way
    disk,       \* per directory, the buckets its file reads as
    process,    \* "running", "stopping" (in cliproxyPluginShutdown) or "down"
    clock, failures,
    overlapped  \* history: since the start, a load or the shutdown met a flush under way

vars == <<byKey, dirty, writing, rested, dir, flushes, disk, process, clock, failures, overlapped>>

Stores == Dirs \ {NoDir}
Seconds == 0..MaxTime

\* What memory and files can hold.
Small(S) == IsFiniteSet(S) /\ Cardinality(S) <= BucketMax
Tallies == UNION {[S -> Seconds] : S \in {S \in SUBSET Keys : Small(S)}}
Empty == [k \in {} |-> 0]

\* A missing, foreign or unreadable file reads as no bucket.
Read(d) == IF d = NoDir THEN Empty ELSE disk[d]

Flush(d, isLast) == [dir |-> d, last |-> isLast, step |-> "called", snap |-> Empty]

Init == /\ byKey = Empty
        /\ dirty = FALSE
        /\ writing = FALSE
        /\ rested = FALSE
        /\ dir \in Dirs
        /\ flushes = <<>>
        /\ disk = [d \in Stores |-> Empty]
        /\ process = "running"
        /\ clock = 0
        /\ failures = 0
        /\ overlapped = FALSE

Alive == process # "down"

-------------------------------------------------------------------------------
(* Events and clears. *)

\* Any one of the buckets whose last event is the oldest: the order of a map decides.
Oldest(k) == k \in DOMAIN byKey /\ \A j \in DOMAIN byKey : byKey[k] <= byKey[j]

\* Mutant: an oldest bucket goes only when the tally is above its limit.
MutEvictForTooLate(k) ==
    IF k \in DOMAIN byKey \/ Cardinality(DOMAIN byKey) <= BucketMax THEN {byKey}
    ELSE {Restrict(byKey, DOMAIN byKey \ {old}) : old \in {j \in Keys : Oldest(j)}}

\* Room for a bucket: an oldest one goes when the tally is full.
EvictFor(k) ==
    IF k \in DOMAIN byKey \/ Cardinality(DOMAIN byKey) < BucketMax THEN {byKey}
    ELSE {Restrict(byKey, DOMAIN byKey \ {old}) : old \in {j \in Keys : Oldest(j)}}

\* Mutant: a write is due again while one is under way.
MutDueWhileWriting == rested

Due == rested /\ ~writing

\* An event is tallied; when a write is due it claims the writer, and only with
\* a directory does it also start one.
Record(k) ==
    /\ Alive
    /\ \E room \in EvictFor(k) :
          byKey' = [j \in DOMAIN room \cup {k} |-> IF j = k THEN clock ELSE room[j]]
    /\ dirty' = TRUE
    /\ writing' = (writing \/ Due)
    /\ flushes' = IF Due /\ dir # NoDir THEN Append(flushes, Flush(dir, FALSE)) ELSE flushes
    /\ UNCHANGED <<rested, dir, disk, process, clock, failures, overlapped>>

DeleteObservation(k) ==
    /\ Alive
    /\ k \in DOMAIN byKey
    /\ byKey' = Restrict(byKey, DOMAIN byKey \ {k})
    /\ dirty' = TRUE
    /\ UNCHANGED <<writing, rested, dir, flushes, disk, process, clock, failures, overlapped>>

ClearAll ==
    /\ Alive
    /\ byKey' = Empty
    /\ dirty' = TRUE
    /\ UNCHANGED <<writing, rested, dir, flushes, disk, process, clock, failures, overlapped>>

-------------------------------------------------------------------------------
(* flushObservations. *)

\* Mutant: the early return keeps the claim of the writer.
MutBeginKeepsClaim(i) ==
    /\ flushes[i].step = "called"
    /\ flushes' = IF dirty THEN [flushes EXCEPT ![i].step = "write", ![i].snap = byKey]
                  ELSE RemoveAt(flushes, i)
    /\ dirty' = FALSE
    /\ UNCHANGED <<byKey, writing, rested, dir, disk, process, clock, failures, overlapped>>

\* The flush takes its snapshot, or has nothing to do and gives the writer back.
Begin(i) ==
    /\ flushes[i].step = "called"
    /\ IF dirty
       THEN /\ flushes' = [flushes EXCEPT ![i].step = "write", ![i].snap = byKey]
            /\ UNCHANGED writing
       ELSE /\ flushes' = RemoveAt(flushes, i)
            /\ writing' = FALSE
    /\ dirty' = FALSE
    /\ UNCHANGED <<byKey, rested, dir, disk, process, clock, failures, overlapped>>

\* The rename that makes the snapshot the file.
Write(i) ==
    /\ flushes[i].step = "write"
    /\ disk' = [disk EXCEPT ![flushes[i].dir] = flushes[i].snap]
    /\ flushes' = [flushes EXCEPT ![i].step = "end"]
    /\ UNCHANGED <<byKey, dirty, writing, rested, dir, process, clock, failures, overlapped>>

WriteFails(i) ==
    /\ flushes[i].step = "write"
    /\ failures < MaxFailures
    /\ failures' = failures + 1
    /\ flushes' = [flushes EXCEPT ![i].step = "failed"]
    /\ UNCHANGED <<byKey, dirty, writing, rested, dir, disk, process, clock, overlapped>>

\* A failed write leaves memory to the next flush.
Remember(i) ==
    /\ flushes[i].step = "failed"
    /\ dirty' = TRUE
    /\ flushes' = [flushes EXCEPT ![i].step = "end"]
    /\ UNCHANGED <<byKey, writing, rested, dir, disk, process, clock, failures, overlapped>>

\* Mutant: memory is marked clean at the end of a flush, not at its snapshot.
MutEndCleans(i) ==
    /\ flushes[i].step = "end"
    /\ flushes' = RemoveAt(flushes, i)
    /\ rested' = FALSE
    /\ writing' = FALSE
    /\ dirty' = FALSE
    /\ UNCHANGED <<byKey, dir, disk, process, clock, failures, overlapped>>

\* The flush gives the writer back and starts the interval.
End(i) ==
    /\ flushes[i].step = "end"
    /\ flushes' = RemoveAt(flushes, i)
    /\ rested' = FALSE
    /\ writing' = FALSE
    /\ UNCHANGED <<byKey, dirty, dir, disk, process, clock, failures, overlapped>>

FlushStep(i) == Begin(i) \/ Write(i) \/ WriteFails(i) \/ Remember(i) \/ End(i)

-------------------------------------------------------------------------------
(* Loads, and the life of the process. *)

\* What loadObservations does with a directory that is not the loaded one. The
\* claim of the writer is none of its business.
Load(d) ==
    /\ dir' = d
    /\ byKey' = Read(d)
    /\ dirty' = FALSE
    /\ rested' = FALSE

\* configure with another store_dir; with the same one the load does nothing.
Reconfigure(d) ==
    /\ process = "running"
    /\ d # dir
    /\ Load(d)
    /\ overlapped' = (overlapped \/ flushes # <<>>)
    /\ UNCHANGED <<writing, flushes, disk, process, clock, failures>>

\* cliproxyPluginShutdown calls flushObservationsNow.
Shutdown ==
    /\ process = "running"
    /\ process' = "stopping"
    /\ writing' = TRUE
    /\ flushes' = IF dir = NoDir THEN flushes ELSE Append(flushes, Flush(dir, TRUE))
    /\ overlapped' = (overlapped \/ flushes # <<>>)
    /\ UNCHANGED <<byKey, dirty, rested, dir, disk, clock, failures>>

\* The process ends: its shutdown has returned, or it is killed at any moment.
\* Its memory and its background writers end with it.
Exit ==
    /\ Alive
    /\ process' = "down"
    /\ flushes' = <<>>
    /\ byKey' = Empty
    /\ dirty' = FALSE
    /\ writing' = FALSE
    /\ rested' = FALSE
    /\ overlapped' = FALSE
    /\ UNCHANGED <<dir, disk, clock, failures>>

\* A new process is configured.
Start(d) ==
    /\ process = "down"
    /\ process' = "running"
    /\ Load(d)
    /\ UNCHANGED <<writing, flushes, disk, clock, failures, overlapped>>

Elapse ==
    /\ Alive
    /\ ~rested
    /\ rested' = TRUE
    /\ UNCHANGED <<byKey, dirty, writing, dir, flushes, disk, process, clock, failures, overlapped>>

Tick ==
    /\ clock < MaxTime
    /\ clock' = clock + 1
    /\ UNCHANGED <<byKey, dirty, writing, rested, dir, flushes, disk, process, failures, overlapped>>

Next == \/ \E k \in Keys : Record(k) \/ DeleteObservation(k)
        \/ ClearAll
        \/ \E i \in DOMAIN flushes : FlushStep(i)
        \/ \E d \in Dirs : Reconfigure(d) \/ Start(d)
        \/ Shutdown \/ Exit \/ Elapse \/ Tick

Spec == Init /\ [][Next]_vars

\* Writers run, time passes, and traffic goes on: only an event starts a writer.
Fairness == /\ WF_vars(\E i \in DOMAIN flushes : FlushStep(i))
            /\ WF_vars(Elapse)
            /\ WF_vars(\E k \in Keys : Record(k))

FairSpec == Spec /\ Fairness
-------------------------------------------------------------------------------
(* Properties. *)

Flushes == [dir : Stores, last : BOOLEAN, snap : Tallies, step : {"called", "write", "failed", "end"}]

\* Every variable has its type; neither memory nor a file ever holds more than
\* BucketMax buckets (evictObservationBucketLocked).
TypeOK ==
    /\ byKey \in Tallies
    /\ dirty \in BOOLEAN /\ writing \in BOOLEAN /\ rested \in BOOLEAN /\ overlapped \in BOOLEAN
    /\ dir \in Dirs
    /\ flushes \in Seq(Flushes)
    /\ disk \in [Stores -> Tallies]
    /\ process \in {"running", "stopping", "down"}
    /\ clock \in Seconds
    /\ failures \in 0..MaxFailures

\* While the process runs, flushes never overlap, so a file never goes back to
\* an older snapshot: the claim of recordEvent (observations.go:304-307) is held
\* from the call to the last lock of flushObservations, over failures, clears
\* and loads. (Only the flush of a shutdown does not wait for it.)
OneWriter ==
    process = "running" => Len(flushes) <= 1 /\ (flushes # <<>> => writing)

\* A clean memory with no flush under way is what the file holds, whatever
\* events, clears and failed writes came between the snapshot, the write and the
\* end of earlier flushes; so a restart, and an orderly shutdown with its own
\* flush, lose nothing of it (observations.go:358-407). A load or a shutdown that
\* meets a flush under way breaks this until the next start: that flush keeps
\* the directory of its call and takes the buckets of the new one, or renames
\* its older snapshot over the one of the shutdown.
CleanIsSaved ==
    Alive /\ ~overlapped /\ dir # NoDir /\ ~dirty /\ flushes = <<>> => disk[dir] = byKey

\* With a store_dir, what is tallied is sooner or later taken by a flush
\* (observations.go:304-313): the claim of the writer is never left behind.
SavesGoOn ==
    (process = "running" /\ dirty /\ dir # NoDir)
        ~> (~dirty \/ process # "running" \/ dir = NoDir)
===============================================================================
