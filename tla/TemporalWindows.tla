--------------------------- MODULE TemporalWindows ---------------------------
(***************************************************************************)
(* The temporal windows of one agent: the ring of buckets that counts what *)
(* happened in each interval, the recent run-start timestamps beside it,   *)
(* and the compact form of both that the host keeps across restarts.       *)
(*                                                                         *)
(* A bucket counts run starts only: its other counters are added to in the *)
(* same way, and the failure and finish timestamps are kept as those of    *)
(* the starts.  Time is that of the events, which may come in any order.   *)
(***************************************************************************)
EXTENDS Integers, Sequences, FiniteSets, Selection

CONSTANTS
  Capacity,       \* BUCKETS_PER_24H
  Interval,       \* BUCKET_INTERVAL_MS
  RecentWindow,   \* RECENT_TIMESTAMP_WINDOW
  None,           \* undefined, or null
  MaxTime,        \* bound: the last timestamp of an event
  MaxRecords      \* bound: what a process records, with what was restored into it

Times == 0 .. MaxTime
Buckets == [bucketStart : Times, runStarts : 0 .. MaxRecords]

Records == [at : Times, starts : 0 .. 1]
Compacts == [buckets : Seq(Buckets), runStarts : Seq(Times), history : Seq(Records),
             latest : Times, inOrder : BOOLEAN]

ASSUME WindowsAreFinite ==
  /\ Capacity \in Nat \ {0}
  /\ Interval \in Nat \ {0}
  /\ RecentWindow \in Nat
  /\ None \notin Buckets \cup Compacts
  /\ MaxTime \in Nat
  /\ MaxRecords \in Nat

VARIABLES
  buckets,    \* AgentRuntime.buckets
  runStarts,  \* AgentRuntime.runStartTimestamps
  saved,      \* the compact form last persisted, or None
  history,    \* everything recorded, in order of arrival (for the properties only)
  latest,     \* the latest timestamp recorded (for the properties only)
  inOrder     \* no event came late so far (for the properties only)

runtime == <<buckets, runStarts, history, latest, inOrder>>
vars == <<buckets, runStarts, saved, history, latest, inOrder>>

-----------------------------------------------------------------------------
(* RingBuffer. *)

Slots == 0 .. Capacity - 1
Rings == [buffer : [Slots -> Buckets \cup {None}], head : Slots, count : 0 .. Capacity]

EmptyRing == [buffer |-> [k \in Slots |-> None], head |-> 0, count |-> 0]

Push(ring, entry) ==
  [buffer |-> [ring.buffer EXCEPT ![ring.head] = entry],
   head   |-> (ring.head + 1) % Capacity,
   count  |-> IF ring.count < Capacity THEN ring.count + 1 ELSE ring.count]

\* BUG: the slots are read from the first on, also once the ring has wrapped.
ToArrayUnrotated(ring) == [i \in 1 .. ring.count |-> ring.buffer[i - 1]]

ToArray(ring) ==
  [i \in 1 .. ring.count |->
     ring.buffer[IF ring.count < Capacity THEN i - 1 ELSE (ring.head + i - 1) % Capacity]]

NewestSlot(ring) == (ring.head + Capacity - 1) % Capacity
Newest(ring) == ring.buffer[NewestSlot(ring)]

\* clear(), then push() of each entry of a list that was exported from a ring.
Refilled(list) ==
  [buffer |-> [k \in Slots |-> IF k < Len(list) THEN list[k + 1] ELSE None],
   head   |-> Len(list) % Capacity,
   count  |-> Len(list)]

-----------------------------------------------------------------------------
(* AgentWindowStore. *)

\* bucketStartFor, as the number of the interval.
BucketOf(ts) == ts \div Interval

\* BUG: an event that finds its bucket there is counted once more.
RecordedTwice(ring, ts, starts) ==
  IF ring.count > 0 /\ Newest(ring).bucketStart = BucketOf(ts)
  THEN [ring EXCEPT !.buffer[NewestSlot(ring)].runStarts = @ + starts + 1]
  ELSE Push(ring, [bucketStart |-> BucketOf(ts), runStarts |-> starts])

\* record: only the newest bucket is looked at, so a late event opens a bucket again.
Recorded(ring, ts, starts) ==
  IF ring.count > 0 /\ Newest(ring).bucketStart = BucketOf(ts)
  THEN [ring EXCEPT !.buffer[NewestSlot(ring)].runStarts = @ + starts]
  ELSE Push(ring, [bucketStart |-> BucketOf(ts), runStarts |-> starts])

\* BUG: an entry at the cutoff is dropped too.
PrunedEarly(list, cutoff) ==
  LET old == {k \in 1 .. Len(list) : \A j \in 1 .. k : list[j] <= cutoff}
  IN  SubSeq(list, Cardinality(old) + 1, Len(list))

\* pruneRecent: entries leave at the front until one is recent enough.
Pruned(list, cutoff) ==
  LET old == {k \in 1 .. Len(list) : \A j \in 1 .. k : list[j] < cutoff}
  IN  SubSeq(list, Cardinality(old) + 1, Len(list))

Arrived(ts, starts) ==
  /\ Len(history) < MaxRecords
  /\ history' = Append(history, [at |-> ts, starts |-> starts])
  /\ inOrder' = (inOrder /\ ts >= latest)
  /\ latest' = IF ts > latest THEN ts ELSE latest

Init ==
  /\ buckets = EmptyRing
  /\ runStarts = <<>>
  /\ saved = None
  /\ history = <<>>
  /\ latest = 0
  /\ inOrder = TRUE

\* recordRunStart; the noteContext after it records into the same bucket.
RecordRunStart(ts) ==
  /\ buckets' = Recorded(buckets, ts, 1)
  /\ runStarts' = Pruned(Append(runStarts, ts), ts - RecentWindow)
  /\ Arrived(ts, 1)
  /\ UNCHANGED saved

\* recordRunEnd, noteContext and record for comments, approvals, incidents and costs.
RecordOther(ts) ==
  /\ buckets' = Recorded(buckets, ts, 0)
  /\ Arrived(ts, 0)
  /\ UNCHANGED <<runStarts, saved>>

-----------------------------------------------------------------------------
(* Persistence. *)

\* exportCompact, by the persistence timer.
Persist ==
  /\ saved' = [buckets |-> ToArray(buckets), runStarts |-> runStarts,
               history |-> history, latest |-> latest, inOrder |-> inOrder]
  /\ UNCHANGED runtime

\* restoreCompact, after a restart or over a runtime that another setup has filled.
Restore ==
  /\ saved # None
  /\ buckets' = Refilled(saved.buckets)
  /\ runStarts' = saved.runStarts
  /\ history' = saved.history
  /\ latest' = saved.latest
  /\ inOrder' = saved.inOrder
  /\ UNCHANGED saved

\* A restart before anything was persisted.
RestartEmpty ==
  /\ saved = None
  /\ buckets' = EmptyRing
  /\ runStarts' = <<>>
  /\ history' = <<>>
  /\ latest' = 0
  /\ inOrder' = TRUE
  /\ UNCHANGED saved

Next ==
  \/ \E ts \in Times : RecordRunStart(ts) \/ RecordOther(ts)
  \/ Persist \/ Restore \/ RestartEmpty

Spec == Init /\ [][Next]_vars

-----------------------------------------------------------------------------
(* Queries. *)

\* BUG: a bucket counts only if all of it is in the window.
RecentBucketsWhole(now, window) ==
  {k \in 1 .. buckets.count :
     LET start == ToArray(buckets)[k].bucketStart * Interval
     IN  start >= now - window /\ start <= now}

\* recentBuckets, as positions in the array: those that overlap [now - window, now].
RecentBuckets(now, window) ==
  {k \in 1 .. buckets.count :
     LET start == ToArray(buckets)[k].bucketStart * Interval
     IN  start + Interval > now - window /\ start <= now}

\* getExtendedMetrics(...).runStarts: each recent bucket is added in turn.
WindowedRunStarts(now, window) ==
  LET array == ToArray(buckets)
      recent == RecentBuckets(now, window)
      upTo[k \in 0 .. buckets.count] ==
        IF k = 0 THEN 0 ELSE upTo[k - 1] + (IF k \in recent THEN array[k].runStarts ELSE 0)
  IN  upTo[buckets.count]

-----------------------------------------------------------------------------
RingSound(ring) ==
  /\ ring \in Rings
  /\ ring.count < Capacity => ring.head = ring.count
  /\ \A k \in Slots : ring.buffer[k] = None <=> k >= ring.count

\* No bucket counts more than was recorded.
CountsBounded ==
  /\ \A k \in 1 .. buckets.count : ToArray(buckets)[k].runStarts <= Len(history)
  /\ saved # None =>
       \A k \in 1 .. Len(saved.buckets) : saved.buckets[k].runStarts <= Len(saved.history)

TypeOK ==
  /\ RingSound(buckets)
  /\ runStarts \in Seq(Times)
  /\ history \in Seq(Records) /\ Len(history) <= MaxRecords
  /\ latest \in Times
  /\ inOrder \in BOOLEAN
  /\ saved # None =>
       /\ saved \in Compacts
       /\ Len(saved.buckets) <= Capacity
       /\ Len(saved.history) <= MaxRecords
  /\ CountsBounded

(* The ring promises what a bounded queue promises, also across the export  *)
(* and the restore: nothing in the middle is lost, doubled or reordered by  *)
(* wrapping around.                                                         *)
Queue == INSTANCE BoundedQueue WITH
  Items <- Buckets,
  items <- ToArray(buckets),
  stored <- IF saved = None THEN <<>> ELSE saved.buckets
QueueSpec == Queue!QSpec

StartsRecorded == {k \in 1 .. Len(history) : history[k].starts = 1}
StartTimes ==
  LET only == Selected(history, {record \in Records : record.starts = 1})
  IN  [k \in 1 .. Len(only) |-> only[k].at]

(* As long as events come in order, a window shorter than what the ring     *)
(* holds counts exactly the run starts whose interval it overlaps, whatever *)
(* was evicted, exported and restored meanwhile.                            *)
WindowsExact ==
  inOrder =>
    \A window \in {n * Interval : n \in 1 .. Capacity - 1}, now \in latest .. latest + Interval :
      WindowedRunStarts(now, window) =
        Cardinality({k \in StartsRecorded :
          LET start == BucketOf(history[k].at) * Interval
          IN  start + Interval > now - window /\ start <= now})

(* As long as events come in order, the recent timestamps are those of the  *)
(* run starts within the recent window of the last one, none of them lost   *)
(* and none kept longer.                                                    *)
RecentExact ==
  inOrder /\ StartTimes # <<>> =>
    runStarts = Selected(StartTimes,
                         {ts \in Times : ts >= StartTimes[Len(StartTimes)] - RecentWindow})

(* "In oldest-first order": the series of buckets that the UI plots from    *)
(* left to right.                                                           *)
SeriesOldestFirst ==
  \A j, k \in 1 .. buckets.count : j < k =>
    ToArray(buckets)[j].bucketStart <= ToArray(buckets)[k].bucketStart
=============================================================================
