------------------------ MODULE TemporalWindowsProofs ------------------------
(***************************************************************************)
(* The ring of buckets is a bounded queue, for every capacity and whatever *)
(* the order of the events.  As long as they come in order, the counts of  *)
(* a window and the recent timestamps are exactly those of what was        *)
(* recorded: for every capacity, interval and window, and through every    *)
(* export and restore.                                                     *)
(***************************************************************************)
EXTENDS TemporalWindows, SequenceInduction, SequenceTheorems, FiniteSetTheorems

-----------------------------------------------------------------------------
(* The ring. *)

LEMMA ModOnce ==
  ASSUME NEW C \in Nat \ {0}, NEW x \in 0 .. 2 * C - 1
  PROVE  x % C = IF x < C THEN x ELSE x - C
  OBVIOUS

LEMMA BucketInTime ==
  ASSUME NEW C \in Nat \ {0}, NEW x \in Nat
  PROVE  x \div C \in 0 .. x
  OBVIOUS

\* Where the i-th oldest entry is.
Wrapped(x) == IF x < Capacity THEN x ELSE x - Capacity
At(ring, i) == IF ring.count < Capacity THEN i - 1 ELSE Wrapped(ring.head + i - 1)

LEMMA Wraps ==
  ASSUME NEW x \in 0 .. 2 * Capacity - 1
  PROVE  x % Capacity = Wrapped(x) /\ Wrapped(x) \in Slots
<1>1. Capacity \in Nat \ {0}
  BY WindowsAreFinite
<1>2. x % Capacity = IF x < Capacity THEN x ELSE x - Capacity
  BY <1>1, ModOnce
<1>. QED  BY <1>1, <1>2 DEF Wrapped, Slots

LEMMA RingTypes ==
  ASSUME NEW ring, RingSound(ring)
  PROVE  /\ Capacity \in Nat \ {0}
         /\ ring = [buffer |-> ring.buffer, head |-> ring.head, count |-> ring.count]
         /\ ring.buffer \in [Slots -> Buckets \cup {None}]
         /\ ring.head \in 0 .. Capacity - 1
         /\ ring.count \in 0 .. Capacity
         /\ ring.count < Capacity => ring.head = ring.count
         /\ \A k \in Slots : k < ring.count => ring.buffer[k] \in Buckets
<1>1. Capacity \in Nat \ {0}
  BY WindowsAreFinite
<1>2. ring \in Rings /\ \A k \in Slots : ring.buffer[k] = None <=> k >= ring.count
  BY DEF RingSound
<1>3. ring.count \in 0 .. Capacity /\ ring.buffer \in [Slots -> Buckets \cup {None}]
  BY <1>2 DEF Rings
<1>4. ASSUME NEW k \in Slots, k < ring.count
      PROVE  ring.buffer[k] \in Buckets
  BY <1>1, <1>2, <1>3, <1>4 DEF Slots
<1>. QED  BY <1>1, <1>2, <1>3, <1>4 DEF Rings, RingSound, Slots

LEMMA ArrayAt ==
  ASSUME NEW ring, RingSound(ring)
  PROVE  /\ ToArray(ring) \in Seq(Buckets)
         /\ Len(ToArray(ring)) = ring.count
         /\ \A i \in 1 .. ring.count : /\ At(ring, i) \in Slots
                                       /\ At(ring, i) < ring.count
                                       /\ ToArray(ring)[i] = ring.buffer[At(ring, i)]
<1>1. /\ Capacity \in Nat \ {0}
      /\ ring.head \in 0 .. Capacity - 1
      /\ ring.count \in 0 .. Capacity
      /\ \A k \in Slots : k < ring.count => ring.buffer[k] \in Buckets
  BY RingTypes
<1>2. ASSUME NEW i \in 1 .. ring.count
      PROVE  /\ At(ring, i) \in Slots
             /\ At(ring, i) < ring.count
             /\ (IF ring.count < Capacity THEN i - 1 ELSE (ring.head + i - 1) % Capacity) = At(ring, i)
  <2>1. CASE ring.count < Capacity
    BY <1>1, <2>1 DEF At, Slots
  <2>2. CASE ring.count = Capacity
    <3>1. ring.head + i - 1 \in 0 .. 2 * Capacity - 1
      BY <1>1, <2>2
    <3>2. (ring.head + i - 1) % Capacity = At(ring, i) /\ At(ring, i) \in Slots
      BY <1>1, <2>2, <3>1, Wraps DEF At
    <3>. QED  BY <1>1, <2>2, <3>2 DEF Slots
  <2>3. ring.count < Capacity \/ ring.count = Capacity
    BY <1>1
  <2>. QED  BY <2>1, <2>2, <2>3
<1>3. ToArray(ring) = [i \in 1 .. ring.count |-> ring.buffer[At(ring, i)]]
  BY <1>2 DEF ToArray
<1>4. \A i \in 1 .. ring.count : ring.buffer[At(ring, i)] \in Buckets
  BY <1>1, <1>2
<1>. QED  BY <1>1, <1>2, <1>3, <1>4, IsASeq

LEMMA PushPuts ==
  ASSUME NEW ring, RingSound(ring), NEW entry \in Buckets
  PROVE  /\ RingSound(Push(ring, entry))
         /\ ToArray(Push(ring, entry)) =
              Append(IF Len(ToArray(ring)) < Capacity THEN ToArray(ring) ELSE Tail(ToArray(ring)), entry)
<1>. DEFINE pushed == Push(ring, entry)
            before == ToArray(ring)
            kept == IF Len(before) < Capacity THEN before ELSE Tail(before)
<1>1. /\ Capacity \in Nat \ {0}
      /\ ring.buffer \in [Slots -> Buckets \cup {None}]
      /\ ring.head \in 0 .. Capacity - 1
      /\ ring.count \in 0 .. Capacity
      /\ ring.count < Capacity => ring.head = ring.count
      /\ \A k \in Slots : ring.buffer[k] = None <=> k >= ring.count
  BY RingTypes DEF RingSound
<1>2. None \notin Buckets
  BY WindowsAreFinite
<1>3. (ring.head + 1) % Capacity = Wrapped(ring.head + 1) /\ Wrapped(ring.head + 1) \in Slots
  BY <1>1, Wraps
<1>4. /\ pushed.buffer = [ring.buffer EXCEPT ![ring.head] = entry]
      /\ pushed.head = Wrapped(ring.head + 1)
      /\ pushed.count = IF ring.count < Capacity THEN ring.count + 1 ELSE ring.count
      /\ pushed = [buffer |-> pushed.buffer, head |-> pushed.head, count |-> pushed.count]
  BY <1>3 DEF Push
<1>. HIDE DEF pushed
<1>5. RingSound(pushed)
  <2>1. pushed \in Rings
    <3>1. pushed.buffer \in [Slots -> Buckets \cup {None}]
      BY <1>1, <1>4
    <3>2. pushed.count \in 0 .. Capacity
      BY <1>1, <1>4
    <3>. QED  BY <1>3, <1>4, <3>1, <3>2 DEF Rings
  <2>2. pushed.count < Capacity => pushed.head = pushed.count
    BY <1>1, <1>4 DEF Wrapped
  <2>3. \A k \in Slots : pushed.buffer[k] = None <=> k >= pushed.count
    BY <1>1, <1>2, <1>4 DEF Slots
  <2>. QED  BY <2>1, <2>2, <2>3 DEF RingSound
<1>6. /\ before \in Seq(Buckets) /\ Len(before) = ring.count
      /\ \A i \in 1 .. ring.count : At(ring, i) \in Slots /\ before[i] = ring.buffer[At(ring, i)]
  BY ArrayAt
<1>7. /\ ToArray(pushed) \in Seq(Buckets) /\ Len(ToArray(pushed)) = pushed.count
      /\ \A i \in 1 .. pushed.count : ToArray(pushed)[i] = pushed.buffer[At(pushed, i)]
  BY <1>5, ArrayAt
<1>. HIDE DEF before
<1>8. /\ kept \in Seq(Buckets) /\ Len(kept) = pushed.count - 1
      /\ \A i \in 1 .. Len(kept) : kept[i] = before[i + ring.count - Len(kept)]
  <2>1. CASE ring.count < Capacity
    BY <1>1, <1>4, <1>6, <2>1
  <2>2. CASE ring.count = Capacity
    BY <1>1, <1>4, <1>6, <2>2, HeadTailProperties
  <2>. QED  BY <1>1, <2>1, <2>2
<1>. HIDE DEF kept
<1>9. ASSUME NEW i \in 1 .. pushed.count
      PROVE  ToArray(pushed)[i] = Append(kept, entry)[i]
  <2>1. CASE i = pushed.count
    <3>1. At(pushed, i) = ring.head
      BY <1>1, <1>4, <2>1 DEF At, Wrapped
    <3>2. Append(kept, entry)[i] = entry
      BY <1>8, <2>1
    <3>. QED  BY <1>1, <1>4, <1>7, <3>1, <3>2 DEF Slots
  <2>2. CASE i < pushed.count
    <3>. DEFINE j == i + ring.count - Len(kept)
    <3>1. j \in 1 .. ring.count /\ i \in 1 .. Len(kept)
      BY <1>1, <1>4, <1>8, <2>2
    <3>2. At(pushed, i) = At(ring, j) /\ At(ring, j) # ring.head
      <4>1. CASE ring.count < Capacity
        <5>1. pushed.count = ring.count + 1 /\ Len(kept) = ring.count
          BY <1>1, <1>4, <1>8, <4>1
        <5>2. j = i /\ At(ring, j) = i - 1
          BY <1>1, <4>1, <5>1 DEF At
        <5>3. At(pushed, i) = i - 1
          BY <1>1, <1>4, <2>2, <4>1, <5>1 DEF At, Wrapped
        <5>. QED  BY <1>1, <2>2, <4>1, <5>1, <5>2, <5>3
      <4>2. CASE ring.count = Capacity
        <5>1. pushed.count = Capacity /\ Len(kept) = Capacity - 1
          BY <1>1, <1>4, <1>8, <4>2
        <5>2. j = i + 1 /\ At(ring, j) = Wrapped(ring.head + i)
          BY <1>1, <4>2, <5>1 DEF At
        <5>3. At(pushed, i) = Wrapped(Wrapped(ring.head + 1) + i - 1)
          BY <1>1, <1>4, <5>1 DEF At
        <5>4. i \in 1 .. Capacity - 1
          BY <1>1, <2>2, <5>1
        <5>5. /\ Wrapped(Wrapped(ring.head + 1) + i - 1) = Wrapped(ring.head + i)
              /\ Wrapped(ring.head + i) # ring.head
          <6>1. CASE ring.head + 1 < Capacity
            BY <1>1, <5>4, <6>1 DEF Wrapped
          <6>2. CASE ring.head + 1 = Capacity
            BY <1>1, <5>4, <6>2 DEF Wrapped
          <6>. QED  BY <1>1, <6>1, <6>2
        <5>. QED  BY <5>2, <5>3, <5>5
      <4>. QED  BY <1>1, <4>1, <4>2
    <3>3. Append(kept, entry)[i] = before[j]
      BY <1>8, <3>1
    <3>4. pushed.buffer[At(ring, j)] = ring.buffer[At(ring, j)]
      BY <1>1, <1>4, <1>6, <3>1, <3>2
    <3>. QED  BY <1>6, <1>7, <3>1, <3>2, <3>3, <3>4
  <2>3. i = pushed.count \/ i < pushed.count
    <3>1. pushed.count \in Nat
      BY <1>1, <1>4
    <3>. QED  BY <3>1
  <2>. QED  BY <2>1, <2>2, <2>3
<1>10. Append(kept, entry) \in Seq(Buckets) /\ Len(Append(kept, entry)) = pushed.count
  BY <1>1, <1>4, <1>8
<1>11. ToArray(pushed) = Append(kept, entry)
  BY <1>7, <1>9, <1>10, SeqEqual
<1>. QED  BY <1>5, <1>11 DEF pushed, kept, before

LEMMA NewestIsLast ==
  ASSUME NEW ring, RingSound(ring), ring.count > 0
  PROVE  /\ NewestSlot(ring) = At(ring, ring.count)
         /\ Newest(ring) = ToArray(ring)[ring.count]
         /\ Newest(ring) \in Buckets
<1>1. /\ Capacity \in Nat \ {0}
      /\ ring.head \in 0 .. Capacity - 1
      /\ ring.count \in 0 .. Capacity
      /\ ring.count < Capacity => ring.head = ring.count
      /\ \A k \in Slots : k < ring.count => ring.buffer[k] \in Buckets
  BY RingTypes
<1>2. NewestSlot(ring) = Wrapped(ring.head + Capacity - 1)
  <2>1. ring.head + Capacity - 1 \in 0 .. 2 * Capacity - 1
    BY <1>1
  <2>2. (ring.head + Capacity - 1) % Capacity = Wrapped(ring.head + Capacity - 1)
    BY <2>1, Wraps
  <2>. QED  BY <2>2 DEF NewestSlot
<1>3. NewestSlot(ring) = At(ring, ring.count)
  <2>1. CASE ring.count < Capacity
    BY <1>1, <1>2, <2>1 DEF At, Wrapped
  <2>2. CASE ring.count = Capacity
    <3>1. At(ring, ring.count) = Wrapped(ring.head + Capacity - 1)
      BY <1>1, <2>2 DEF At
    <3>. QED  BY <1>2, <3>1
  <2>. QED  BY <1>1, <2>1, <2>2
<1>. QED  BY <1>1, <1>3, ArrayAt DEF Newest

\* No two positions share a slot.
LEMMA AtInjective ==
  ASSUME NEW ring, RingSound(ring), NEW i \in 1 .. ring.count, NEW j \in 1 .. ring.count, i # j
  PROVE  At(ring, i) # At(ring, j)
<1>1. /\ Capacity \in Nat \ {0}
      /\ ring.head \in 0 .. Capacity - 1
      /\ ring.count \in 0 .. Capacity
  BY RingTypes
<1>. QED  BY <1>1 DEF At, Wrapped

LEMMA NewestAmended ==
  ASSUME NEW ring, RingSound(ring), ring.count > 0, NEW entry \in Buckets,
         NEW amended, amended = [ring EXCEPT !.buffer[NewestSlot(ring)] = entry]
  PROVE  /\ RingSound(amended)
         /\ ToArray(ring) # <<>>
         /\ ToArray(amended) = [ToArray(ring) EXCEPT ![Len(ToArray(ring))] = entry]
<1>1. /\ Capacity \in Nat \ {0}
      /\ ring = [buffer |-> ring.buffer, head |-> ring.head, count |-> ring.count]
      /\ ring.buffer \in [Slots -> Buckets \cup {None}]
      /\ ring.head \in 0 .. Capacity - 1
      /\ ring.count \in 0 .. Capacity
      /\ ring.count < Capacity => ring.head = ring.count
      /\ \A k \in Slots : ring.buffer[k] = None <=> k >= ring.count
  BY RingTypes DEF RingSound
<1>2. NewestSlot(ring) = At(ring, ring.count)
  BY NewestIsLast
<1>3. /\ ToArray(ring) \in Seq(Buckets) /\ Len(ToArray(ring)) = ring.count
      /\ \A i \in 1 .. ring.count : /\ At(ring, i) \in Slots
                                    /\ At(ring, i) < ring.count
                                    /\ ToArray(ring)[i] = ring.buffer[At(ring, i)]
  BY ArrayAt
<1>4. /\ amended.buffer = [ring.buffer EXCEPT ![At(ring, ring.count)] = entry]
      /\ amended.head = ring.head
      /\ amended.count = ring.count
      /\ amended = [buffer |-> amended.buffer, head |-> ring.head, count |-> ring.count]
  BY <1>1, <1>2
<1>5. At(ring, ring.count) \in Slots /\ At(ring, ring.count) < ring.count
  BY <1>1, <1>3
<1>6. RingSound(amended)
  <2>1. amended.buffer \in [Slots -> Buckets \cup {None}]
    BY <1>1, <1>4
  <2>2. amended \in Rings
    BY <1>1, <1>4, <2>1 DEF Rings, Slots
  <2>3. None \notin Buckets
    BY WindowsAreFinite
  <2>4. \A k \in Slots : amended.buffer[k] = None <=> k >= amended.count
    BY <1>1, <1>4, <1>5, <2>3 DEF Slots
  <2>. QED  BY <1>1, <1>4, <2>2, <2>4 DEF RingSound
<1>7. /\ ToArray(amended) \in Seq(Buckets) /\ Len(ToArray(amended)) = ring.count
      /\ \A i \in 1 .. ring.count : ToArray(amended)[i] = amended.buffer[At(ring, i)]
  <2>1. \A i \in 1 .. ring.count : At(amended, i) = At(ring, i)
    BY <1>4 DEF At
  <2>2. /\ ToArray(amended) \in Seq(Buckets) /\ Len(ToArray(amended)) = amended.count
        /\ \A i \in 1 .. amended.count : ToArray(amended)[i] = amended.buffer[At(amended, i)]
    BY <1>6, ArrayAt
  <2>3. amended.count = ring.count
    BY <1>4
  <2>. QED  BY <2>1, <2>2, <2>3, Zenon
<1>. DEFINE expected == [ToArray(ring) EXCEPT ![ring.count] = entry]
<1>8. expected \in Seq(Buckets) /\ Len(expected) = ring.count
  BY <1>1, <1>3, ExceptSeq
<1>9. ASSUME NEW i \in 1 .. ring.count
      PROVE  ToArray(amended)[i] = expected[i]
  <2>1. CASE i = ring.count
    <3>1. expected[i] = entry
      BY <1>3, <2>1
    <3>2. amended.buffer[At(ring, ring.count)] = entry
      BY <1>1, <1>4, <1>5
    <3>3. ToArray(amended)[i] = amended.buffer[At(ring, i)]
      BY <1>7
    <3>. QED  BY <2>1, <3>1, <3>2, <3>3
  <2>2. CASE i # ring.count
    <3>1. At(ring, i) # At(ring, ring.count)
      BY <1>1, <2>2, AtInjective
    <3>2. expected[i] = ToArray(ring)[i]
      BY <1>3, <2>2
    <3>3. amended.buffer[At(ring, i)] = ring.buffer[At(ring, i)]
      BY <1>1, <1>3, <1>4, <3>1
    <3>. QED  BY <1>3, <1>7, <3>2, <3>3
  <2>. QED  BY <2>1, <2>2
<1>. HIDE DEF expected
<1>10. ToArray(amended) = expected
  BY <1>7, <1>8, <1>9, SeqEqual
<1>11. ToArray(ring) # <<>>
  BY <1>1, <1>3
<1>. QED  BY <1>3, <1>6, <1>10, <1>11 DEF expected

\* clear() and a push of each entry give the list back.
LEMMA RefilledHolds ==
  ASSUME NEW list \in Seq(Buckets), Len(list) <= Capacity
  PROVE  RingSound(Refilled(list)) /\ ToArray(Refilled(list)) = list
<1>. DEFINE ring == Refilled(list)
<1>1. Capacity \in Nat \ {0} /\ None \notin Buckets
  BY WindowsAreFinite
<1>2. Len(list) \in Nat /\ \A i \in 1 .. Len(list) : list[i] \in Buckets
  OBVIOUS
<1>3. Len(list) % Capacity = Wrapped(Len(list)) /\ Wrapped(Len(list)) \in Slots
  BY <1>1, <1>2, Wraps
<1>4. /\ ring = [buffer |-> ring.buffer, head |-> ring.head, count |-> ring.count]
      /\ ring.buffer = [k \in Slots |-> IF k < Len(list) THEN list[k + 1] ELSE None]
      /\ ring.head = Wrapped(Len(list))
      /\ ring.count = Len(list)
  BY <1>3 DEF Refilled
<1>. HIDE DEF ring
<1>5. RingSound(ring)
  <2>1. \A k \in Slots : k < Len(list) => list[k + 1] \in Buckets
    BY <1>1, <1>2 DEF Slots
  <2>2. ring.buffer \in [Slots -> Buckets \cup {None}]
    BY <1>4, <2>1
  <2>3. ring.count \in 0 .. Capacity
    BY <1>1, <1>2, <1>4
  <2>4. ring \in Rings
    BY <1>3, <1>4, <2>2, <2>3 DEF Rings
  <2>5. ring.count < Capacity => ring.head = ring.count
    BY <1>4 DEF Wrapped
  <2>6. \A k \in Slots : ring.buffer[k] = None <=> k >= ring.count
    BY <1>1, <1>2, <1>4, <2>1 DEF Slots
  <2>. QED  BY <2>4, <2>5, <2>6 DEF RingSound
<1>6. /\ ToArray(ring) \in Seq(Buckets) /\ Len(ToArray(ring)) = Len(list)
      /\ \A i \in 1 .. Len(list) : ToArray(ring)[i] = ring.buffer[At(ring, i)]
  BY <1>4, <1>5, ArrayAt
<1>7. ASSUME NEW i \in 1 .. Len(list)
      PROVE  ToArray(ring)[i] = list[i]
  <2>1. At(ring, i) = i - 1
    BY <1>1, <1>2, <1>4 DEF At, Wrapped
  <2>2. i - 1 \in Slots /\ i - 1 < Len(list) /\ (i - 1) + 1 = i
    BY <1>1, <1>2 DEF Slots
  <2>. QED  BY <1>4, <1>6, <2>1, <2>2
<1>8. ToArray(ring) = list
  BY <1>6, <1>7, SeqEqual
<1>. QED  BY <1>5, <1>8 DEF ring

LEMMA EmptyHolds == RingSound(EmptyRing) /\ ToArray(EmptyRing) = <<>>
<1>1. Capacity \in Nat \ {0}
  BY WindowsAreFinite
<1>2. RingSound(EmptyRing)
  BY <1>1 DEF RingSound, EmptyRing, Rings, Slots
<1>3. ToArray(EmptyRing) \in Seq(Buckets) /\ Len(ToArray(EmptyRing)) = 0
  BY <1>2, ArrayAt DEF EmptyRing
<1>. QED  BY <1>2, <1>3

-----------------------------------------------------------------------------
(* The handlers. *)

\* Put or Amend, of the queue.
Queued(array, next) ==
  \E b \in Buckets :
    \/ next = Append(IF Len(array) < Capacity THEN array ELSE Tail(array), b)
    \/ array # <<>> /\ next = [array EXCEPT ![Len(array)] = b]

\* Every handler either puts a bucket in or amends the newest one.
LEMMA RecordedQueues ==
  ASSUME NEW ring, RingSound(ring), NEW ts \in Times, NEW starts \in 0 .. 1, NEW bound \in Nat,
         bound < MaxRecords,
         \A i \in 1 .. ring.count : ToArray(ring)[i].runStarts <= bound
  PROVE  LET after == Recorded(ring, ts, starts)
         IN  /\ RingSound(after)
             /\ \A i \in 1 .. after.count : ToArray(after)[i].runStarts <= bound + 1
             /\ Queued(ToArray(ring), ToArray(after))
<1>. DEFINE array == ToArray(ring)
            newest == Newest(ring)
            after == Recorded(ring, ts, starts)
<1>1. /\ Capacity \in Nat \ {0}
      /\ ring = [buffer |-> ring.buffer, head |-> ring.head, count |-> ring.count]
      /\ ring.count \in 0 .. Capacity
      /\ ring.buffer \in [Slots -> Buckets \cup {None}]
  BY RingTypes
<1>2. array \in Seq(Buckets) /\ Len(array) = ring.count
  BY ArrayAt
<1>. HIDE DEF array
<1>3. CASE ring.count > 0 /\ newest.bucketStart = BucketOf(ts)
  <2>. DEFINE amended == [newest EXCEPT !.runStarts = @ + starts]
  <2>1. newest = array[ring.count] /\ newest \in Buckets
    BY <1>3, NewestIsLast DEF array
  <2>2. newest.runStarts <= bound
    BY <1>1, <1>3, <2>1 DEF array
  <2>3. newest.runStarts \in 0 .. MaxRecords /\ newest.bucketStart \in Times
    BY <2>1 DEF Buckets
  <2>4. amended = [bucketStart |-> newest.bucketStart, runStarts |-> newest.runStarts + starts]
    BY <2>1 DEF Buckets
  <2>5. MaxRecords \in Nat
    BY WindowsAreFinite
  <2>6. amended \in Buckets /\ amended.runStarts <= bound + 1
    BY <2>2, <2>3, <2>4, <2>5 DEF Buckets
  <2>7. after = [ring EXCEPT !.buffer[NewestSlot(ring)] = amended]
    BY <1>3 DEF Recorded, Newest
  <2>. HIDE DEF amended, after, newest
  <2>8. /\ RingSound(after)
        /\ array # <<>>
        /\ ToArray(after) = [array EXCEPT ![Len(array)] = amended]
    BY <1>3, <2>6, <2>7, NewestAmended DEF array
  <2>9. after.count = ring.count
    BY <1>1, <2>7
  <2>10. ASSUME NEW i \in 1 .. ring.count
         PROVE  ToArray(after)[i].runStarts <= bound + 1
    <3>1. ToArray(after)[i] = IF i = ring.count THEN amended ELSE array[i]
      BY <1>2, <2>8
    <3>2. array[i].runStarts <= bound /\ array[i] \in Buckets
      BY <1>2 DEF array
    <3>3. array[i].runStarts \in Int
      BY <3>2, <2>5 DEF Buckets
    <3>. QED  BY <2>6, <3>1, <3>2, <3>3
  <2>. QED  BY <2>6, <2>8, <2>9, <2>10 DEF after, array, Queued
<1>4. CASE ~(ring.count > 0 /\ newest.bucketStart = BucketOf(ts))
  <2>. DEFINE fresh == [bucketStart |-> BucketOf(ts), runStarts |-> starts]
  <2>1. /\ MaxRecords \in Nat /\ Interval \in Nat \ {0} /\ MaxTime \in Nat
    BY WindowsAreFinite
  <2>2. BucketOf(ts) \in 0 .. ts
    BY <2>1, BucketInTime DEF BucketOf, Times
  <2>3. fresh \in Buckets /\ fresh.runStarts <= bound + 1
    BY <2>1, <2>2 DEF Buckets, Times
  <2>4. after = Push(ring, fresh)
    BY <1>4 DEF Recorded
  <2>. HIDE DEF fresh, after
  <2>. DEFINE kept == IF Len(array) < Capacity THEN array ELSE Tail(array)
  <2>5. RingSound(after) /\ ToArray(after) = Append(kept, fresh)
    BY <2>3, <2>4, PushPuts DEF array
  <2>6. /\ kept \in Seq(Buckets)
        /\ \A i \in 1 .. Len(kept) : \E j \in 1 .. ring.count : kept[i] = array[j]
    <3>1. CASE Len(array) < Capacity
      BY <1>2, <3>1
    <3>2. CASE Len(array) = Capacity
      <4>1. array # <<>>
        BY <1>1, <1>2, <3>2
      <4>2. /\ Tail(array) \in Seq(Buckets) /\ Len(Tail(array)) = Len(array) - 1
            /\ \A i \in 1 .. Len(Tail(array)) : Tail(array)[i] = array[i + 1]
        BY <1>2, <4>1, HeadTailProperties
      <4>3. \A i \in 1 .. Len(Tail(array)) : i + 1 \in 1 .. ring.count
        BY <1>1, <1>2, <4>2
      <4>. QED  BY <3>2, <4>2, <4>3, <1>1
    <3>3. Len(array) < Capacity \/ Len(array) = Capacity
      BY <1>1, <1>2
    <3>. QED  BY <3>1, <3>2, <3>3
  <2>. HIDE DEF kept
  <2>7. after.count = Len(kept) + 1
    <3>1. Len(ToArray(after)) = after.count
      BY <2>5, ArrayAt
    <3>. QED  BY <2>5, <2>6, <3>1
  <2>8. ASSUME NEW i \in 1 .. after.count
        PROVE  ToArray(after)[i].runStarts <= bound + 1
    <3>1. CASE i = Len(kept) + 1
      BY <2>3, <2>5, <2>6, <3>1
    <3>2. CASE i \in 1 .. Len(kept)
      <4>1. PICK j \in 1 .. ring.count : kept[i] = array[j]
        BY <2>6, <3>2
      <4>2. array[j].runStarts <= bound /\ array[j] \in Buckets
        BY <1>2 DEF array
      <4>3. array[j].runStarts \in Int
        BY <4>2, <2>1 DEF Buckets
      <4>4. ToArray(after)[i] = array[j]
        BY <2>5, <2>6, <3>2, <4>1
      <4>. QED  BY <4>2, <4>3, <4>4
    <3>. QED  BY <2>6, <2>7, <3>1, <3>2
  <2>. QED  BY <2>3, <2>5, <2>8 DEF after, array, kept, Queued
<1>. QED  BY <1>3, <1>4

LEMMA PrunedTyped ==
  ASSUME NEW list \in Seq(Times), NEW cutoff \in Int
  PROVE  Pruned(list, cutoff) \in Seq(Times)
<1>. DEFINE old == {k \in 1 .. Len(list) : \A j \in 1 .. k : list[j] < cutoff}
<1>1. IsFiniteSet(old)
  <2>1. IsFiniteSet(1 .. Len(list))
    BY FS_Interval
  <2>. QED  BY <2>1, FS_Subset
<1>2. Cardinality(old) \in Nat
  BY <1>1, FS_CardinalityType
<1>3. Pruned(list, cutoff) = SubSeq(list, Cardinality(old) + 1, Len(list))
  BY DEF Pruned
<1>. HIDE DEF old
<1>4. CASE Cardinality(old) + 1 > Len(list)
  BY <1>2, <1>3, <1>4, SubSeqEmpty
<1>5. CASE Cardinality(old) + 1 <= Len(list)
  BY <1>2, <1>3, <1>5, SubSeqProperties
<1>. QED  BY <1>2, <1>4, <1>5

-----------------------------------------------------------------------------
LEMMA InitSound == Init => TypeOK
<1>. SUFFICES ASSUME Init PROVE TypeOK
  OBVIOUS
<1>. USE DEF Init
<1>1. RingSound(buckets)
  BY EmptyHolds
<1>2. runStarts \in Seq(Times) /\ history \in Seq(Records) /\ Len(history) <= MaxRecords
  BY WindowsAreFinite
<1>3. latest \in Times /\ inOrder \in BOOLEAN
  BY WindowsAreFinite DEF Times
<1>4. CountsBounded
  BY DEF CountsBounded, EmptyRing
<1>. QED  BY <1>1, <1>2, <1>3, <1>4 DEF TypeOK

\* What a step that records something does to the ring and to the types.
LEMMA RecordingSound ==
  ASSUME TypeOK, NEW ts \in Times, NEW starts \in 0 .. 1,
         buckets' = Recorded(buckets, ts, starts),
         runStarts' \in Seq(Times),
         Arrived(ts, starts),
         UNCHANGED saved
  PROVE  TypeOK' /\ \E b \in Buckets : Queue!Put(b) \/ Queue!Amend(b)
<1>1. /\ RingSound(buckets)
      /\ history \in Seq(Records) /\ Len(history) < MaxRecords
      /\ latest \in Times
      /\ CountsBounded
  BY DEF TypeOK, Arrived
<1>2. Len(history) \in Nat /\ Len(history') = Len(history) + 1
  BY <1>1 DEF Arrived
<1>. DEFINE after == Recorded(buckets, ts, starts)
<1>0. /\ RingSound(after)
      /\ \A k \in 1 .. after.count : ToArray(after)[k].runStarts <= Len(history) + 1
      /\ Queued(ToArray(buckets), ToArray(after))
  <2>1. \A i \in 1 .. buckets.count : ToArray(buckets)[i].runStarts <= Len(history)
    BY <1>1 DEF CountsBounded
  <2>2. Len(history) < MaxRecords
    BY <1>1
  <2>. QED  BY <1>1, <1>2, <2>1, <2>2, RecordedQueues
<1>. HIDE DEF after
<1>3. /\ RingSound(buckets')
      /\ \A k \in 1 .. buckets'.count : ToArray(buckets')[k].runStarts <= Len(history')
      /\ Queued(ToArray(buckets), ToArray(buckets'))
  BY <1>0, <1>2 DEF after
<1>4. [at |-> ts, starts |-> starts] \in Records
  BY DEF Records
<1>5. history' \in Seq(Records) /\ Len(history') <= MaxRecords
  BY <1>1, <1>2, <1>4, WindowsAreFinite DEF Arrived
<1>6. latest' \in Times /\ inOrder' \in BOOLEAN
  BY <1>1 DEF Arrived
<1>7. CountsBounded'
  BY <1>1, <1>3 DEF CountsBounded
<1>8. TypeOK'
  BY <1>3, <1>5, <1>6, <1>7 DEF TypeOK
<1>9. \E b \in Buckets : Queue!Put(b) \/ Queue!Amend(b)
  BY <1>3 DEF Queued, Queue!Put, Queue!Amend
<1>. QED  BY <1>8, <1>9

\* One step: the types are kept, and the queue takes a step or stutters.
LEMMA StepSound ==
  ASSUME TypeOK, [Next]_vars
  PROVE  TypeOK' /\ [Queue!QNext]_(Queue!queueVars)
<1>. USE DEF Queue!queueVars
<1>1. ASSUME NEW ts \in Times, RecordRunStart(ts)
      PROVE  TypeOK' /\ Queue!QNext
  <2>1. Append(runStarts, ts) \in Seq(Times)
    BY DEF TypeOK
  <2>2. ts - RecentWindow \in Int
    BY WindowsAreFinite DEF Times
  <2>3. runStarts' \in Seq(Times)
    BY <1>1, <2>1, <2>2, PrunedTyped DEF RecordRunStart
  <2>4. /\ buckets' = Recorded(buckets, ts, 1)
        /\ Arrived(ts, 1)
        /\ UNCHANGED saved
        /\ 1 \in 0 .. 1
    BY <1>1 DEF RecordRunStart
  <2>5. TypeOK' /\ \E b \in Buckets : Queue!Put(b) \/ Queue!Amend(b)
    BY <2>3, <2>4, RecordingSound
  <2>. QED  BY <2>5 DEF Queue!QNext
<1>2. ASSUME NEW ts \in Times, RecordOther(ts)
      PROVE  TypeOK' /\ Queue!QNext
  <2>1. /\ buckets' = Recorded(buckets, ts, 0)
        /\ Arrived(ts, 0)
        /\ runStarts' \in Seq(Times)
        /\ UNCHANGED saved
        /\ 0 \in 0 .. 1
    BY <1>2 DEF RecordOther, TypeOK
  <2>2. TypeOK' /\ \E b \in Buckets : Queue!Put(b) \/ Queue!Amend(b)
    BY <2>1, RecordingSound
  <2>. QED  BY <2>2 DEF Queue!QNext
<1>3. ASSUME Persist
      PROVE  TypeOK' /\ Queue!QNext
  <2>1. /\ ToArray(buckets) \in Seq(Buckets)
        /\ Len(ToArray(buckets)) = buckets.count
        /\ buckets.count <= Capacity
    BY ArrayAt, RingTypes DEF TypeOK
  <2>2. saved' \in Compacts
    BY <1>3, <2>1 DEF Persist, TypeOK, Compacts
  <2>3. saved' # None => /\ Len(saved'.buckets) <= Capacity
                         /\ Len(saved'.history) <= MaxRecords
    BY <1>3, <2>1 DEF Persist, TypeOK
  <2>4. CountsBounded'
    BY <1>3, <2>1 DEF Persist, TypeOK, CountsBounded, runtime
  <2>5. TypeOK'
    BY <1>3, <2>2, <2>3, <2>4 DEF Persist, TypeOK, runtime
  <2>6. saved' # None
    BY <2>2, WindowsAreFinite
  <2>7. Queue!Store
    BY <1>3, <2>6 DEF Persist, Queue!Store, runtime
  <2>. QED  BY <2>5, <2>7 DEF Queue!QNext
<1>4. ASSUME Restore
      PROVE  TypeOK' /\ Queue!QNext
  <2>1. saved # None /\ saved \in Compacts /\ Len(saved.buckets) <= Capacity
    BY <1>4 DEF Restore, TypeOK
  <2>2. saved.buckets \in Seq(Buckets)
    BY <2>1 DEF Compacts
  <2>3. RingSound(buckets') /\ ToArray(buckets') = saved.buckets
    BY <1>4, <2>1, <2>2, RefilledHolds DEF Restore
  <2>4. buckets'.count = Len(saved.buckets)
    BY <1>4 DEF Restore, Refilled
  <2>5. CountsBounded'
    BY <1>4, <2>1, <2>3, <2>4 DEF Restore, TypeOK, CountsBounded
  <2>6. TypeOK'
    BY <1>4, <2>1, <2>3, <2>5 DEF Restore, TypeOK, Compacts
  <2>7. Queue!Recall
    BY <1>4, <2>1, <2>3 DEF Restore, Queue!Recall
  <2>. QED  BY <2>6, <2>7 DEF Queue!QNext
<1>5. ASSUME RestartEmpty
      PROVE  TypeOK' /\ Queue!QNext
  <2>1. RingSound(buckets') /\ ToArray(buckets') = <<>>
    BY <1>5, EmptyHolds DEF RestartEmpty
  <2>2. CountsBounded'
    BY <1>5 DEF RestartEmpty, CountsBounded, EmptyRing
  <2>3. runStarts' \in Seq(Times) /\ history' \in Seq(Records) /\ Len(history') <= MaxRecords
    BY <1>5, WindowsAreFinite DEF RestartEmpty
  <2>4. latest' \in Times /\ inOrder' \in BOOLEAN
    BY <1>5, WindowsAreFinite DEF RestartEmpty, Times
  <2>5. TypeOK'
    BY <1>5, <2>1, <2>2, <2>3, <2>4 DEF RestartEmpty, TypeOK
  <2>6. Queue!Recall
    BY <1>5, <2>1 DEF RestartEmpty, Queue!Recall
  <2>. QED  BY <2>5, <2>6 DEF Queue!QNext
<1>6. CASE UNCHANGED vars
  <2>1. TypeOK'
    BY <1>6 DEF vars, TypeOK, CountsBounded
  <2>2. UNCHANGED Queue!queueVars
    BY <1>6 DEF vars
  <2>. QED  BY <2>1, <2>2
<1>. QED  BY <1>1, <1>2, <1>3, <1>4, <1>5, <1>6 DEF Next

(* The ring stays well formed, whatever is recorded, exported and restored. *)
THEOREM WindowsTypeCorrect == Spec => []TypeOK
<1>1. TypeOK /\ [Next]_vars => TypeOK'
  BY StepSound
<1>. QED  BY InitSound, <1>1, PTL DEF Spec

(* The ring of buckets of every agent is a bounded queue with a stored      *)
(* copy: for every capacity, and also where the ring has wrapped around.    *)
THEOREM WindowsImplementQueue == Spec => QueueSpec
<1>1. Init => Queue!QInit
  BY EmptyHolds DEF Init, Queue!QInit
<1>2. TypeOK /\ [Next]_vars => [Queue!QNext]_(Queue!queueVars)
  BY StepSound
<1>. QED  BY WindowsTypeCorrect, <1>1, <1>2, PTL DEF Spec, QueueSpec, Queue!QSpec

-----------------------------------------------------------------------------
(* The recent timestamps. *)

PrunedAt(list, cutoff, e) ==
  /\ e \in 0 .. Len(list)
  /\ Pruned(list, cutoff) = SubSeq(list, e + 1, Len(list))
  /\ \A j \in 1 .. e : list[j] < cutoff
  /\ e < Len(list) => list[e + 1] >= cutoff

\* What is pruned is the longest run of old entries at the front.
LEMMA PrunedFront ==
  ASSUME NEW list \in Seq(Times), NEW cutoff \in Int
  PROVE  \E e : PrunedAt(list, cutoff, e)
<1>. DEFINE n == Len(list)
<1>0. n \in Nat
  BY LenProperties
<1>1. \A k \in 1 .. n : list[k] \in Int
  BY ElementOfSeq, WindowsAreFinite DEF Times
<1>. DEFINE stops == {k \in 1 .. n + 1 : k = n + 1 \/ list[k] >= cutoff}
            old == {k \in 1 .. n : \A j \in 1 .. k : list[j] < cutoff}
<1>2. PICK m \in stops : \A k \in stops : m <= k
  <2>1. stops \subseteq Nat /\ n + 1 \in stops
    BY <1>0
  <2>. HIDE DEF stops
  <2>. QED  BY <2>1, LeastElement
<1>3. m \in 1 .. n + 1 /\ (m <= n => list[m] >= cutoff)
  BY <1>0
<1>4. ASSUME NEW j \in 1 .. m - 1
      PROVE  j \in 1 .. n /\ list[j] < cutoff
  <2>1. j \in 1 .. n /\ j \notin stops
    BY <1>2, <1>3, <1>0
  <2>. QED  BY <1>1, <2>1
<1>5. old = 1 .. m - 1
  <2>1. ASSUME NEW k \in old
        PROVE  k \in 1 .. m - 1
    <3>1. k \in 1 .. n /\ \A j \in 1 .. k : list[j] < cutoff
      OBVIOUS
    <3>2. CASE k < m
      BY <1>3, <3>1, <3>2
    <3>3. CASE m <= k
      <4>1. m \in 1 .. k /\ m \in 1 .. n
        BY <1>3, <3>1, <3>3
      <4>. QED  BY <1>1, <1>3, <3>1, <4>1
    <3>. QED  BY <1>3, <3>1, <3>2, <3>3
  <2>2. ASSUME NEW k \in 1 .. m - 1
        PROVE  k \in old
    <3>1. k \in 1 .. n
      BY <1>4
    <3>2. ASSUME NEW j \in 1 .. k PROVE list[j] < cutoff
      BY <1>3, <1>4
    <3>. QED  BY <3>1, <3>2
  <2>. HIDE DEF old
  <2>. QED  BY <2>1, <2>2
<1>6. Cardinality(old) = m - 1
  <2>1. PICK c \in Nat : c = m - 1
    BY <1>3
  <2>2. Cardinality(1 .. c) = IF 1 > c THEN 0 ELSE c - 1 + 1
    BY FS_Interval
  <2>. HIDE DEF old
  <2>3. Cardinality(1 .. c) = c
    BY <2>1, <2>2
  <2>. QED  BY <1>5, <2>1, <2>3
<1>7. Pruned(list, cutoff) = SubSeq(list, m, n)
  <2>1. Pruned(list, cutoff) = SubSeq(list, Cardinality(old) + 1, n)
    BY Zenon DEF Pruned
  <2>. HIDE DEF old, n
  <2>2. Cardinality(old) + 1 = m
    BY <1>0, <1>3, <1>6
  <2>. QED  BY <2>1, <2>2
<1>. HIDE DEF stops, old
<1>8. PICK e \in 0 .. n : e = m - 1 /\ e + 1 = m
  <2>. HIDE DEF n
  <2>1. m - 1 \in 0 .. n /\ (m - 1) + 1 = m
    BY <1>0, <1>3
  <2>. QED  BY <2>1
<1>9. /\ Pruned(list, cutoff) = SubSeq(list, e + 1, n)
      /\ \A j \in 1 .. e : list[j] < cutoff
      /\ e < n => list[e + 1] >= cutoff
  <2>. HIDE DEF n
  <2>1. e < n => m <= n
    BY <1>0, <1>8
  <2>. QED  BY <1>3, <1>4, <1>7, <1>8, <2>1
<1>. QED  BY <1>8, <1>9 DEF PrunedAt

\* What is selected from a sequence whose tail is in the set, and no more, is that tail.
LEMMA SelectedTail ==
  ASSUME NEW T, NEW s \in Seq(T), NEW S, NEW d \in 0 .. Len(s),
         \A i \in 1 .. d : s[i] \notin S, \A i \in d + 1 .. Len(s) : s[i] \in S
  PROVE  Selected(s, S) = SubSeq(s, d + 1, Len(s))
<1>0. PICK n \in Nat : n = Len(s)
  BY LenProperties
<1>1. PICK f : Selects(f, s, S) /\ Selected(s, S) = f[n]
  BY <1>0, SelectedUnrolls
<1>2. /\ f \in [0 .. n -> Seq(S)] /\ f[0] = <<>>
      /\ \A k \in 1 .. n : f[k] = IF s[k] \in S THEN Append(f[k - 1], s[k]) ELSE f[k - 1]
  BY <1>0, <1>1 DEF Selects
<1>3. d \in 0 .. n
  BY <1>0
<1>. DEFINE reached(k) == IF k <= d THEN 0 ELSE k - d
            P == {k \in 0 .. n : /\ Len(f[k]) = reached(k)
                                 /\ \A i \in 1 .. reached(k) : f[k][i] = s[d + i]}
<1>4. 0 \in P
  BY <1>2, <1>3
<1>5. ASSUME NEW k \in 0 .. n - 1, k \in P
      PROVE  k + 1 \in P
  <2>1. k + 1 \in 1 .. n /\ k \in 0 .. n /\ (k + 1) - 1 = k
    OBVIOUS
  <2>2. f[k + 1] = IF s[k + 1] \in S THEN Append(f[k], s[k + 1]) ELSE f[k]
    BY <1>2, <2>1
  <2>3. f[k] \in Seq(S) /\ Len(f[k]) = reached(k) /\ \A i \in 1 .. reached(k) : f[k][i] = s[d + i]
    BY <1>2, <1>5, <2>1
  <2>4. CASE k + 1 <= d
    <3>1. s[k + 1] \notin S /\ reached(k + 1) = 0 /\ reached(k) = 0
      BY <1>3, <2>1, <2>4
    <3>2. f[k + 1] = f[k]
      BY <2>2, <3>1
    <3>. QED  BY <2>1, <2>3, <3>1, <3>2
  <2>5. CASE ~ (k + 1 <= d)
    <3>1. s[k + 1] \in S /\ reached(k) = k - d /\ k - d \in Nat /\ reached(k + 1) = (k - d) + 1
      BY <1>0, <1>3, <2>1, <2>5
    <3>2. f[k + 1] = Append(f[k], s[k + 1])
      BY <2>2, <3>1
    <3>3. /\ Len(f[k + 1]) = (k - d) + 1
          /\ \A i \in 1 .. k - d : f[k + 1][i] = s[d + i]
          /\ f[k + 1][(k - d) + 1] = s[k + 1]
      <4>1. PICK u \in Seq(S), e \in S : u = f[k] /\ e = s[k + 1]
        BY <2>3, <3>1
      <4>2. Len(u) = k - d /\ \A i \in 1 .. k - d : u[i] = s[d + i]
        BY <2>3, <3>1, <4>1
      <4>3. f[k + 1] = Append(u, e)
        BY <3>2, <4>1
      <4>4. /\ Len(Append(u, e)) = Len(u) + 1
            /\ \A i \in 1 .. Len(u) : Append(u, e)[i] = u[i]
            /\ Append(u, e)[Len(u) + 1] = e
        BY AppendProperties
      <4>. QED  BY <4>1, <4>2, <4>3, <4>4
    <3>4. ASSUME NEW i \in 1 .. (k - d) + 1 PROVE f[k + 1][i] = s[d + i]
      <4>1. CASE i \in 1 .. k - d
        BY <3>3, <4>1
      <4>2. CASE i = (k - d) + 1
        <5>1. d + i = k + 1
          BY <1>3, <4>2
        <5>. QED  BY <3>3, <4>2, <5>1
      <4>. QED  BY <3>1, <4>1, <4>2
    <3>. QED  BY <2>1, <3>1, <3>3, <3>4
  <2>. QED  BY <2>4, <2>5
<1>6. n \in P
  <2>. HIDE DEF P
  <2>1. \A k \in 0 .. n : k \in P
    BY <1>4, <1>5, Induction
  <2>. QED  BY <2>1
<1>7. f[n] \in Seq(S) /\ Len(f[n]) = n - d /\ \A i \in 1 .. n - d : f[n][i] = s[d + i]
  BY <1>2, <1>3, <1>6
<1>. HIDE DEF P
<1>8. /\ SubSeq(s, d + 1, n) \in Seq(S)
      /\ Len(SubSeq(s, d + 1, n)) = n - d
      /\ \A i \in 1 .. n - d : SubSeq(s, d + 1, n)[i] = s[d + i]
  <2>1. PICK from \in 1 .. n + 1 : from = d + 1
    BY <1>3
  <2>2. \A i \in from .. n : s[i] \in S
    BY <1>0, <2>1
  <2>3. /\ SubSeq(s, from, n) \in Seq(S)
        /\ Len(SubSeq(s, from, n)) = IF from <= n THEN n - from + 1 ELSE 0
        /\ \A i \in 1 .. n - from + 1 : SubSeq(s, from, n)[i] = s[from + i - 1]
    BY <2>1, <2>2, SubSeqProperties
  <2>4. n - from + 1 = n - d /\ (~(from <= n) => n - d = 0)
    BY <1>3, <2>1
  <2>5. \A i \in 1 .. n - d : from + i - 1 = d + i
    BY <2>1
  <2>. QED  BY <2>1, <2>3, <2>4, <2>5
<1>9. f[n] = SubSeq(s, d + 1, n)
  BY <1>7, <1>8, SeqEqual
<1>. QED  BY <1>0, <1>1, <1>9

\* One more element of the sequence.
LEMMA SelectedGrows ==
  ASSUME NEW T, NEW s \in Seq(T), NEW e \in T, NEW S
  PROVE  Selected(Append(s, e), S) = IF e \in S THEN Append(Selected(s, S), e) ELSE Selected(s, S)
<1>0. PICK n \in Nat : n = Len(s)
  BY LenProperties
<1>1. PICK longer : longer = Append(s, e)
  OBVIOUS
<1>2. /\ longer \in Seq(T) /\ Len(longer) = n + 1 /\ longer[n + 1] = e
      /\ \A i \in 1 .. n : longer[i] = s[i]
  BY <1>0, <1>1, AppendProperties
<1>3. PICK f : Selects(f, s, S) /\ Selected(s, S) = f[n]
  BY <1>0, SelectedUnrolls
<1>4. PICK g : Selects(g, longer, S) /\ Selected(longer, S) = g[n + 1]
  BY <1>2, SelectedUnrolls
<1>5. /\ f[0] = <<>>
      /\ \A k \in 1 .. n : f[k] = IF s[k] \in S THEN Append(f[k - 1], s[k]) ELSE f[k - 1]
  BY <1>0, <1>3 DEF Selects
<1>6. /\ g[0] = <<>>
      /\ \A k \in 1 .. n + 1 : g[k] = IF longer[k] \in S THEN Append(g[k - 1], longer[k]) ELSE g[k - 1]
  BY <1>2, <1>4 DEF Selects
<1>. DEFINE P == {k \in 0 .. n : f[k] = g[k]}
<1>7. 0 \in P
  BY <1>5, <1>6
<1>8. ASSUME NEW k \in 0 .. n - 1, k \in P
      PROVE  k + 1 \in P
  <2>1. k + 1 \in 1 .. n /\ k + 1 \in 1 .. n + 1 /\ (k + 1) - 1 = k
    OBVIOUS
  <2>2. /\ f[k + 1] = IF s[k + 1] \in S THEN Append(f[k], s[k + 1]) ELSE f[k]
        /\ g[k + 1] = IF longer[k + 1] \in S THEN Append(g[k], longer[k + 1]) ELSE g[k]
    BY <1>5, <1>6, <2>1
  <2>3. longer[k + 1] = s[k + 1] /\ f[k] = g[k]
    BY <1>2, <1>8, <2>1
  <2>. QED  BY <2>1, <2>2, <2>3
<1>9. f[n] = g[n]
  <2>. HIDE DEF P
  <2>1. \A k \in 0 .. n : k \in P
    BY <1>7, <1>8, Induction
  <2>. QED  BY <2>1 DEF P
<1>10. g[n + 1] = IF e \in S THEN Append(g[n], e) ELSE g[n]
  <2>1. n + 1 \in 1 .. n + 1 /\ (n + 1) - 1 = n
    OBVIOUS
  <2>. QED  BY <1>2, <1>6, <2>1
<1>. QED  BY <1>1, <1>3, <1>4, <1>9, <1>10

\* One more record at the end.
Noted(past, ts, starts) == Append(past, [at |-> ts, starts |-> starts])

\* The records of run starts.
Started == {record \in Records : record.starts = 1}

\* StartTimes, of any history.
StartTimesOf(past) ==
  LET only == Selected(past, Started)
  IN  [k \in 1 .. Len(only) |-> only[k].at]

\* The recent timestamps are the end of the start times, cut where they get old.
RecentOf(recent, times) ==
  \E d \in 0 .. Len(times) :
    /\ recent = SubSeq(times, d + 1, Len(times))
    /\ \A i \in 1 .. d : times[i] < times[Len(times)] - RecentWindow
    /\ \A i \in d + 1 .. Len(times) : times[i] >= times[Len(times)] - RecentWindow

Rising(times, top) ==
  /\ \A i, j \in 1 .. Len(times) : i <= j => times[i] <= times[j]
  /\ \A i \in 1 .. Len(times) : times[i] <= top

LEMMA StartTimesType ==
  ASSUME NEW past \in Seq(Records)
  PROVE  StartTimesOf(past) \in Seq(Times)
<1>0. Len(past) \in Nat
  BY LenProperties
<1>1. PICK only \in Seq(Started) : only = Selected(past, Started)
  BY <1>0, SelectedType
<1>2. Len(only) \in Nat /\ \A k \in 1 .. Len(only) : only[k] \in Records
  BY LenProperties, ElementOfSeq DEF Started
<1>3. \A k \in 1 .. Len(only) : only[k].at \in Times
  BY <1>2 DEF Records
<1>4. StartTimesOf(past) = [k \in 1 .. Len(only) |-> only[k].at]
  BY <1>1 DEF StartTimesOf
<1>. QED  BY <1>2, <1>3, <1>4, IsASeq

LEMMA StartTimesGrow ==
  ASSUME NEW past \in Seq(Records), NEW ts \in Times, NEW starts \in 0 .. 1,
         NEW longer, longer = Noted(past, ts, starts)
  PROVE  StartTimesOf(longer) =
           IF starts = 1 THEN Append(StartTimesOf(past), ts) ELSE StartTimesOf(past)
<1>. DEFINE record == [at |-> ts, starts |-> starts]
<1>1. record \in Records /\ record.at = ts /\ (record \in Started <=> starts = 1)
  BY DEF Records, Started
<1>. HIDE DEF record
<1>2. Selected(longer, Started) =
        IF record \in Started THEN Append(Selected(past, Started), record) ELSE Selected(past, Started)
  BY <1>1, SelectedGrows DEF record, Noted
<1>3. CASE starts # 1
  BY <1>1, <1>2, <1>3 DEF StartTimesOf
<1>4. CASE starts = 1
  <2>0. Len(past) \in Nat
    BY LenProperties
  <2>1. PICK only \in Seq(Started) : only = Selected(past, Started)
    BY <2>0, SelectedType
  <2>2. PICK n \in Nat : n = Len(only)
    BY LenProperties
  <2>3. PICK more : more = Append(only, record)
    OBVIOUS
  <2>4. /\ Len(more) = n + 1 /\ more[n + 1] = record
        /\ \A k \in 1 .. n : more[k] = only[k]
    BY <1>1, <1>4, <2>2, <2>3, AppendProperties
  <2>5. StartTimesOf(longer) = [k \in 1 .. n + 1 |-> more[k].at]
    BY <1>1, <1>2, <1>4, <2>1, <2>3, <2>4 DEF StartTimesOf
  <2>6. StartTimesOf(past) = [k \in 1 .. n |-> only[k].at]
    BY <2>1, <2>2 DEF StartTimesOf
  <2>7. PICK times \in Seq(Times) : times = StartTimesOf(past)
    BY StartTimesType
  <2>8. Len(times) = n /\ \A k \in 1 .. n : times[k] = only[k].at
    BY <2>6, <2>7, LenProperties
  <2>9. /\ Append(times, ts) \in Seq(Times) /\ Len(Append(times, ts)) = n + 1
        /\ \A k \in 1 .. n : Append(times, ts)[k] = times[k]
        /\ Append(times, ts)[n + 1] = ts
    BY <2>8, AppendProperties
  <2>10. ASSUME NEW k \in 1 .. n + 1
         PROVE  Append(times, ts)[k] = more[k].at
    <3>1. CASE k = n + 1
      BY <1>1, <2>4, <2>9, <3>1
    <3>2. CASE k # n + 1
      <4>1. k \in 1 .. n
        BY <3>2
      <4>. QED  BY <2>4, <2>8, <2>9, <4>1
    <3>. QED  BY <3>1, <3>2
  <2>11. Append(times, ts) = [k \in 1 .. n + 1 |-> Append(times, ts)[k]]
    BY <2>9, LenProperties
  <2>12. Append(times, ts) = [k \in 1 .. n + 1 |-> more[k].at]
    BY <2>10, <2>11
  <2>. QED  BY <1>4, <2>5, <2>7, <2>12
<1>. QED  BY <1>3, <1>4

LEMMA NoStartTimes == StartTimesOf(<<>>) = <<>>
<1>1. PICK f : Selects(f, <<>>, Started) /\ Selected(<<>>, Started) = f[0]
  BY SelectedUnrolls
<1>2. Selected(<<>>, Started) = <<>>
  BY <1>1 DEF Selects
<1>. QED  BY <1>2 DEF StartTimesOf

\* One more run start, no earlier than the others.
LEMMA RecentGrows ==
  ASSUME NEW times \in Seq(Times), NEW recent, RecentOf(recent, times),
         NEW top \in Times, Rising(times, top), NEW ts \in Times, ts >= top
  PROVE  /\ RecentOf(Pruned(Append(recent, ts), ts - RecentWindow), Append(times, ts))
         /\ Rising(Append(times, ts), ts)
<1>0. PICK n \in Nat : n = Len(times)
  BY LenProperties
<1>1. \A i \in 1 .. n : times[i] \in Nat
  BY <1>0, ElementOfSeq, WindowsAreFinite DEF Times
<1>2. top \in Nat /\ ts \in Nat /\ RecentWindow \in Nat
  BY WindowsAreFinite DEF Times
<1>3. PICK more \in Seq(Times) :
        /\ more = Append(times, ts) /\ Len(more) = n + 1 /\ more[n + 1] = ts
        /\ \A i \in 1 .. n : more[i] = times[i]
  <2>1. /\ Append(times, ts) \in Seq(Times) /\ Len(Append(times, ts)) = Len(times) + 1
        /\ \A i \in 1 .. Len(times) : Append(times, ts)[i] = times[i]
        /\ Append(times, ts)[Len(times) + 1] = ts
    BY AppendProperties
  <2>. QED  BY <1>0, <2>1
<1>4. \A i \in 1 .. n + 1 : more[i] \in Nat /\ more[i] <= ts
  <2>1. \A i \in 1 .. n : more[i] \in Nat /\ more[i] <= ts
    BY <1>0, <1>1, <1>2, <1>3 DEF Rising
  <2>. QED  BY <1>2, <1>3, <2>1
<1>5. \A i, j \in 1 .. n + 1 : i <= j => more[i] <= more[j]
  <2>1. ASSUME NEW i \in 1 .. n + 1, NEW j \in 1 .. n + 1, i <= j
        PROVE  more[i] <= more[j]
    <3>1. CASE j = n + 1
      BY <1>3, <1>4, <3>1
    <3>2. CASE j # n + 1
      <4>1. i \in 1 .. n /\ j \in 1 .. n
        BY <2>1, <3>2
      <4>. QED  BY <1>0, <1>3, <2>1, <4>1 DEF Rising
    <3>. QED  BY <3>1, <3>2
  <2>. QED  BY <2>1
<1>6. Rising(more, ts)
  BY <1>3, <1>4, <1>5 DEF Rising
<1>7. PICK d \in 0 .. n :
        /\ recent = SubSeq(times, d + 1, n)
        /\ \A i \in 1 .. d : times[i] < times[n] - RecentWindow
  BY <1>0 DEF RecentOf
<1>8. PICK list \in Seq(Times) :
        /\ list = Append(recent, ts) /\ Len(list) = (n - d) + 1
        /\ \A i \in 1 .. (n - d) + 1 : list[i] = more[d + i]
  <2>1. PICK from \in 1 .. n + 1 : from = d + 1
    OBVIOUS
  <2>2. \A i \in from .. n : times[i] \in Times
    BY <1>0, <2>1, ElementOfSeq
  <2>3. /\ SubSeq(times, from, n) \in Seq(Times)
        /\ Len(SubSeq(times, from, n)) = IF from <= n THEN n - from + 1 ELSE 0
        /\ \A i \in 1 .. n - from + 1 : SubSeq(times, from, n)[i] = times[from + i - 1]
    BY <2>1, <2>2, SubSeqProperties
  <2>4. n - from + 1 = n - d /\ (~(from <= n) => n - d = 0) /\ \A i \in 1 .. n - d : from + i - 1 = d + i
    BY <2>1
  <2>5. recent \in Seq(Times) /\ Len(recent) = n - d /\ \A i \in 1 .. n - d : recent[i] = times[d + i]
    BY <1>7, <2>1, <2>3, <2>4
  <2>6. /\ Append(recent, ts) \in Seq(Times) /\ Len(Append(recent, ts)) = (n - d) + 1
        /\ Append(recent, ts)[(n - d) + 1] = ts
        /\ \A i \in 1 .. n - d : Append(recent, ts)[i] = recent[i]
    BY <2>5, AppendProperties
  <2>7. ASSUME NEW i \in 1 .. (n - d) + 1
        PROVE  Append(recent, ts)[i] = more[d + i]
    <3>1. CASE i = (n - d) + 1
      <4>1. d + i = n + 1
        BY <3>1
      <4>. QED  BY <1>3, <2>6, <3>1, <4>1
    <3>2. CASE i # (n - d) + 1
      <4>1. i \in 1 .. n - d /\ d + i \in 1 .. n
        BY <3>2
      <4>. QED  BY <1>3, <2>5, <2>6, <4>1
    <3>. QED  BY <3>1, <3>2
  <2>. QED  BY <2>6, <2>7
<1>9. PICK e \in 0 .. (n - d) + 1 :
        /\ Pruned(list, ts - RecentWindow) = SubSeq(list, e + 1, (n - d) + 1)
        /\ \A j \in 1 .. e : list[j] < ts - RecentWindow
        /\ e < (n - d) + 1 => list[e + 1] >= ts - RecentWindow
  <2>1. ts - RecentWindow \in Int
    BY <1>2
  <2>2. PICK e : PrunedAt(list, ts - RecentWindow, e)
    BY <2>1, PrunedFront
  <2>3. e \in 0 .. (n - d) + 1
    BY <1>8, <2>2 DEF PrunedAt
  <2>. QED  BY <1>8, <2>2, <2>3 DEF PrunedAt
<1>10. PICK c \in 0 .. n + 1 : c = d + e
  OBVIOUS
<1>11. SubSeq(list, e + 1, (n - d) + 1) = SubSeq(more, c + 1, n + 1)
  <2>1. PICK p \in 1 .. (n - d) + 2, q \in 1 .. n + 2 : p = e + 1 /\ q = c + 1 /\ q = d + p
    BY <1>10
  <2>2. PICK m \in Nat : m = (n - d) + 1 /\ n + 1 = d + m
    OBVIOUS
  <2>3. (\A i \in p .. m : list[i] \in Times) /\ \A i \in q .. n + 1 : more[i] \in Times
    BY <1>3, <1>8, <2>1, <2>2, ElementOfSeq
  <2>4. /\ SubSeq(list, p, m) \in Seq(Times)
        /\ Len(SubSeq(list, p, m)) = IF p <= m THEN m - p + 1 ELSE 0
        /\ \A i \in 1 .. m - p + 1 : SubSeq(list, p, m)[i] = list[p + i - 1]
    BY <2>1, <2>2, <2>3, SubSeqProperties
  <2>5. /\ SubSeq(more, q, n + 1) \in Seq(Times)
        /\ Len(SubSeq(more, q, n + 1)) = IF q <= n + 1 THEN (n + 1) - q + 1 ELSE 0
        /\ \A i \in 1 .. (n + 1) - q + 1 : SubSeq(more, q, n + 1)[i] = more[q + i - 1]
    <3>1. PICK last \in Nat : last = n + 1
      OBVIOUS
    <3>2. \A i \in q .. last : more[i] \in Times
      BY <2>3, <3>1
    <3>3. /\ SubSeq(more, q, last) \in Seq(Times)
          /\ Len(SubSeq(more, q, last)) = IF q <= last THEN last - q + 1 ELSE 0
          /\ \A i \in 1 .. last - q + 1 : SubSeq(more, q, last)[i] = more[q + i - 1]
      BY <3>2, SubSeqProperties
    <3>. QED  BY <3>1, <3>3
  <2>6. (n + 1) - q + 1 = m - p + 1 /\ (q <= n + 1 <=> p <= m)
    BY <2>1, <2>2
  <2>7. ASSUME NEW i \in 1 .. m - p + 1
        PROVE  SubSeq(list, p, m)[i] = SubSeq(more, q, n + 1)[i]
    <3>1. p + i - 1 \in 1 .. (n - d) + 1 /\ d + (p + i - 1) = q + i - 1
      BY <2>1, <2>2
    <3>. QED  BY <1>8, <2>4, <2>5, <2>6, <3>1
  <2>8. Len(SubSeq(list, p, m)) = Len(SubSeq(more, q, n + 1))
    BY <2>4, <2>5, <2>6
  <2>9. \A i \in 1 .. Len(SubSeq(list, p, m)) : SubSeq(list, p, m)[i] = SubSeq(more, q, n + 1)[i]
    BY <2>1, <2>2, <2>4, <2>7
  <2>10. SubSeq(list, p, m) = SubSeq(more, q, n + 1)
    BY <2>4, <2>5, <2>8, <2>9, SeqEqual
  <2>. QED  BY <2>1, <2>2, <2>10
<1>12. ASSUME NEW i \in 1 .. c
       PROVE  more[i] < ts - RecentWindow
  <2>1. CASE i <= d
    <3>1. i \in 1 .. d /\ i \in 1 .. n /\ n \in 1 .. n
      BY <2>1
    <3>2. times[i] < times[n] - RecentWindow /\ times[n] <= top
      BY <1>0, <1>7, <3>1 DEF Rising
    <3>. QED  BY <1>1, <1>2, <1>3, <3>1, <3>2
  <2>2. CASE i > d
    <3>1. i - d \in 1 .. e /\ i - d \in 1 .. (n - d) + 1 /\ d + (i - d) = i
      BY <1>10, <2>2
    <3>. QED  BY <1>8, <1>9, <3>1
  <2>. QED  BY <2>1, <2>2
<1>13. ASSUME NEW i \in c + 1 .. n + 1
       PROVE  more[i] >= ts - RecentWindow
  <2>1. e < (n - d) + 1 /\ e + 1 \in 1 .. (n - d) + 1 /\ d + (e + 1) = c + 1
    BY <1>10
  <2>2. more[c + 1] >= ts - RecentWindow
    BY <1>8, <1>9, <2>1
  <2>3. c + 1 \in 1 .. n + 1 /\ i \in 1 .. n + 1 /\ c + 1 <= i
    BY <2>1
  <2>. QED  BY <1>2, <1>4, <1>5, <2>2, <2>3
<1>14. RecentOf(Pruned(list, ts - RecentWindow), more)
  BY <1>3, <1>9, <1>11, <1>12, <1>13 DEF RecentOf
<1>. QED  BY <1>3, <1>6, <1>8, <1>14

LEMMA RecentOfExact ==
  ASSUME NEW times \in Seq(Times), NEW recent, RecentOf(recent, times)
  PROVE  recent = Selected(times, {ts \in Times : ts >= times[Len(times)] - RecentWindow})
<1>. DEFINE young == {ts \in Times : ts >= times[Len(times)] - RecentWindow}
<1>0. PICK n \in Nat : n = Len(times)
  BY LenProperties
<1>1. /\ \A i \in 1 .. n : times[i] \in Times /\ times[i] \in Nat
      /\ RecentWindow \in Nat
  BY <1>0, ElementOfSeq, WindowsAreFinite DEF Times
<1>2. PICK d \in 0 .. n :
        /\ recent = SubSeq(times, d + 1, n)
        /\ \A i \in 1 .. d : times[i] < times[n] - RecentWindow
        /\ \A i \in d + 1 .. n : times[i] >= times[n] - RecentWindow
  BY <1>0 DEF RecentOf
<1>3. ASSUME NEW i \in 1 .. d
      PROVE  times[i] \notin young
  <2>1. i \in 1 .. n /\ n \in 1 .. n /\ times[i] < times[n] - RecentWindow
    BY <1>2
  <2>. QED  BY <1>0, <1>1, <2>1
<1>4. ASSUME NEW i \in d + 1 .. n
      PROVE  times[i] \in young
  <2>1. i \in 1 .. n /\ times[i] >= times[n] - RecentWindow
    BY <1>2
  <2>. QED  BY <1>0, <1>1, <2>1
<1>. HIDE DEF young
<1>5. Selected(times, young) = SubSeq(times, d + 1, n)
  BY <1>0, <1>3, <1>4, SelectedTail
<1>. QED  BY <1>2, <1>5 DEF young

-----------------------------------------------------------------------------
(* The counts of the buckets. *)

LEMMA TimesOver ==
  ASSUME NEW C \in Nat \ {0}, NEW p \in Int, NEW q \in Int
  PROVE  /\ p <= q => p * C <= q * C
         /\ p * C < q * C => p < q
         /\ (p + 1) * C = p * C + C
  OBVIOUS

LEMMA Division ==
  ASSUME NEW C \in Nat \ {0}, NEW x \in Nat
  PROVE  /\ x \div C \in Nat
         /\ (x \div C) * C <= x
         /\ x < (x \div C) * C + C
  OBVIOUS

LEMMA BucketsInOrder ==
  ASSUME NEW s \in Times, NEW t \in Times, s <= t
  PROVE  BucketOf(s) \in Nat /\ BucketOf(t) \in Nat /\ BucketOf(s) <= BucketOf(t)
<1>1. s \in Nat /\ t \in Nat /\ Interval \in Nat \ {0}
  BY WindowsAreFinite DEF Times
<1>2. PICK a \in Nat, b \in Nat : a = s \div Interval /\ b = t \div Interval
  BY <1>1, Division
<1>3. PICK p \in Int, q \in Int : p = a * Interval /\ q = b * Interval
  BY <1>1
<1>4. p <= s /\ t < q + Interval
  BY <1>1, <1>2, <1>3, Division
<1>5. (b + 1) * Interval = q + Interval
  BY <1>1, <1>3, TimesOver
<1>6. a * Interval < (b + 1) * Interval
  BY <1>1, <1>3, <1>4, <1>5
<1>7. a < b + 1
  BY <1>1, <1>6, TimesOver
<1>. QED  BY <1>2, <1>7 DEF BucketOf

StartsIn(past, b) == {i \in 1 .. Len(past) : past[i].starts = 1 /\ BucketOf(past[i].at) = b}

(* Each bucket counts the run starts of its interval, the buckets are in    *)
(* order and up to date, and what is in no bucket is older than all that a  *)
(* full ring holds.                                                         *)
CountsOf(array, past, top) ==
  /\ \A j, k \in 1 .. Len(array) : j < k => array[j].bucketStart < array[k].bucketStart
  /\ \A k \in 1 .. Len(array) : array[k].runStarts = Cardinality(StartsIn(past, array[k].bucketStart))
  /\ \A i \in 1 .. Len(past) :
       /\ past[i].at <= top
       /\ \/ \E k \in 1 .. Len(array) : BucketOf(past[i].at) = array[k].bucketStart
          \/ Len(array) = Capacity /\ BucketOf(past[i].at) < array[1].bucketStart
  /\ array # <<>> => array[Len(array)].bucketStart = BucketOf(top)
  /\ array = <<>> => past = <<>>

\* Recorded, of the array.
Recording(array, ts, starts, next) ==
  \/ /\ array # <<>>
     /\ array[Len(array)].bucketStart = BucketOf(ts)
     /\ next = [array EXCEPT ![Len(array)] = [bucketStart |-> BucketOf(ts),
                                              runStarts |-> array[Len(array)].runStarts + starts]]
  \/ /\ array # <<>> => array[Len(array)].bucketStart # BucketOf(ts)
     /\ next = Append(IF Len(array) < Capacity THEN array ELSE Tail(array),
                      [bucketStart |-> BucketOf(ts), runStarts |-> starts])

LEMMA StartsFinite ==
  ASSUME NEW past \in Seq(Records), NEW b
  PROVE  IsFiniteSet(StartsIn(past, b)) /\ Cardinality(StartsIn(past, b)) \in Nat
<1>0. PICK n \in Nat : n = Len(past)
  BY LenProperties
<1>1. StartsIn(past, b) \in SUBSET (1 .. n)
  BY <1>0 DEF StartsIn
<1>2. IsFiniteSet(1 .. n)
  BY FS_Interval
<1>3. IsFiniteSet(StartsIn(past, b))
  BY <1>1, <1>2, FS_Subset
<1>. QED  BY <1>3, FS_CardinalityType

LEMMA StartsGrow ==
  ASSUME NEW past \in Seq(Records), NEW ts \in Times, NEW starts \in 0 .. 1,
         NEW longer, longer = Noted(past, ts, starts)
  PROVE  \A b : Cardinality(StartsIn(longer, b)) =
                  IF BucketOf(ts) = b THEN Cardinality(StartsIn(past, b)) + starts
                  ELSE Cardinality(StartsIn(past, b))
<1>0. PICK n \in Nat : n = Len(past)
  BY LenProperties
<1>. DEFINE record == [at |-> ts, starts |-> starts]
<1>1. record \in Records /\ record.at = ts /\ record.starts = starts
  BY DEF Records
<1>. HIDE DEF record
<1>2. /\ Len(longer) = n + 1 /\ longer[n + 1] = record
      /\ \A i \in 1 .. n : longer[i] = past[i]
  BY <1>0, <1>1, AppendProperties DEF record, Noted
<1>. SUFFICES ASSUME NEW b
              PROVE  Cardinality(StartsIn(longer, b)) =
                       IF BucketOf(ts) = b THEN Cardinality(StartsIn(past, b)) + starts
                       ELSE Cardinality(StartsIn(past, b))
  OBVIOUS
<1>3. StartsIn(past, b) = {i \in 1 .. n : past[i].starts = 1 /\ BucketOf(past[i].at) = b}
  BY <1>0 DEF StartsIn
<1>4. StartsIn(longer, b) = {i \in 1 .. n + 1 : longer[i].starts = 1 /\ BucketOf(longer[i].at) = b}
  BY <1>2 DEF StartsIn
<1>5. IsFiniteSet(StartsIn(past, b)) /\ Cardinality(StartsIn(past, b)) \in Nat /\ n + 1 \notin StartsIn(past, b)
  <2>1. IsFiniteSet(StartsIn(past, b)) /\ Cardinality(StartsIn(past, b)) \in Nat
    BY StartsFinite
  <2>2. n + 1 \notin StartsIn(past, b)
    BY <1>3
  <2>. QED  BY <2>1, <2>2
<1>6. CASE starts = 1 /\ BucketOf(ts) = b
  <2>1. StartsIn(longer, b) = StartsIn(past, b) \cup {n + 1}
    BY <1>1, <1>2, <1>3, <1>4, <1>6
  <2>2. PICK before : before = StartsIn(past, b)
    OBVIOUS
  <2>3. Cardinality(before \cup {n + 1}) = Cardinality(before) + 1
    BY <1>5, <2>2, FS_AddElement
  <2>. QED  BY <1>5, <1>6, <2>1, <2>2, <2>3
<1>7. CASE ~(starts = 1 /\ BucketOf(ts) = b)
  <2>1. StartsIn(longer, b) = StartsIn(past, b)
    BY <1>1, <1>2, <1>3, <1>4, <1>7
  <2>. QED  BY <1>5, <1>7, <2>1
<1>. QED  BY <1>6, <1>7

LEMMA NoStarts ==
  ASSUME NEW past, NEW b, \A i \in 1 .. Len(past) : BucketOf(past[i].at) # b
  PROVE  Cardinality(StartsIn(past, b)) = 0
<1>1. StartsIn(past, b) = {}
  BY DEF StartsIn
<1>. QED  BY <1>1, FS_EmptySet

LEMMA RecordingExact ==
  ASSUME NEW ring, RingSound(ring), NEW ts \in Times, NEW starts \in 0 .. 1, NEW bound \in Nat,
         bound < MaxRecords,
         \A i \in 1 .. ring.count : ToArray(ring)[i].runStarts <= bound
  PROVE  Recording(ToArray(ring), ts, starts, ToArray(Recorded(ring, ts, starts)))
<1>. DEFINE array == ToArray(ring)
            newest == Newest(ring)
            after == Recorded(ring, ts, starts)
            opened == [bucketStart |-> BucketOf(ts), runStarts |-> starts]
<1>1. ring.count \in Nat /\ ring = [buffer |-> ring.buffer, head |-> ring.head, count |-> ring.count]
  BY RingTypes
<1>2. array \in Seq(Buckets) /\ Len(array) = ring.count
  BY ArrayAt
<1>3. MaxRecords \in Nat /\ Interval \in Nat \ {0} /\ MaxTime \in Nat
  BY WindowsAreFinite
<1>4. BucketOf(ts) \in Times
  <2>1. ts \in Nat /\ ts <= MaxTime
    BY <1>3 DEF Times
  <2>2. BucketOf(ts) \in 0 .. ts
    BY <1>3, <2>1, BucketInTime DEF BucketOf
  <2>. QED  BY <1>3, <2>1, <2>2 DEF Times
<1>. HIDE DEF array
<1>5. CASE ring.count > 0 /\ newest.bucketStart = BucketOf(ts)
  <2>1. newest = array[ring.count] /\ newest \in Buckets
    BY <1>5, NewestIsLast DEF array
  <2>2. newest.runStarts <= bound
    BY <1>1, <1>5, <2>1 DEF array
  <2>. DEFINE amended == [newest EXCEPT !.runStarts = @ + starts]
              expected == [bucketStart |-> BucketOf(ts), runStarts |-> newest.runStarts + starts]
  <2>3. newest.runStarts + starts \in 0 .. MaxRecords
    BY <1>3, <2>1, <2>2 DEF Buckets
  <2>4. amended = expected /\ expected \in Buckets
    BY <1>4, <1>5, <2>1, <2>3 DEF Buckets
  <2>5. after = [ring EXCEPT !.buffer[NewestSlot(ring)] = amended]
    BY <1>5 DEF Recorded, Newest
  <2>. HIDE DEF amended, expected, after, newest
  <2>6. after = [ring EXCEPT !.buffer[NewestSlot(ring)] = expected]
    BY <2>4, <2>5
  <2>7. array # <<>> /\ ToArray(after) = [array EXCEPT ![Len(array)] = expected]
    BY <1>5, <2>4, <2>6, NewestAmended DEF array
  <2>8. array[Len(array)] = newest
    BY <1>2, <2>1
  <2>9. ToArray(after) = [array EXCEPT ![Len(array)] =
                            [bucketStart |-> BucketOf(ts), runStarts |-> array[Len(array)].runStarts + starts]]
    BY <2>7, <2>8 DEF expected
  <2>10. array[Len(array)].bucketStart = BucketOf(ts)
    BY <1>5, <2>8
  <2>. QED  BY <2>7, <2>9, <2>10 DEF Recording, array, after
<1>6. CASE ~(ring.count > 0 /\ newest.bucketStart = BucketOf(ts))
  <2>1. opened \in Buckets
    BY <1>3, <1>4 DEF Buckets
  <2>2. after = Push(ring, opened)
    BY <1>6 DEF Recorded
  <2>. HIDE DEF opened, after, newest
  <2>3. ToArray(after) = Append(IF Len(array) < Capacity THEN array ELSE Tail(array), opened)
    BY <2>1, <2>2, PushPuts DEF array
  <2>4. array # <<>> => array[Len(array)].bucketStart # BucketOf(ts)
    <3>1. SUFFICES ASSUME array # <<>> PROVE array[Len(array)].bucketStart # BucketOf(ts)
      OBVIOUS
    <3>2. ring.count > 0
      BY <1>1, <1>2, <3>1
    <3>3. newest = array[ring.count]
      BY <3>2, NewestIsLast DEF array, newest
    <3>. QED  BY <1>2, <1>6, <3>2, <3>3
  <2>. QED  BY <2>3, <2>4 DEF Recording, array, after, opened
<1>. QED  BY <1>5, <1>6

\* One more event, no earlier than the others.
LEMMA CountsGrow ==
  ASSUME NEW array \in Seq(Buckets), Len(array) <= Capacity,
         NEW past \in Seq(Records), NEW top \in Times, CountsOf(array, past, top),
         NEW ts \in Times, top <= ts, NEW starts \in 0 .. 1,
         NEW next, Recording(array, ts, starts, next), next \in Seq(Buckets),
         NEW longer, longer = Noted(past, ts, starts)
  PROVE  CountsOf(next, longer, ts)
<1>0. PICK n \in Nat, c \in Nat : n = Len(array) /\ c = Len(past)
  BY LenProperties
<1>1. /\ longer \in Seq(Records) /\ Len(longer) = c + 1
      /\ longer[c + 1].at = ts
      /\ \A i \in 1 .. c : longer[i] = past[i]
  <2>. DEFINE record == [at |-> ts, starts |-> starts]
  <2>1. record \in Records /\ record.at = ts
    BY DEF Records
  <2>. HIDE DEF record
  <2>. QED  BY <1>0, <2>1, AppendProperties DEF record, Noted
<1>2. /\ Capacity \in Nat \ {0} /\ top \in Int /\ ts \in Int
      /\ \A k \in 1 .. n : array[k] \in Buckets /\ array[k].bucketStart \in Int
      /\ \A i \in 1 .. c : past[i].at \in Times /\ past[i].at \in Int
  <2>1. MaxTime \in Nat /\ Capacity \in Nat \ {0}
    BY WindowsAreFinite
  <2>2. \A k \in 1 .. n : array[k] \in Buckets
    BY <1>0, ElementOfSeq
  <2>3. \A i \in 1 .. c : past[i] \in Records
    BY <1>0, ElementOfSeq
  <2>. QED  BY <2>1, <2>2, <2>3 DEF Buckets, Records, Times
<1>3. /\ BucketOf(ts) \in Nat /\ BucketOf(top) \in Nat /\ BucketOf(top) <= BucketOf(ts)
      /\ \A i \in 1 .. c : BucketOf(past[i].at) \in Nat /\ BucketOf(past[i].at) <= BucketOf(top)
  <2>1. BucketOf(ts) \in Nat /\ BucketOf(top) \in Nat /\ BucketOf(top) <= BucketOf(ts)
    BY BucketsInOrder
  <2>2. ASSUME NEW i \in 1 .. c
        PROVE  BucketOf(past[i].at) \in Nat /\ BucketOf(past[i].at) <= BucketOf(top)
    <3>1. past[i].at \in Times /\ past[i].at <= top
      BY <1>0, <1>2 DEF CountsOf
    <3>. QED  BY <3>1, BucketsInOrder
  <2>. QED  BY <2>1, <2>2
<1>4. \A i \in 1 .. c + 1 : longer[i].at <= ts
  <2>1. \A i \in 1 .. c : past[i].at <= ts
    BY <1>0, <1>2 DEF CountsOf
  <2>2. ASSUME NEW i \in 1 .. c + 1 PROVE longer[i].at <= ts
    <3>1. CASE i = c + 1
      BY <1>1, <1>2, <3>1
    <3>2. CASE i # c + 1
      <4>1. i \in 1 .. c
        BY <3>2
      <4>. QED  BY <1>1, <2>1, <4>1
    <3>. QED  BY <3>1, <3>2
  <2>. QED  BY <2>2
<1>5. \A j, k \in 1 .. n : j < k => array[j].bucketStart < array[k].bucketStart
  BY <1>0 DEF CountsOf
<1>6. /\ \A k \in 1 .. n : array[k].runStarts = Cardinality(StartsIn(past, array[k].bucketStart))
      /\ \A i \in 1 .. c :
           \/ \E k \in 1 .. n : BucketOf(past[i].at) = array[k].bucketStart
           \/ n = Capacity /\ BucketOf(past[i].at) < array[1].bucketStart
      /\ array # <<>> => n > 0 /\ array[n].bucketStart = BucketOf(top)
      /\ array = <<>> => n = 0 /\ c = 0
  BY <1>0, EmptySeq DEF CountsOf
<1>7. \A b : Cardinality(StartsIn(longer, b)) =
               IF BucketOf(ts) = b THEN Cardinality(StartsIn(past, b)) + starts
               ELSE Cardinality(StartsIn(past, b))
  BY StartsGrow
<1>8. CASE /\ array # <<>>
           /\ array[n].bucketStart = BucketOf(ts)
           /\ next = [array EXCEPT ![n] = [bucketStart |-> BucketOf(ts),
                                           runStarts |-> array[n].runStarts + starts]]
  <2>1. n \in 1 .. n
    BY <1>6, <1>8
  <2>. DEFINE newest == [bucketStart |-> BucketOf(ts), runStarts |-> array[n].runStarts + starts]
  <2>2. newest.bucketStart = BucketOf(ts) /\ newest.runStarts = array[n].runStarts + starts
    OBVIOUS
  <2>3. next = [array EXCEPT ![n] = newest]
    BY <1>8
  <2>. HIDE DEF newest
  <2>4. /\ Len(next) = n /\ next[n] = newest /\ \A k \in 1 .. n - 1 : next[k] = array[k]
        /\ next # <<>>
    <3>1. array \in [1 .. n -> Buckets]
      BY <1>0, LenProperties
    <3>2. Len(next) = n
      BY <1>0, <2>3
    <3>3. next[n] = newest /\ \A k \in 1 .. n - 1 : next[k] = array[k]
      BY <2>1, <2>3, <3>1
    <3>. QED  BY <2>1, <3>2, <3>3, EmptySeq
  <2>5. \A k \in 1 .. n : next[k].bucketStart = array[k].bucketStart
    <3>1. ASSUME NEW k \in 1 .. n PROVE next[k].bucketStart = array[k].bucketStart
      <4>1. CASE k = n
        BY <1>8, <2>2, <2>4, <4>1
      <4>2. CASE k # n
        BY <2>4, <4>2
      <4>. QED  BY <4>1, <4>2
    <3>. QED  BY <3>1
  <2>6. \A j, k \in 1 .. n : j < k => next[j].bucketStart < next[k].bucketStart
    BY <1>5, <2>5
  <2>7. ASSUME NEW k \in 1 .. n
        PROVE  next[k].runStarts = Cardinality(StartsIn(longer, next[k].bucketStart))
    <3>1. Cardinality(StartsIn(longer, array[k].bucketStart)) =
            IF BucketOf(ts) = array[k].bucketStart THEN array[k].runStarts + starts
            ELSE array[k].runStarts
      BY <1>6, <1>7
    <3>2. CASE k = n
      BY <1>8, <2>2, <2>4, <2>5, <3>1, <3>2
    <3>3. CASE k # n
      <4>1. k \in 1 .. n - 1 /\ k < n
        BY <3>3
      <4>2. array[k].bucketStart < array[n].bucketStart
        BY <1>5, <2>1, <4>1
      <4>3. BucketOf(ts) # array[k].bucketStart
        BY <1>2, <1>8, <2>1, <4>2
      <4>. QED  BY <2>4, <2>5, <3>1, <4>1, <4>3
    <3>. QED  BY <3>2, <3>3
  <2>8. ASSUME NEW i \in 1 .. c + 1
        PROVE  \/ \E k \in 1 .. n : BucketOf(longer[i].at) = next[k].bucketStart
               \/ n = Capacity /\ BucketOf(longer[i].at) < next[1].bucketStart
    <3>1. CASE i = c + 1
      BY <1>1, <1>8, <2>1, <2>5, <3>1
    <3>2. CASE i # c + 1
      <4>1. i \in 1 .. c /\ longer[i] = past[i]
        BY <1>1, <3>2
      <4>2. 1 \in 1 .. n
        BY <2>1
      <4>. QED  BY <1>6, <2>5, <4>1, <4>2
    <3>. QED  BY <3>1, <3>2
  <2>9. next[n].bucketStart = BucketOf(ts)
    BY <2>2, <2>4
  <2>. QED  BY <1>1, <1>4, <2>4, <2>6, <2>7, <2>8, <2>9 DEF CountsOf
<1>9. CASE /\ array # <<>> => array[n].bucketStart # BucketOf(ts)
           /\ next = Append(IF n < Capacity THEN array ELSE Tail(array),
                            [bucketStart |-> BucketOf(ts), runStarts |-> starts])
  <2>. DEFINE opened == [bucketStart |-> BucketOf(ts), runStarts |-> starts]
              kept == IF n < Capacity THEN array ELSE Tail(array)
  <2>1. opened.bucketStart = BucketOf(ts) /\ opened.runStarts = starts
    OBVIOUS
  <2>2. next = Append(kept, opened)
    BY <1>9
  <2>. HIDE DEF opened
  <2>3. PICK out \in 0 .. 1, m \in Nat :
          /\ m = n - out /\ out <= n /\ (out = 1 <=> n = Capacity) /\ Len(kept) = m
          /\ \A k \in 1 .. m : kept[k] = array[k + out]
    <3>1. CASE n < Capacity
      <4>1. kept = array /\ n # Capacity /\ n - 0 = n /\ \A k \in 1 .. n : k + 0 = k
        BY <1>2, <3>1
      <4>. HIDE DEF kept
      <4>2. Len(kept) = n /\ \A k \in 1 .. n : kept[k] = array[k + 0]
        BY <1>0, <4>1
      <4>. QED  BY <4>1, <4>2
    <3>2. CASE n = Capacity
      <4>0. ~(n < Capacity) /\ n > 0 /\ n - 1 \in Nat /\ 1 <= n
        BY <1>2, <3>2
      <4>1. kept = Tail(array) /\ array # <<>>
        BY <1>0, <4>0, EmptySeq
      <4>. HIDE DEF kept
      <4>2. Len(kept) = n - 1 /\ \A k \in 1 .. n - 1 : kept[k] = array[k + 1]
        BY <1>0, <4>1, HeadTailProperties
      <4>. QED  BY <3>2, <4>0, <4>2
    <3>3. n < Capacity \/ n = Capacity
      BY <1>0, <1>2
    <3>. HIDE DEF kept
    <3>. QED  BY <3>1, <3>2, <3>3
  <2>4. kept \in Seq(Buckets) /\ opened \in Buckets
    <3>1. next \in [1 .. Len(next) -> Buckets]
      BY LenProperties
    <3>2. kept \in Seq(Buckets)
      <4>1. CASE n < Capacity
        BY <4>1
      <4>2. CASE ~(n < Capacity)
        <5>1. array # <<>>
          BY <1>0, <1>2, <4>2, EmptySeq
        <5>. QED  BY <4>2, <5>1, HeadTailProperties
      <4>. QED  BY <4>1, <4>2
    <3>. HIDE DEF kept
    <3>3. PICK T : T = Buckets \cup {opened}
      OBVIOUS
    <3>4. kept \in Seq(T) /\ opened \in T
      BY <3>2, <3>3
    <3>5. Len(next) = Len(kept) + 1 /\ next[Len(kept) + 1] = opened
      BY <2>2, <3>4, AppendProperties
    <3>6. next[Len(kept) + 1] \in Buckets
      BY <2>3, <3>1, <3>5
    <3>. QED  BY <3>2, <3>5, <3>6
  <2>5. /\ Len(next) = m + 1 /\ next[m + 1] = opened /\ next # <<>>
        /\ \A k \in 1 .. m : next[k] = array[k + out] /\ k + out \in 1 .. n
    <3>. HIDE DEF kept
    <3>0. PICK list, last, T : list = kept /\ last = opened /\ list \in Seq(T) /\ last \in T
      BY <2>4
    <3>1. /\ Append(list, last) # <<>>
          /\ Len(Append(list, last)) = Len(list) + 1
          /\ \A k \in 1 .. Len(list) : Append(list, last)[k] = list[k]
          /\ Append(list, last)[Len(list) + 1] = last
      BY <3>0, AppendProperties
    <3>2. \A k \in 1 .. m : k + out \in 1 .. n
      BY <2>3
    <3>3. next = Append(list, last) /\ Len(list) = m /\ \A k \in 1 .. m : list[k] = array[k + out]
      BY <2>2, <2>3, <3>0
    <3>. QED  BY <3>0, <3>1, <3>2, <3>3
  <2>. HIDE DEF kept
  <2>6. \A k \in 1 .. n : array[k].bucketStart < BucketOf(ts)
    <3>1. ASSUME NEW k \in 1 .. n PROVE array[k].bucketStart < BucketOf(ts)
      <4>1. array # <<>> /\ n \in 1 .. n
        BY <1>0, EmptySeq
      <4>2. array[n].bucketStart = BucketOf(top) /\ array[n].bucketStart < BucketOf(ts)
        BY <1>3, <1>6, <1>9, <4>1
      <4>3. k = n \/ array[k].bucketStart < array[n].bucketStart
        BY <1>5, <4>1
      <4>4. PICK p \in Int, q \in Int, r \in Int :
              p = array[k].bucketStart /\ q = array[n].bucketStart /\ r = BucketOf(ts)
        <5>1. array[k].bucketStart \in Int /\ array[n].bucketStart \in Int
          BY <1>2, <4>1
        <5>2. BucketOf(ts) \in Int
          BY <1>3
        <5>. QED  BY <5>1, <5>2
      <4>5. q < r /\ (p = q \/ p < q)
        BY <4>2, <4>3, <4>4
      <4>6. p < r
        BY <4>5
      <4>. QED  BY <4>4, <4>6
    <3>. QED  BY <3>1
  <2>7. \A j, k \in 1 .. m + 1 : j < k => next[j].bucketStart < next[k].bucketStart
    <3>1. ASSUME NEW j \in 1 .. m + 1, NEW k \in 1 .. m + 1, j < k
          PROVE  next[j].bucketStart < next[k].bucketStart
      <4>1. j \in 1 .. m /\ j + out \in 1 .. n /\ next[j] = array[j + out]
        BY <2>5, <3>1
      <4>2. CASE k = m + 1
        BY <2>1, <2>5, <2>6, <4>1, <4>2
      <4>3. CASE k # m + 1
        <5>1. k \in 1 .. m /\ k + out \in 1 .. n /\ next[k] = array[k + out] /\ j + out < k + out
          BY <2>3, <2>5, <3>1, <4>3
        <5>. QED  BY <1>5, <4>1, <5>1
      <4>. QED  BY <4>2, <4>3
    <3>. QED  BY <3>1
  <2>8. ASSUME NEW k \in 1 .. m + 1
        PROVE  next[k].runStarts = Cardinality(StartsIn(longer, next[k].bucketStart))
    <3>1. CASE k = m + 1
      <4>1. ASSUME NEW i \in 1 .. c PROVE BucketOf(past[i].at) # BucketOf(ts)
        <5>1. n > 0 /\ array # <<>>
          BY <1>6
        <5>2. array[n].bucketStart = BucketOf(top) /\ BucketOf(top) < BucketOf(ts)
          BY <1>6, <2>6, <5>1
        <5>. QED  BY <1>3, <5>2
      <4>2. Cardinality(StartsIn(past, BucketOf(ts))) = 0
        BY <1>0, <4>1, NoStarts
      <4>3. Cardinality(StartsIn(longer, BucketOf(ts))) = starts
        BY <1>7, <4>2
      <4>. QED  BY <2>1, <2>5, <3>1, <4>3
    <3>2. CASE k # m + 1
      <4>1. k + out \in 1 .. n /\ next[k] = array[k + out]
        BY <2>5, <3>2
      <4>2. BucketOf(ts) # array[k + out].bucketStart
        BY <1>2, <1>3, <2>6, <4>1
      <4>3. Cardinality(StartsIn(longer, array[k + out].bucketStart)) = array[k + out].runStarts
        BY <1>6, <1>7, <4>1, <4>2
      <4>. QED  BY <4>1, <4>3
    <3>. QED  BY <3>1, <3>2
  <2>9. ASSUME NEW i \in 1 .. c + 1
        PROVE  \/ \E k \in 1 .. m + 1 : BucketOf(longer[i].at) = next[k].bucketStart
               \/ m + 1 = Capacity /\ BucketOf(longer[i].at) < next[1].bucketStart
    <3>1. CASE i = c + 1
      BY <1>1, <2>1, <2>5, <3>1
    <3>2. CASE i # c + 1
      <4>1. i \in 1 .. c /\ longer[i] = past[i]
        BY <1>1, <3>2
      <4>2. CASE out = 0
        <5>1. PICK k \in 1 .. n : BucketOf(past[i].at) = array[k].bucketStart
          BY <1>6, <2>3, <4>1, <4>2
        <5>2. k \in 1 .. m /\ k \in 1 .. m + 1 /\ k + out = k
          BY <2>3, <4>2
        <5>3. next[k] = array[k]
          BY <2>5, <5>2
        <5>. QED  BY <4>1, <5>1, <5>2, <5>3
      <4>3. CASE out = 1
        <5>1. n = Capacity /\ m + 1 = Capacity /\ 1 \in 1 .. n /\ m = n - 1
          BY <1>2, <2>3, <4>3
        <5>2. array[1].bucketStart < next[1].bucketStart
          <6>1. CASE m = 0
            BY <2>1, <2>5, <2>6, <5>1, <6>1
          <6>2. CASE m > 0
            <7>1. next[1] = array[2] /\ 2 \in 1 .. n
              BY <2>5, <4>3, <5>1, <6>2
            <7>. QED  BY <1>5, <5>1, <7>1
          <6>. QED  BY <6>1, <6>2
        <5>3. next[1].bucketStart \in Int
          <6>1. next[1] \in Buckets
            BY <2>5, ElementOfSeq
          <6>2. MaxTime \in Nat
            BY WindowsAreFinite
          <6>. QED  BY <6>1, <6>2 DEF Buckets, Times
        <5>4. CASE BucketOf(past[i].at) < array[1].bucketStart
          <6>1. PICK p \in Int, q \in Int, r \in Int :
                  p = BucketOf(past[i].at) /\ q = array[1].bucketStart /\ r = next[1].bucketStart
            <7>1. BucketOf(past[i].at) \in Int
              BY <1>3, <4>1
            <7>2. array[1].bucketStart \in Int
              BY <1>2, <5>1
            <7>. QED  BY <5>3, <7>1, <7>2
          <6>2. p < q /\ q < r
            BY <5>2, <5>4, <6>1
          <6>3. p < r
            BY <6>2
          <6>. QED  BY <4>1, <5>1, <6>1, <6>3
        <5>5. CASE \E k \in 1 .. n : BucketOf(past[i].at) = array[k].bucketStart
          <6>1. PICK k \in 1 .. n : BucketOf(past[i].at) = array[k].bucketStart
            BY <5>5
          <6>2. CASE k = 1
            BY <4>1, <5>1, <5>2, <6>1, <6>2
          <6>3. CASE k # 1
            <7>1. k - 1 \in 1 .. m /\ k - 1 \in 1 .. m + 1 /\ (k - 1) + out = k
              BY <4>3, <5>1, <6>3
            <7>2. next[k - 1] = array[k]
              BY <2>5, <7>1
            <7>. QED  BY <4>1, <6>1, <7>1, <7>2
          <6>. QED  BY <6>2, <6>3
        <5>. QED  BY <1>6, <4>1, <5>4, <5>5
      <4>4. out = 0 \/ out = 1
        OBVIOUS
      <4>. QED  BY <4>2, <4>3, <4>4
    <3>. QED  BY <3>1, <3>2
  <2>10. next[m + 1].bucketStart = BucketOf(ts)
    BY <2>1, <2>5
  <2>. QED  BY <1>1, <1>4, <2>5, <2>7, <2>8, <2>9, <2>10 DEF CountsOf
<1>. QED  BY <1>0, <1>8, <1>9 DEF Recording

-----------------------------------------------------------------------------
(* The counts of a window. *)

\* The counts of the buckets in W, added in turn.
Sums(f, array, W) ==
  /\ f[0] = 0
  /\ \A k \in 1 .. Len(array) :
       f[k] = f[k - 1] + (IF array[k].bucketStart \in W THEN array[k].runStarts ELSE 0)

CountedIn(array, past, W, k) ==
  {i \in 1 .. Len(past) : /\ past[i].starts = 1
                          /\ BucketOf(past[i].at) \in W
                          /\ \E j \in 1 .. k : BucketOf(past[i].at) = array[j].bucketStart}

LEMMA SumsCount ==
  ASSUME NEW array \in Seq(Buckets), NEW past \in Seq(Records), NEW W, NEW f,
         Sums(f, array, W),
         \A j, k \in 1 .. Len(array) : j < k => array[j].bucketStart < array[k].bucketStart,
         \A k \in 1 .. Len(array) : array[k].runStarts = Cardinality(StartsIn(past, array[k].bucketStart))
  PROVE  f[Len(array)] = Cardinality(CountedIn(array, past, W, Len(array)))
<1>0. PICK n \in Nat, c \in Nat : n = Len(array) /\ c = Len(past)
  BY LenProperties
<1>1. \A k \in 1 .. n : array[k].bucketStart \in Int
  <2>1. MaxTime \in Nat /\ \A k \in 1 .. n : array[k] \in Buckets
    BY <1>0, ElementOfSeq, WindowsAreFinite
  <2>. QED  BY <2>1 DEF Buckets, Times
<1>2. /\ \A j, k \in 1 .. n : j < k => array[j].bucketStart < array[k].bucketStart
      /\ \A k \in 1 .. n : array[k].runStarts = Cardinality(StartsIn(past, array[k].bucketStart))
  BY <1>0
<1>3. /\ f[0] = 0
      /\ \A k \in 1 .. n : f[k] = f[k - 1] + (IF array[k].bucketStart \in W THEN array[k].runStarts ELSE 0)
  BY <1>0 DEF Sums
<1>4. \A k \in 0 .. n : CountedIn(array, past, W, k) \subseteq 1 .. c
  BY <1>0 DEF CountedIn
<1>5. \A k \in 0 .. n : /\ IsFiniteSet(CountedIn(array, past, W, k))
                        /\ Cardinality(CountedIn(array, past, W, k)) \in Nat
  <2>1. IsFiniteSet(1 .. c)
    BY FS_Interval
  <2>2. \A k \in 0 .. n : IsFiniteSet(CountedIn(array, past, W, k))
    BY <1>4, <2>1, FS_Subset
  <2>. QED  BY <2>2, FS_CardinalityType
<1>. DEFINE P == {k \in 0 .. n : f[k] = Cardinality(CountedIn(array, past, W, k))}
<1>6. 0 \in P
  <2>1. CountedIn(array, past, W, 0) = {}
    BY DEF CountedIn
  <2>2. Cardinality(CountedIn(array, past, W, 0)) = 0
    BY <2>1, FS_EmptySet
  <2>. QED  BY <1>3, <2>2
<1>7. ASSUME NEW k \in 0 .. n - 1, k \in P
      PROVE  k + 1 \in P
  <2>1. PICK m \in 1 .. n : m = k + 1 /\ k = m - 1
    OBVIOUS
  <2>2. PICK b \in Int : b = array[m].bucketStart
    BY <1>1
  <2>3. PICK counted : counted = CountedIn(array, past, W, k)
    OBVIOUS
  <2>4. IsFiniteSet(counted) /\ Cardinality(counted) \in Nat /\ f[k] = Cardinality(counted)
    BY <1>5, <1>7, <2>3
  <2>5. counted = {i \in 1 .. c : /\ past[i].starts = 1 /\ BucketOf(past[i].at) \in W
                                  /\ \E j \in 1 .. k : BucketOf(past[i].at) = array[j].bucketStart}
    BY <1>0, <2>3 DEF CountedIn
  <2>6. CountedIn(array, past, W, m) =
          {i \in 1 .. c : /\ past[i].starts = 1 /\ BucketOf(past[i].at) \in W
                          /\ \E j \in 1 .. m : BucketOf(past[i].at) = array[j].bucketStart}
    BY <1>0 DEF CountedIn
  <2>7. StartsIn(past, b) = {i \in 1 .. c : past[i].starts = 1 /\ BucketOf(past[i].at) = b}
    BY <1>0 DEF StartsIn
  <2>8. \A x : (\E j \in 1 .. m : x = array[j].bucketStart) <=>
                 ((\E j \in 1 .. k : x = array[j].bucketStart) \/ x = b)
    BY <2>1, <2>2
  <2>9. CASE b \notin W
    <3>1. CountedIn(array, past, W, m) = counted
      BY <2>5, <2>6, <2>8, <2>9
    <3>2. f[m] = f[k]
      BY <1>3, <2>1, <2>2, <2>4, <2>9
    <3>. QED  BY <2>1, <2>4, <3>1, <3>2
  <2>10. CASE b \in W
    <3>1. CountedIn(array, past, W, m) = counted \cup StartsIn(past, b)
      BY <2>5, <2>6, <2>7, <2>8, <2>10
    <3>2. counted \cap StartsIn(past, b) = {}
      <4>1. \A j \in 1 .. k : array[j].bucketStart # b
        <5>1. ASSUME NEW j \in 1 .. k PROVE array[j].bucketStart # b
          <6>1. j \in 1 .. n /\ j < m
            BY <2>1
          <6>2. array[j].bucketStart < b /\ array[j].bucketStart \in Int
            BY <1>1, <1>2, <2>2, <6>1
          <6>. QED  BY <6>2
        <5>. QED  BY <5>1
      <4>. QED  BY <2>5, <2>7, <4>1
    <3>3. IsFiniteSet(StartsIn(past, b)) /\ Cardinality(StartsIn(past, b)) \in Nat
      BY StartsFinite
    <3>4. PICK starts : starts = StartsIn(past, b)
      OBVIOUS
    <3>5. Cardinality(counted \cup starts) =
            Cardinality(counted) + Cardinality(starts) - Cardinality(counted \cap starts)
      BY <2>4, <3>3, <3>4, FS_Union
    <3>6. Cardinality(counted \cup starts) = Cardinality(counted) + Cardinality(starts)
      <4>1. Cardinality(counted \cap starts) = 0
        BY <3>2, <3>4, FS_EmptySet
      <4>2. Cardinality(starts) \in Nat
        BY <3>3, <3>4
      <4>. QED  BY <2>4, <3>5, <4>1, <4>2
    <3>7. f[m] = f[k] + Cardinality(starts)
      BY <1>2, <1>3, <2>1, <2>2, <2>10, <3>4
    <3>8. Cardinality(CountedIn(array, past, W, m)) = Cardinality(counted \cup starts)
      BY <3>1, <3>4
    <3>9. f[m] = Cardinality(CountedIn(array, past, W, m))
      BY <2>4, <3>6, <3>7, <3>8
    <3>. QED  BY <2>1, <3>9
  <2>. QED  BY <2>9, <2>10
<1>. HIDE DEF P
<1>8. \A k \in 0 .. n : k \in P
  BY <1>6, <1>7, Induction
<1>9. n \in P
  BY <1>8
<1>. QED  BY <1>0, <1>9 DEF P

LEMMA WindowUnrolls ==
  ASSUME RingSound(buckets), NEW now, NEW window
  PROVE  \E f : /\ f[0] = 0
                /\ \A k \in 1 .. buckets.count :
                     f[k] = f[k - 1] + (IF k \in RecentBuckets(now, window)
                                        THEN ToArray(buckets)[k].runStarts ELSE 0)
                /\ WindowedRunStarts(now, window) = f[buckets.count]
<1>0. PICK N \in Nat : N = buckets.count
  BY RingTypes
<1>1. PICK array : array = ToArray(buckets)
  OBVIOUS
<1>2. PICK recent : recent = RecentBuckets(now, window)
  OBVIOUS
<1>. DEFINE Rec(g) == g = [k \in 0 .. N |->
                             IF k = 0 THEN 0
                             ELSE g[k - 1] + (IF k \in recent THEN array[k].runStarts ELSE 0)]
            f == CHOOSE g : Rec(g)
            F == [k \in 1 .. N |-> [s \in Nat |-> s + (IF k \in recent THEN array[k].runStarts ELSE 0)]]
<1>3. WindowedRunStarts(now, window) = f[N]
  BY <1>0, <1>1, <1>2 DEF WindowedRunStarts
<1>4. \A k \in 1 .. N : array[k].runStarts \in Nat
  <2>1. \A k \in 1 .. N : array[k] \in Buckets
    BY <1>0, <1>1, ArrayAt, ElementOfSeq
  <2>. QED  BY <2>1, WindowsAreFinite DEF Buckets
<1>5. \A k \in 1 .. N, s \in Nat : s + (IF k \in recent THEN array[k].runStarts ELSE 0) \in Nat
  BY <1>4
<1>6. F \in [1 .. N -> [Nat -> Nat]]
  BY <1>5
<1>7. PICK g : Unrolls(g, Nat, N, 0, F)
  <2>. HIDE DEF F
  <2>. QED  BY <1>6, RecursionExists
<1>8. g \in [0 .. N -> Nat] /\ g[0] = 0
  BY <1>7 DEF Unrolls
<1>9. ASSUME NEW k \in 1 .. N
      PROVE  g[k] = g[k - 1] + (IF k \in recent THEN array[k].runStarts ELSE 0)
  <2>1. g[k] = F[k][g[k - 1]]
    BY <1>7 DEF Unrolls
  <2>2. g[k - 1] \in Nat
    BY <1>8
  <2>. QED  BY <2>1, <2>2
<1>. HIDE DEF F
<1>10. Rec(g)
  <2>1. ASSUME NEW k \in 0 .. N
        PROVE  g[k] = IF k = 0 THEN 0
                      ELSE g[k - 1] + (IF k \in recent THEN array[k].runStarts ELSE 0)
    <3>1. CASE k = 0
      BY <1>8, <3>1
    <3>2. CASE k # 0
      <4>1. k \in 1 .. N
        BY <3>2
      <4>. QED  BY <1>9, <3>2, <4>1
    <3>. QED  BY <3>1, <3>2
  <2>. QED  BY <1>8, <2>1
<1>11. Rec(f)
  BY <1>10
<1>. HIDE DEF f
<1>12. f[0] = 0
  BY <1>11
<1>13. ASSUME NEW k \in 1 .. N
       PROVE  f[k] = f[k - 1] + (IF k \in recent THEN array[k].runStarts ELSE 0)
  <2>1. k \in 0 .. N /\ k # 0
    OBVIOUS
  <2>. QED  BY <1>11, <2>1
<1>. QED  BY <1>0, <1>1, <1>2, <1>3, <1>12, <1>13

\* In a strictly rising list of intervals, the first is at least Len - 1 before the last.
LEMMA FirstBucket ==
  ASSUME NEW array \in Seq(Buckets), array # <<>>,
         \A j, k \in 1 .. Len(array) : j < k => array[j].bucketStart < array[k].bucketStart
  PROVE  /\ array[1].bucketStart \in Int
         /\ array[Len(array)].bucketStart \in Int
         /\ array[1].bucketStart + (Len(array) - 1) <= array[Len(array)].bucketStart
<1>0. PICK n \in Nat : n = Len(array)
  BY LenProperties
<1>1. n >= 1 /\ n - 1 \in Nat
  BY <1>0, EmptySeq
<1>2. \A k \in 1 .. n : array[k].bucketStart \in Int
  <2>1. MaxTime \in Nat /\ \A k \in 1 .. n : array[k] \in Buckets
    BY <1>0, ElementOfSeq, WindowsAreFinite
  <2>. QED  BY <2>1 DEF Buckets, Times
<1>3. PICK first \in Int : first = array[1].bucketStart
  BY <1>1, <1>2
<1>. DEFINE P == {d \in 0 .. n - 1 : first + d <= array[d + 1].bucketStart}
<1>4. 0 \in P
  BY <1>1, <1>3
<1>5. ASSUME NEW d \in 0 .. (n - 1) - 1, d \in P
      PROVE  d + 1 \in P
  <2>1. PICK a \in 1 .. n, b \in 1 .. n : a = d + 1 /\ b = (d + 1) + 1 /\ a < b
    OBVIOUS
  <2>2. PICK p \in Int, q \in Int : p = array[a].bucketStart /\ q = array[b].bucketStart
    BY <1>2
  <2>3. p < q
    BY <1>0, <2>1, <2>2
  <2>4. first + d <= p
    BY <1>5, <2>1, <2>2
  <2>5. first + (d + 1) <= q
    BY <2>3, <2>4
  <2>. QED  BY <2>1, <2>2, <2>5
<1>. HIDE DEF P
<1>6. \A d \in 0 .. n - 1 : d \in P
  BY <1>1, <1>4, <1>5, Induction
<1>7. PICK d \in 0 .. n - 1 : d = n - 1 /\ d + 1 = n
  BY <1>1
<1>8. first + d <= array[n].bucketStart
  BY <1>6, <1>7 DEF P
<1>. QED  BY <1>0, <1>1, <1>2, <1>3, <1>7, <1>8

\* What is older than all that a full ring holds is in no window it can answer for.
LEMMA LeftBehind ==
  ASSUME NEW n \in 1 .. Capacity - 1, NEW top \in Times, NEW now \in top .. top + Interval,
         NEW first \in Int, first + (Capacity - 1) <= BucketOf(top),
         NEW b \in Nat, b < first
  PROVE  ~(b * Interval + Interval > now - n * Interval)
<1>1. Capacity \in Nat \ {0} /\ Interval \in Nat \ {0} /\ top \in Nat
  BY WindowsAreFinite DEF Times
<1>2. PICK last \in Nat : last = BucketOf(top) /\ last * Interval <= top
  BY <1>1, Division DEF BucketOf
<1>3. (b + 1) + n <= last
  BY <1>1, <1>2
<1>4. PICK p \in Int, q \in Int, r \in Int, s \in Int :
        p = b * Interval /\ q = n * Interval /\ r = last * Interval /\ s = ((b + 1) + n) * Interval
  BY <1>1
<1>5. ((b + 1) + n) * Interval = b * Interval + Interval + n * Interval
  BY <1>1
<1>6. s <= r
  BY <1>1, <1>3, <1>4, TimesOver
<1>. QED  BY <1>1, <1>2, <1>4, <1>5, <1>6

LEMMA WindowExact ==
  ASSUME RingSound(buckets), history \in Seq(Records), latest \in Times,
         CountsOf(ToArray(buckets), history, latest),
         NEW n \in 1 .. Capacity - 1, NEW now \in latest .. latest + Interval
  PROVE  WindowedRunStarts(now, n * Interval) =
           Cardinality({k \in StartsRecorded :
             LET start == BucketOf(history[k].at) * Interval
             IN  start + Interval > now - n * Interval /\ start <= now})
<1>1. PICK array \in Seq(Buckets), c \in Nat, h \in Nat :
        array = ToArray(buckets) /\ c = Len(array) /\ c = buckets.count /\ h = Len(history)
  BY ArrayAt, LenProperties
<1>2. PICK window : window = n * Interval
  OBVIOUS
<1>. DEFINE W == {b \in Nat : b * Interval + Interval > now - window /\ b * Interval <= now}
<1>3. PICK f : /\ f[0] = 0
               /\ \A k \in 1 .. c : f[k] = f[k - 1] + (IF k \in RecentBuckets(now, window)
                                                       THEN array[k].runStarts ELSE 0)
               /\ WindowedRunStarts(now, window) = f[c]
  BY <1>1, WindowUnrolls
<1>4. \A k \in 1 .. c : array[k].bucketStart \in Nat
  <2>1. MaxTime \in Nat /\ \A k \in 1 .. c : array[k] \in Buckets
    BY <1>1, ElementOfSeq, WindowsAreFinite
  <2>. QED  BY <2>1 DEF Buckets, Times
<1>5. \A k \in 1 .. c : k \in RecentBuckets(now, window) <=> array[k].bucketStart \in W
  BY <1>1, <1>4 DEF RecentBuckets
<1>6. \A i \in 1 .. h : BucketOf(history[i].at) \in Nat
  <2>1. ASSUME NEW i \in 1 .. h PROVE BucketOf(history[i].at) \in Nat
    <3>1. history[i] \in Records
      BY <1>1, ElementOfSeq
    <3>2. history[i].at \in Times
      BY <3>1 DEF Records
    <3>3. PICK t \in Nat : t = history[i].at
      BY <3>2, WindowsAreFinite DEF Times
    <3>4. t \div Interval \in Nat
      BY Division, WindowsAreFinite
    <3>. QED  BY <3>3, <3>4 DEF BucketOf
  <2>. QED  BY <2>1
<1>7. Sums(f, array, W)
  <2>. HIDE DEF W
  <2>. QED  BY <1>1, <1>3, <1>5 DEF Sums
<1>8. /\ \A j, k \in 1 .. Len(array) : j < k => array[j].bucketStart < array[k].bucketStart
      /\ \A k \in 1 .. Len(array) : array[k].runStarts = Cardinality(StartsIn(history, array[k].bucketStart))
  BY <1>1 DEF CountsOf
<1>9. f[c] = Cardinality(CountedIn(array, history, W, c))
  <2>. HIDE DEF W
  <2>1. PICK past \in Seq(Records) : past = history
    OBVIOUS
  <2>2. \A k \in 1 .. Len(array) : array[k].runStarts = Cardinality(StartsIn(past, array[k].bucketStart))
    BY <1>8, <2>1
  <2>3. f[Len(array)] = Cardinality(CountedIn(array, past, W, Len(array)))
    BY <1>7, <1>8, <2>2, SumsCount
  <2>. QED  BY <1>1, <2>1, <2>3
<1>10. ASSUME NEW i \in 1 .. h, BucketOf(history[i].at) \in W
       PROVE  \E j \in 1 .. c : BucketOf(history[i].at) = array[j].bucketStart
  <2>1. SUFFICES ASSUME c = Capacity, BucketOf(history[i].at) < array[1].bucketStart
                 PROVE  FALSE
    <3>1. \/ \E k \in 1 .. c : BucketOf(history[i].at) = array[k].bucketStart
          \/ c = Capacity /\ BucketOf(history[i].at) < array[1].bucketStart
      BY <1>1 DEF CountsOf
    <3>. QED  BY <3>1
  <2>2. array # <<>> /\ array[c].bucketStart = BucketOf(latest)
    <3>1. c > 0
      BY <2>1, WindowsAreFinite
    <3>2. array # <<>>
      <4>1. Len(array) # 0
        BY <1>1, <3>1
      <4>. QED  BY <4>1, EmptySeq, Zenon
    <3>. QED  BY <1>1, <3>2 DEF CountsOf
  <2>3. PICK first \in Int : first = array[1].bucketStart /\ first + (Capacity - 1) <= BucketOf(latest)
    BY <1>1, <1>8, <2>1, <2>2, FirstBucket
  <2>4. PICK b \in Nat : b = BucketOf(history[i].at)
    BY <1>6
  <2>5. ~(b * Interval + Interval > now - window)
    <3>1. b < first
      BY <2>1, <2>3, <2>4
    <3>. QED  BY <1>2, <2>3, <3>1, LeftBehind
  <2>. QED  BY <1>10, <2>4, <2>5
<1>11. {k \in StartsRecorded :
          LET start == BucketOf(history[k].at) * Interval
          IN  start + Interval > now - window /\ start <= now} =
       {i \in 1 .. h : history[i].starts = 1 /\ BucketOf(history[i].at) \in W}
  BY <1>1, <1>6 DEF StartsRecorded
<1>12. CountedIn(array, history, W, c) = {i \in 1 .. h : history[i].starts = 1 /\ BucketOf(history[i].at) \in W}
  <2>. HIDE DEF W
  <2>. QED  BY <1>1, <1>10 DEF CountedIn
<1>. HIDE DEF W
<1>. QED  BY <1>2, <1>3, <1>9, <1>11, <1>12

-----------------------------------------------------------------------------
(* Exactness, through every step. *)

\* What the buckets and the recent timestamps are of what was recorded in order.
Exact(array, recent, past, top) ==
  /\ CountsOf(array, past, top)
  /\ RecentOf(recent, StartTimesOf(past))
  /\ Rising(StartTimesOf(past), top)

(* The inductive invariant: the runtime is exact as long as its events came *)
(* in order, and so is what was exported while they did.                    *)
Exactness ==
  /\ inOrder => Exact(ToArray(buckets), runStarts, history, latest)
  /\ saved # None => (saved.inOrder =>
       Exact(saved.buckets, saved.runStarts, saved.history, saved.latest))

LEMMA NothingExact == Exact(<<>>, <<>>, <<>>, 0)
<1>1. CountsOf(<<>>, <<>>, 0)
  BY DEF CountsOf
<1>2. PICK times : times = <<>> /\ times = StartTimesOf(<<>>)
  BY NoStartTimes
<1>3. RecentOf(<<>>, times)
  <2>1. Len(times) = 0 /\ SubSeq(times, 1, 0) = <<>>
    BY <1>2
  <2>2. PICK d \in 0 .. Len(times) : d = 0
    BY <2>1
  <2>3. <<>> = SubSeq(times, d + 1, Len(times))
    BY <1>2, <2>1, <2>2
  <2>. QED  BY <2>1, <2>2, <2>3 DEF RecentOf
<1>4. Rising(times, 0)
  BY <1>2 DEF Rising
<1>. QED  BY <1>1, <1>2, <1>3, <1>4 DEF Exact

LEMMA StillRising ==
  ASSUME NEW times \in Seq(Times), NEW top \in Times, NEW ts \in Times, top <= ts, Rising(times, top)
  PROVE  Rising(times, ts)
<1>1. MaxTime \in Nat /\ \A i \in 1 .. Len(times) : times[i] \in Times
  BY ElementOfSeq, WindowsAreFinite
<1>2. \A i \in 1 .. Len(times) : times[i] <= ts
  BY <1>1 DEF Rising, Times
<1>. QED  BY <1>2 DEF Rising

\* Recording a run start (starts = 1), or anything else (starts = 0), in order.
LEMMA RecordedExactly ==
  ASSUME NEW ring, RingSound(ring), NEW bound \in Nat, bound < MaxRecords,
         \A i \in 1 .. ring.count : ToArray(ring)[i].runStarts <= bound,
         NEW past \in Seq(Records), NEW top \in Times, NEW recent,
         Exact(ToArray(ring), recent, past, top),
         NEW ts \in Times, top <= ts, NEW starts \in 0 .. 1
  PROVE  Exact(ToArray(Recorded(ring, ts, starts)),
               IF starts = 1 THEN Pruned(Append(recent, ts), ts - RecentWindow) ELSE recent,
               Noted(past, ts, starts), ts)
<1>1. PICK array \in Seq(Buckets) : array = ToArray(ring) /\ Len(array) <= Capacity
  <2>1. ToArray(ring) \in Seq(Buckets) /\ Len(ToArray(ring)) = ring.count
    BY ArrayAt
  <2>2. ring.count <= Capacity
    BY RingTypes
  <2>. QED  BY <2>1, <2>2
<1>2. PICK next \in Seq(Buckets) : next = ToArray(Recorded(ring, ts, starts))
  <2>1. RingSound(Recorded(ring, ts, starts))
    BY RecordedQueues
  <2>. QED  BY <2>1, ArrayAt
<1>3. Recording(array, ts, starts, next)
  BY <1>1, <1>2, RecordingExact
<1>4. PICK longer : longer = Noted(past, ts, starts)
  OBVIOUS
<1>5. CountsOf(next, longer, ts)
  <2>1. CountsOf(array, past, top)
    BY <1>1 DEF Exact
  <2>. QED  BY <1>1, <1>3, <1>4, <2>1, CountsGrow
<1>6. PICK times \in Seq(Times) : times = StartTimesOf(past)
  BY StartTimesType
<1>7. RecentOf(recent, times) /\ Rising(times, top)
  BY <1>6 DEF Exact
<1>8. StartTimesOf(longer) = IF starts = 1 THEN Append(times, ts) ELSE times
  BY <1>4, <1>6, StartTimesGrow
<1>9. CASE starts = 1
  <2>1. /\ RecentOf(Pruned(Append(recent, ts), ts - RecentWindow), Append(times, ts))
        /\ Rising(Append(times, ts), ts)
    <3>1. ts >= top
      BY WindowsAreFinite DEF Times
    <3>. QED  BY <1>7, <3>1, RecentGrows
  <2>. QED  BY <1>2, <1>4, <1>5, <1>8, <1>9, <2>1 DEF Exact
<1>10. CASE starts # 1
  <2>1. Rising(times, ts)
    BY <1>7, StillRising
  <2>. QED  BY <1>2, <1>4, <1>5, <1>7, <1>8, <1>10, <2>1 DEF Exact
<1>. QED  BY <1>9, <1>10

LEMMA InitExact == Init => Exactness
BY EmptyHolds, NothingExact DEF Init, Exactness

LEMMA StepExact ==
  ASSUME TypeOK, Exactness, [Next]_vars
  PROVE  Exactness'
<1>1. ASSUME NEW ts \in Times, NEW starts \in 0 .. 1,
             buckets' = Recorded(buckets, ts, starts),
             Arrived(ts, starts),
             runStarts' = IF starts = 1 THEN Pruned(Append(runStarts, ts), ts - RecentWindow)
                          ELSE runStarts,
             UNCHANGED saved
      PROVE  Exactness'
  <2>1. SUFFICES ASSUME inOrder'
                 PROVE  Exact(ToArray(buckets'), runStarts', history', latest')
    BY <1>1 DEF Exactness
  <2>2. inOrder /\ ts >= latest
    BY <1>1, <2>1 DEF Arrived
  <2>3. latest' = ts /\ history' = Noted(history, ts, starts) /\ latest <= ts
    BY <1>1, <2>2, WindowsAreFinite DEF Arrived, Noted, TypeOK, Times
  <2>4. PICK past \in Seq(Records), top \in Times : past = history /\ top = latest
    BY DEF TypeOK
  <2>5. PICK ring, recent : ring = buckets /\ recent = runStarts
    OBVIOUS
  <2>6. PICK bound \in Nat : bound = Len(history) /\ bound < MaxRecords
    BY <1>1, <2>4, LenProperties DEF Arrived
  <2>7. RingSound(ring) /\ \A i \in 1 .. ring.count : ToArray(ring)[i].runStarts <= bound
    BY <2>4, <2>5, <2>6 DEF TypeOK, CountsBounded
  <2>8. Exact(ToArray(ring), recent, past, top)
    BY <2>2, <2>4, <2>5 DEF Exactness
  <2>9. Exact(ToArray(Recorded(ring, ts, starts)),
              IF starts = 1 THEN Pruned(Append(recent, ts), ts - RecentWindow) ELSE recent,
              Noted(past, ts, starts), ts)
    BY <2>3, <2>4, <2>6, <2>7, <2>8, RecordedExactly
  <2>. QED  BY <1>1, <2>3, <2>4, <2>5, <2>9
<1>2. ASSUME NEW ts \in Times, RecordRunStart(ts)
      PROVE  Exactness'
  <2>1. /\ buckets' = Recorded(buckets, ts, 1)
        /\ Arrived(ts, 1)
        /\ runStarts' = Pruned(Append(runStarts, ts), ts - RecentWindow)
        /\ UNCHANGED saved
        /\ 1 \in 0 .. 1
    BY <1>2 DEF RecordRunStart
  <2>. QED  BY <1>1, <2>1
<1>3. ASSUME NEW ts \in Times, RecordOther(ts)
      PROVE  Exactness'
  <2>1. /\ buckets' = Recorded(buckets, ts, 0)
        /\ Arrived(ts, 0)
        /\ runStarts' = runStarts
        /\ UNCHANGED saved
        /\ 0 \in 0 .. 1 /\ 0 # 1
    BY <1>3 DEF RecordOther
  <2>. QED  BY <1>1, <2>1
<1>4. ASSUME Persist
      PROVE  Exactness'
  BY <1>4 DEF Persist, runtime, Exactness
<1>5. ASSUME Restore
      PROVE  Exactness'
  <2>1. saved # None /\ saved.buckets \in Seq(Buckets) /\ Len(saved.buckets) <= Capacity
    BY <1>5 DEF Restore, TypeOK, Compacts
  <2>2. ToArray(buckets') = saved.buckets
    BY <1>5, <2>1, RefilledHolds DEF Restore
  <2>. QED  BY <1>5, <2>1, <2>2 DEF Restore, Exactness
<1>6. ASSUME RestartEmpty
      PROVE  Exactness'
  <2>1. ToArray(buckets') = <<>>
    BY <1>6, EmptyHolds DEF RestartEmpty
  <2>. QED  BY <1>6, <2>1, NothingExact DEF RestartEmpty, Exactness
<1>7. CASE UNCHANGED vars
  BY <1>7 DEF vars, Exactness
<1>. QED  BY <1>2, <1>3, <1>4, <1>5, <1>6, <1>7 DEF Next

LEMMA ExactIsRecent == TypeOK /\ Exactness => RecentExact
<1>. SUFFICES ASSUME TypeOK, Exactness, inOrder
              PROVE  runStarts = Selected(StartTimes,
                                   {ts \in Times : ts >= StartTimes[Len(StartTimes)] - RecentWindow})
  BY DEF RecentExact
<1>1. PICK past \in Seq(Records) : past = history
  BY DEF TypeOK
<1>2. PICK times \in Seq(Times) : times = StartTimesOf(past)
  BY StartTimesType
<1>3. StartTimes = times
  BY <1>1, <1>2 DEF StartTimes, StartTimesOf, Started
<1>4. RecentOf(runStarts, times)
  BY <1>1, <1>2 DEF Exactness, Exact
<1>5. PICK recent : recent = runStarts
  OBVIOUS
<1>6. recent = Selected(times, {ts \in Times : ts >= times[Len(times)] - RecentWindow})
  BY <1>4, <1>5, RecentOfExact
<1>. QED  BY <1>3, <1>5, <1>6

LEMMA ExactIsWindowed == TypeOK /\ Exactness => WindowsExact
<1>. SUFFICES ASSUME TypeOK, Exactness, inOrder,
                     NEW window \in {n * Interval : n \in 1 .. Capacity - 1},
                     NEW now \in latest .. latest + Interval
              PROVE  WindowedRunStarts(now, window) =
                       Cardinality({k \in StartsRecorded :
                         LET start == BucketOf(history[k].at) * Interval
                         IN  start + Interval > now - window /\ start <= now})
  BY DEF WindowsExact
<1>1. PICK n \in 1 .. Capacity - 1 : window = n * Interval
  OBVIOUS
<1>2. /\ RingSound(buckets) /\ history \in Seq(Records) /\ latest \in Times
      /\ CountsOf(ToArray(buckets), history, latest)
  BY DEF TypeOK, Exactness, Exact
<1>. QED  BY <1>1, <1>2, WindowExact

(* While the events of an agent come in order, its recent timestamps are    *)
(* those of the run starts within the recent window of the last one, also   *)
(* after pruning, export and restore.                                       *)
THEOREM RecentAlwaysExact == Spec => []RecentExact
<1>1. TypeOK /\ Exactness /\ [Next]_vars => Exactness'
  BY StepExact
<1>. QED  BY WindowsTypeCorrect, InitExact, <1>1, ExactIsRecent, PTL DEF Spec

(* While the events of an agent come in order, a window shorter than what   *)
(* the ring holds counts exactly the run starts whose interval it overlaps, *)
(* whatever has been evicted, exported and restored.                        *)
THEOREM WindowsAlwaysExact == Spec => []WindowsExact
<1>1. TypeOK /\ Exactness /\ [Next]_vars => Exactness'
  BY StepExact
<1>. QED  BY WindowsTypeCorrect, InitExact, <1>1, ExactIsWindowed, PTL DEF Spec
=============================================================================
