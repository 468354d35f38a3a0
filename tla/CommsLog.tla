------------------------------ MODULE CommsLog ------------------------------
(***************************************************************************)
(* A company's bounded log of relay communications (comms-store.ts): the   *)
(* entries retained, oldest first, each no more here than its sequence     *)
(* number, and the compact form that is kept in plugin state               *)
(* (persistence.ts).                                                       *)
(***************************************************************************)
EXTENDS Integers, SequencesExt, Selection

CONSTANTS DefaultLimit,    \* DEFAULT_RELAY_COMMS_LIMIT
          MaxLimit,        \* MAX_PAGE_LIMIT * 10: a larger limit is not believed
          DefaultPage,     \* DEFAULT_PAGE_LIMIT
          MaxPage          \* MAX_PAGE_LIMIT

ASSUME LogAssumption ==
    /\ {DefaultLimit, MaxLimit, DefaultPage, MaxPage} \subseteq Nat \ {0}
    /\ DefaultLimit <= MaxLimit

Entries == [seq : Nat]
Logs == [seq : Nat, limit : Nat, entries : Seq(Entries)]
Compacts == [limit : Nat, entries : Seq(Entries)]

EmptyLog == [seq |-> 0, limit |-> DefaultLimit, entries |-> <<>>]

-----------------------------------------------------------------------------
\* The last n entries of s (slice(-n), and splice(0, length - n)).
Newest(s, n) == IF Len(s) > n THEN SubSeq(s, Len(s) - n + 1, Len(s)) ELSE s

ClampLimit(n) == IF n < 1 THEN 1 ELSE IF n > MaxLimit THEN DefaultLimit ELSE n

Recorded(log) ==
    [log EXCEPT !.seq = @ + 1,
                !.entries = LET grown == Append(@, [seq |-> log.seq + 1])
                            IN IF Len(grown) > log.limit THEN Tail(grown) ELSE grown]

\* A batch is one entry, and one more for each line of dialog it carries.
RecordedBatch(log, lines) ==
    LET after[n \in 0 .. lines] == IF n = 0 THEN Recorded(log) ELSE Recorded(after[n - 1])
    IN  after[lines]

Limited(log, n) ==
    [log EXCEPT !.limit = ClampLimit(n), !.entries = Newest(@, ClampLimit(n))]

Compact(log) == [limit |-> log.limit, entries |-> log.entries]

-----------------------------------------------------------------------------
\* restoreCompact: the persisted entries, then those in memory that are newer than
\* the last of them by sequence number.
Tail0(restored) == IF restored = <<>> THEN -1 ELSE restored[Len(restored)].seq

\* BUG: all of memory is kept behind what is restored.
KeptAll(restored, entries) == entries

KeptBeside(restored, entries) == Selected(entries, {e \in Range(entries) : e.seq > Tail0(restored)})

HighestSeq(log, entries) ==
    IF entries = <<>> \/ entries[Len(entries)].seq <= log.seq
    THEN log.seq ELSE entries[Len(entries)].seq

Restored(log, compact) ==
    LET limit    == ClampLimit(compact.limit)
        restored == Newest(compact.entries, limit)
        merged   == restored \o KeptBeside(restored, log.entries)
    IN [seq |-> HighestSeq(log, merged), limit |-> limit, entries |-> Newest(merged, limit)]

-----------------------------------------------------------------------------
\* list: a page of the newest entries below a cursor, newest first, and the cursor of
\* the next page. NoSeq is a missing cursor, and the null cursor after the last page.
NoSeq == 0

ClampPage(n) == IF n < 1 THEN 1 ELSE IF n > MaxPage THEN MaxPage ELSE n

Below(log, before) ==
    Reverse(Selected(log.entries, {e \in Range(log.entries) : before = NoSeq \/ e.seq < before}))

\* BUG: the cursor is the first entry that was left out, which the next page leaves out too.
PageSkipping(log, limit, before) ==
    LET below == Below(log, before)
        size  == ClampPage(limit)
    IN IF Len(below) > size
       THEN [entries |-> SubSeq(below, 1, size), next |-> below[size + 1].seq]
       ELSE [entries |-> below, next |-> NoSeq]

Page(log, limit, before) ==
    LET below == Below(log, before)
        size  == ClampPage(limit)
    IN IF Len(below) > size
       THEN [entries |-> SubSeq(below, 1, size), next |-> below[size].seq]
       ELSE [entries |-> below, next |-> NoSeq]

-----------------------------------------------------------------------------
\* The log is what the store promises: never more than the limit, in the order the
\* entries were recorded, and no number given twice.
Bounded(log) == Len(log.entries) <= log.limit

Increasing(entries) ==
    \A i, j \in 1 .. Len(entries) : i < j => entries[i].seq < entries[j].seq

InOrder(log) ==
    /\ Increasing(log.entries)
    /\ \A i \in 1 .. Len(log.entries) : log.entries[i].seq \in 1 .. log.seq
=============================================================================
