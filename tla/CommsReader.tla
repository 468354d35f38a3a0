---------------------------- MODULE CommsReader ----------------------------
(***************************************************************************)
(* The relay communications of a company as the page browses them          *)
(* (relay-comm-log.tsx): pages fetched one after another by sequence       *)
(* number and merged, while the log goes on growing, evicts, is bounded    *)
(* anew and is restored by a restart (comms-store.ts).                     *)
(***************************************************************************)
EXTENDS CommsLog

CONSTANTS PageSizes,   \* PAGE_SIZES
          FirstSize,   \* DEFAULT_PAGE_SIZE
          Capacities,  \* limits the operator sets
          MaxSeq,      \* entries that are recorded
          MaxSettings  \* changes of the limit, of the page size, and restarts

ASSUME ReaderAssumption ==
    /\ PageSizes \cup Capacities \subseteq Nat \ {0}
    /\ FirstSize \in PageSizes
    /\ {MaxSeq, MaxSettings} \subseteq Nat

VARIABLES
    log,       \* the company's log in the worker
    onDisk,    \* its compact form in plugin state
    pageSize, beforeSeq, entries, nextBeforeSeq, \* the state of the component
    fetched,   \* the page for the present parameters has been merged
    top,       \* the newest entry when the first page was served
    restarted, \* the worker restarted since
    settings   \* what is left of MaxSettings

readerVars == <<log, onDisk, pageSize, beforeSeq, entries, nextBeforeSeq, fetched, top,
                restarted, settings>>

ReaderInit ==
    /\ log = EmptyLog /\ onDisk = Compact(EmptyLog)
    /\ pageSize = FirstSize /\ beforeSeq = NoSeq /\ entries = <<>> /\ nextBeforeSeq = NoSeq
    /\ fetched = FALSE /\ top = 0 /\ restarted = FALSE
    /\ settings = MaxSettings

-----------------------------------------------------------------------------
\* The worker.

RecordsEntry ==
    /\ log.seq < MaxSeq
    /\ log' = Recorded(log)
    /\ UNCHANGED <<onDisk, pageSize, beforeSeq, entries, nextBeforeSeq, fetched, top, restarted,
                   settings>>

Bounds(n) ==
    /\ settings > 0 /\ settings' = settings - 1
    /\ log' = Limited(log, n)
    /\ UNCHANGED <<onDisk, pageSize, beforeSeq, entries, nextBeforeSeq, fetched, top, restarted>>

\* persistAllBuckets.
Persists ==
    /\ onDisk' = Compact(log)
    /\ UNCHANGED <<log, pageSize, beforeSeq, entries, nextBeforeSeq, fetched, top, restarted,
                   settings>>

\* The worker crashes and starts anew: entries recorded since are gone, and their numbers
\* are given again.
Restarts ==
    /\ settings > 0 /\ settings' = settings - 1
    /\ log' = Restored(EmptyLog, onDisk)
    /\ restarted' = TRUE
    /\ UNCHANGED <<onDisk, pageSize, beforeSeq, entries, nextBeforeSeq, fetched, top>>

-----------------------------------------------------------------------------
\* The page.

\* The effect on a page: entries whose number is not shown yet are added at the end.
Merged(shown, page) ==
    shown \o Selected(page, {e \in Range(page) : \A i \in DOMAIN shown : shown[i].seq # e.seq})

\* The answer for the present parameters arrives.
Fetches ==
    /\ ~ fetched /\ fetched' = TRUE
    /\ LET page == Page(log, pageSize, beforeSeq)
       IN entries' = Merged(entries, page.entries) /\ nextBeforeSeq' = page.next
    /\ top' = IF beforeSeq = NoSeq THEN log.seq ELSE top
    /\ restarted' = IF beforeSeq = NoSeq THEN FALSE ELSE restarted
    /\ UNCHANGED <<log, onDisk, pageSize, beforeSeq, settings>>

\* handleMore.
LoadMore ==
    /\ fetched /\ nextBeforeSeq # NoSeq
    /\ beforeSeq' = nextBeforeSeq /\ fetched' = FALSE
    /\ UNCHANGED <<log, onDisk, pageSize, entries, nextBeforeSeq, top, restarted, settings>>

\* reset.
Resizes(size) ==
    /\ settings > 0 /\ settings' = settings - 1
    /\ size # pageSize /\ pageSize' = size
    /\ beforeSeq' = NoSeq /\ entries' = <<>> /\ nextBeforeSeq' = NoSeq
    /\ fetched' = FALSE
    /\ UNCHANGED <<log, onDisk, top, restarted>>

ReaderNext ==
    \/ RecordsEntry
    \/ \E n \in Capacities : Bounds(n)
    \/ Persists \/ Restarts
    \/ Fetches \/ LoadMore
    \/ \E size \in PageSizes : Resizes(size)

ReaderSpec == ReaderInit /\ [][ReaderNext]_readerVars

-----------------------------------------------------------------------------
ReaderTypeOK ==
    /\ log \in [seq : 0 .. MaxSeq, limit : Nat, entries : Seq(Entries)] /\ onDisk \in Compacts
    /\ pageSize \in PageSizes /\ beforeSeq \in 0 .. MaxSeq /\ nextBeforeSeq \in 0 .. MaxSeq
    /\ entries \in Seq(Entries) /\ top \in 0 .. MaxSeq
    /\ {fetched, restarted} \subseteq BOOLEAN /\ settings \in 0 .. MaxSettings

\* What is shown goes down by number without a repeat, and at "End of log." nothing is missing:
\* every entry that the log holds and that is no newer than the first page is shown, whatever
\* was recorded and evicted between the pages (comms-store.ts:185-215, relay-comm-log.tsx).
ReaderComplete ==
    ~ restarted =>
      /\ Increasing(Reverse(entries))
      /\ fetched /\ nextBeforeSeq = NoSeq =>
           \A i \in DOMAIN log.entries :
             log.entries[i].seq <= top =>
               \E j \in DOMAIN entries : entries[j] = log.entries[i]
=============================================================================
