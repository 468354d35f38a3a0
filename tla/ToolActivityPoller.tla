------------------------- MODULE ToolActivityPoller -------------------------
(***************************************************************************)
(* The poller that tails the raw log of an active run for tool calls       *)
(* (tool-activity-poller.ts).  On every tick of its timer each tracked run *)
(* is polled: a page of its log is asked for at the cursor's offset, and   *)
(* when the answer comes the cursor moves on, the calls of the complete    *)
(* lines are reported and the last, incomplete line is carried over.       *)
(*                                                                         *)
(* A tick does not wait for the polls of the one before: an answer that    *)
(* takes longer than the interval overlaps the next poll of its run, on    *)
(* the same cursor.                                                        *)
(*                                                                         *)
(* The log of the run is a sequence of lines, one tool call each; a line   *)
(* has a front part and a back part that ends in the newline, which is     *)
(* where a page may be cut.                                                *)
(***************************************************************************)
EXTENDS Integers, Functions, Selection

CONSTANTS
  MaxCalls,     \* tool calls the run makes
  PageParts,    \* LOG_PAGE_BYTES, in parts
  MaxPolls,     \* polls that are awaiting an answer at a time
  MaxTracks,    \* times that the run comes to be tracked
  MaxDrops      \* answers that are not ok, or that fail

ASSUME PollerBounds ==
  /\ {MaxCalls, PageParts, MaxPolls, MaxTracks} \subseteq Nat \ {0}
  /\ MaxDrops \in Nat

VARIABLES
  written,     \* parts of the log written so far
  active,      \* the run has not ended
  cursors,     \* every cursor the run has had
  tracked,     \* which of them the poller has for the run (0: none)
  polls,       \* polls awaiting an answer: their cursor and the offset they asked for
  drops,       \* what is left of MaxDrops
  told,        \* the calls reported since the run was last tracked, as long as no polls overlapped
  reported,    \* every call reported so far
  overlapping  \* since then, a poll was started while one of the same cursor was awaiting

pollerVars == <<written, active, cursors, tracked, polls, drops, told, reported, overlapping>>

Calls == 1 .. MaxCalls

\* The part at position i of the log.
Part(i) == [call |-> (i + 1) \div 2, back |-> i % 2 = 0]

LogParts == {Part(i) : i \in 1 .. 2 * MaxCalls}

\* RunLogCursor; call 0 stands for null.
Cursors == [offset : 0 .. 2 * MaxCalls, pending : Seq(LogParts), lastCall : 0 .. MaxCalls]

FreshCursor == [offset |-> 0, pending |-> <<>>, lastCall |-> 0]

PollerInit ==
  /\ written = 0 /\ active = TRUE
  /\ cursors = <<>> /\ tracked = 0
  /\ polls = {}
  /\ drops = MaxDrops
  /\ told = <<>> /\ reported = {}
  /\ overlapping = FALSE

-----------------------------------------------------------------------------
\* The run at the host: its log grows by a part at a time, and stands when it ends.
LogGrows ==
  /\ active /\ written < 2 * MaxCalls
  /\ written' = written + 1
  /\ UNCHANGED <<active, cursors, tracked, polls, drops, told, reported, overlapping>>

RunEnds ==
  /\ active
  /\ active' = FALSE
  /\ UNCHANGED <<written, cursors, tracked, polls, drops, told, reported, overlapping>>

\* trackRun, by the event or by a snapshot's active runs, which may be late: the run may have
\* ended, and may have been untracked, by then. A run that is tracked keeps its cursor.
TrackRun ==
  /\ tracked = 0 /\ Len(cursors) < MaxTracks
  /\ cursors' = Append(cursors, FreshCursor)
  /\ tracked' = Len(cursors) + 1
  /\ told' = <<>> /\ overlapping' = FALSE
  /\ UNCHANGED <<written, active, polls, drops, reported>>

\* The cursor is forgotten; a poll that is awaiting keeps it.
UntrackRun ==
  /\ ~ active /\ tracked # 0
  /\ tracked' = 0
  /\ UNCHANGED <<written, active, cursors, polls, drops, told, reported, overlapping>>

-----------------------------------------------------------------------------
Awaiting(c) == {p \in polls : p.cursor = c}

\* BUG: the cursor moves on by a whole page, whatever the page held.
PageEndWhole(offset) == offset + PageParts

\* Where a page that is read at an offset now ends.
PageEnd(offset) == IF offset + PageParts < written THEN offset + PageParts ELSE written

\* pollOnce: the request is made with the cursor's offset as it is. The host answers with what
\* is there when it reads the log, which is at least what is there now.
Poll ==
  /\ tracked # 0
  /\ LET offset == cursors[tracked].offset
     IN \E id \in 1 .. MaxPolls :
          /\ \A p \in polls : p.id # id
          /\ \A less \in 1 .. id - 1 : \E p \in polls : p.id = less
          /\ polls' = polls \cup {[id |-> id, cursor |-> tracked, offset |-> offset,
                                  least |-> PageEnd(offset)]}
  /\ overlapping' = (overlapping \/ Awaiting(tracked) # {})
  /\ UNCHANGED <<written, active, cursors, tracked, drops, told, reported>>

\* The parts up to the last newline, and those behind it.
LastNewline(parts) ==
  LET ends == {i \in 1 .. Len(parts) : parts[i].back}
  IN IF ends = {} THEN 0 ELSE CHOOSE i \in ends : \A j \in ends : j <= i

Pending(parts) == SubSeq(parts, LastNewline(parts) + 1, Len(parts))

\* A line that is a record - the two parts of one call - yields the call; one that was put
\* together from parts that do not belong together does not parse and is skipped.
RecordEndingAt(parts, i) ==
  /\ i > 1 /\ parts[i].back /\ ~ parts[i - 1].back
  /\ parts[i].call = parts[i - 1].call
  /\ i > 2 => parts[i - 2].back

\* (A call that is zero stands for none.)
LinesOf(parts) ==
  Selected([i \in 1 .. Len(parts) |-> IF RecordEndingAt(parts, i) THEN parts[i].call ELSE 0], Calls)

\* A call is reported unless it is the one reported last.
NewCalls(last, calls) ==
  LET from == <<last>> \o calls
  IN Selected([i \in 1 .. Len(calls) |-> IF from[i] = calls[i] THEN 0 ELSE calls[i]], Calls)

LastOf(last, calls) == IF calls = <<>> THEN last ELSE calls[Len(calls)]

\* BUG: the incomplete line is not carried over.
AnsweredForgetting(cursor, end, parts) ==
  [offset |-> end, pending |-> <<>>, lastCall |-> LastOf(cursor.lastCall, LinesOf(parts))]

\* pollRun with the page up to end: the cursor moves there, whatever it was at by now.
Answered(cursor, end, parts) ==
  [offset |-> end, pending |-> Pending(parts), lastCall |-> LastOf(cursor.lastCall, LinesOf(parts))]

\* (The bound parts has TLC put them together once.)
PageArrives(p) ==
  /\ polls' = polls \ {p}
  /\ \E end \in p.least .. PageEnd(p.offset) :
       LET cursor == cursors[p.cursor]
           page   == [i \in 1 .. end - p.offset |-> Part(p.offset + i)]
       IN \E parts \in {cursor.pending \o page} :
            LET new == NewCalls(cursor.lastCall, LinesOf(parts))
            IN /\ cursors' = [cursors EXCEPT ![p.cursor] = Answered(cursor, end, parts)]
               /\ reported' = reported \cup Range(new)
               /\ told' = IF overlapping THEN <<>>
                          ELSE IF p.cursor = Len(cursors) THEN told \o new ELSE told
  /\ UNCHANGED <<written, active, tracked, drops, overlapping>>

\* The answer is not ok, or there is none: the cursor stays where it is.
PollDropped(p) ==
  /\ drops > 0 /\ drops' = drops - 1
  /\ polls' = polls \ {p}
  /\ UNCHANGED <<written, active, cursors, tracked, told, reported, overlapping>>

PollerNext ==
  \/ LogGrows \/ RunEnds
  \/ TrackRun \/ UntrackRun
  \/ Poll
  \/ \E p \in polls : PageArrives(p) \/ PollDropped(p)

(* The timer ticks on and answers come; nothing obliges the run to go on.  *)
PollerStep == Poll \/ \E p \in polls : PageArrives(p)

PollerSpec == PollerInit /\ [][PollerNext]_pollerVars /\ WF_pollerVars(PollerStep)

-----------------------------------------------------------------------------
PollerTypeOK ==
  /\ written \in 0 .. 2 * MaxCalls
  /\ active \in BOOLEAN
  /\ cursors \in Seq(Cursors)
  /\ tracked \in 0 .. Len(cursors)
  /\ polls \subseteq [id : 1 .. MaxPolls, cursor : 1 .. Len(cursors),
                     offset : 0 .. 2 * MaxCalls, least : 0 .. 2 * MaxCalls]
  /\ drops \in 0 .. MaxDrops
  /\ told \in Seq(Calls)
  /\ reported \subseteq Calls
  /\ overlapping \in BOOLEAN

\* From when the run is tracked on, and as long as no poll overtakes another, its calls are
\* reported once each, in the order of the log, however the pages cut its lines, whatever answers
\* are dropped and whenever those of an earlier cursor of the run come
\* (tool-activity-poller.ts:146-155).
CallsToldInOrder == ~ overlapping => \A i \in 1 .. Len(told) : told[i] = i

\* ... and every call of the log of a run that stays tracked comes to be reported.
CallsReported ==
  \A c \in Calls : written >= 2 * c /\ tracked # 0 => c \in reported \/ overlapping

CallsComeReported == <>[]CallsReported

\* Violated by the code: the same however long an answer takes
\* (tool-activity-poller.ts:26, "forwards each newly-seen tool call").
CallsNeverLost ==
  \A c \in Calls : (written >= 2 * c /\ tracked # 0) ~> (c \in reported \/ tracked = 0)
=============================================================================
