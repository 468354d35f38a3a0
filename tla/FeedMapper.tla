----------------------------- MODULE FeedMapper -----------------------------
(***************************************************************************)
(* PluginFeedMapper (plugins/paperclip/src/feed-mapper.ts): the translator *)
(* from bridge events and snapshots to plugin feed operations.             *)
(*                                                                         *)
(* The mapper keeps one AgentFeedState per agent and every handler reads   *)
(* and writes the state of one agent at a time, so each handler is given   *)
(* here as an operator from that agent's state to a cell: the next state   *)
(* and the operations it returns.  A handler returns at most one operation *)
(* of each kind per agent, always in the order remove or declare, assign,  *)
(* activity, status; the returned operations of one agent are therefore a  *)
(* record with one optional field per kind, a patch.  dialogLines carry no *)
(* state and are left out.                                                 *)
(***************************************************************************)
EXTENDS Naturals

CONSTANTS
  Names,      \* display names the host gives to agents
  IdName,     \* the agent id, used as a name while no better one is known
  Chars,      \* catalog character ids
  Seats,      \* (palette, hueShift) pairs, the seat of a declaration
  None        \* an absent (undefined or null) value

\* What setAppearances records for an agent.
Looks == [name : Names, char : Chars, seat : Seats]
Declarations == [name : Names \cup {IdName}, seat : Seats \cup {None}]

\* status and awaitingInput in one value: an agent is "awaiting" when its
\* status is waiting and awaitingInput is set.  pushStatus compares the pair.
Statuses == {"active", "waiting", "awaiting"}
Captions == {"task", "tool", "clear"}

ASSUME NoneIsNew ==
  /\ None \notin Names \cup {IdName} \cup Chars \cup Seats
  /\ None \notin Looks \cup Declarations \cup Statuses \cup Captions

AgentFeedState ==
  [declared    : Declarations \cup {None},
   char        : Chars \cup {None},
   status      : Statuses \cup {None},
   captionOpen : BOOLEAN,
   runs        : Nat]

Patches ==
  [remove   : BOOLEAN,
   declare  : Declarations \cup {None},
   char     : Chars \cup {None},
   activity : Captions \cup {None},
   status   : Statuses \cup {None}]

\* An agent without an entry in the map is one with the state ensureState makes.
Fresh == [declared |-> None, char |-> None, status |-> None,
          captionOpen |-> FALSE, runs |-> 0]

NoOps == [remove |-> FALSE, declare |-> None, char |-> None,
          activity |-> None, status |-> None]

Cell(s) == [s |-> s, p |-> NoOps]

-----------------------------------------------------------------------------
(* The private methods, each from a cell to a cell. *)

NameOf(look) == IF look = None THEN IdName ELSE look.name
SeatOf(look) == IF look = None THEN None ELSE look.seat

Declare(c, name, look) ==
  LET d == [name |-> name, seat |-> SeatOf(look)]
  IN  [c EXCEPT !.s.declared = d, !.p.declare = d]

DeclareIfUnknown(c, name, look) ==
  IF c.s.declared # None THEN c ELSE Declare(c, name, look)

PushStatus(c, status) ==
  IF c.s.status = status THEN c
  ELSE [c EXCEPT !.s.status = status, !.p.status = status]

OpenCaption(c)  == [c EXCEPT !.s.captionOpen = TRUE,  !.p.activity = "task"]
CloseCaption(c) == [c EXCEPT !.s.captionOpen = FALSE, !.p.activity = "clear"]

\* Open caption or active status: what a falling edge has to take back.
ShowsWork(c) == c.s.captionOpen \/ c.s.status = "active"

\* BUG: takes back what was never pushed.
FallingEdgeUnguarded(c) == PushStatus(CloseCaption(c), "waiting")

FallingEdge(c) ==
  IF ShowsWork(c) THEN PushStatus(CloseCaption(c), "waiting") ELSE c

-----------------------------------------------------------------------------
(* The handlers. *)

\* issue.checked_out: the rising edge, without touching the run counter.
MapCheckedOut(s, look) ==
  LET known == DeclareIfUnknown(Cell(s), NameOf(look), look)
  IN  IF s.runs = 0 /\ ~s.captionOpen
      THEN PushStatus(OpenCaption(known), "active")
      ELSE known

\* agent.run.started: the same edge, and one more active run.
MapRunStarted(s, look) == [MapCheckedOut(s, look) EXCEPT !.s.runs = @ + 1]

\* BUG: counts a run it never saw start below zero.
MapRunEndedUnguarded(s) ==
  LET c == Cell([s EXCEPT !.runs = @ - 1])
  IN  IF c.s.runs = 0 THEN FallingEdge(c) ELSE c

\* agent.run.finished, failed or cancelled.
MapRunEnded(s) ==
  LET c == Cell([s EXCEPT !.runs = IF @ > 0 THEN @ - 1 ELSE 0])
  IN  IF c.s.runs = 0 THEN FallingEdge(c) ELSE c

\* BUG: leaves the caption open.
MapHumanWaitCaptioned(s, look) ==
  PushStatus(DeclareIfUnknown(Cell(s), NameOf(look), look), "awaiting")

\* A human question on the agent's issue, or a pending approval of its.
MapHumanWait(s, look) ==
  LET known == DeclareIfUnknown(Cell(s), NameOf(look), look)
  IN  PushStatus([known EXCEPT !.s.captionOpen = FALSE], "awaiting")

\* agent.created and issue.assignment_wakeup_requested.
MapFirstSight(s, name, look) ==
  LET known == DeclareIfUnknown(Cell(s), name, look)
  IN  IF s.status = None THEN PushStatus(known, "waiting") ELSE known

\* BUG: removes the character and remembers the agent.
MapOfflineRemembering(s) ==
  [s |-> s, p |-> [NoOps EXCEPT !.remove = s.declared # None]]

\* agent.status_changed to an offline status: the entry goes, with its
\* appearance, but only if the mapper itself declared the agent.
MapOffline(s) ==
  IF s.declared = None THEN Cell(s)
  ELSE [s |-> Fresh, p |-> [NoOps EXCEPT !.remove = TRUE]]

MapToolActivity(s, look) ==
  [DeclareIfUnknown(Cell(s), NameOf(look), look) EXCEPT !.p.activity = "tool"]

\* One agent of mapSnapshot, listed with this name and this many active runs.
\* agent.status is not read.
MapSnapshotAgent(s, look, hostName, runs) ==
  LET name  == IF look = None THEN hostName ELSE look.name
      known == DeclareIfUnknown(Cell(s), name, look)
      named == IF known.s.declared.name = name THEN known
               ELSE Declare(known, name, look)
      risen  == PushStatus(IF s.captionOpen THEN named ELSE OpenCaption(named), "active")
      edge   == IF runs > 0 THEN risen
                ELSE IF s.status = None THEN PushStatus(named, "waiting")
                ELSE FallingEdge(named)
  IN  [edge EXCEPT !.s.runs = runs]

\* One entry of setAppearances.  The declaration goes out but, unlike in
\* declare, is not recorded in the state.
MapAppearance(s, look) ==
  LET d == [name |-> look.name, seat |-> look.seat]
      seated == IF s.declared = d THEN Cell(s)
                ELSE [Cell(s) EXCEPT !.p.declare = d]
  IN  IF s.char = look.char THEN seated
      ELSE [seated EXCEPT !.s.char = look.char, !.p.char = look.char]

-----------------------------------------------------------------------------
(* The surface that applies a patch.  It is the host of the Pixel Agents   *)
(* server, outside this repository: declareAgents is an upsert by key,     *)
(* removeAgents drops the character, and an operation on an agent that is  *)
(* not declared has nothing to act on.                                     *)

Characters ==
  [decl : Declarations, char : Chars \cup {None},
   caption : {"task", "tool", None}, status : Statuses \cup {None}]

ASSUME NoneIsNoCharacter == None \notin Characters

NewCharacter(d) == [decl |-> d, char |-> None, caption |-> None, status |-> None]

\* The character after the removal or the declaration of a patch.
Seated(ch, p) ==
  IF p.remove THEN None
  ELSE IF p.declare = None THEN ch
  ELSE IF ch = None THEN NewCharacter(p.declare)
  ELSE [ch EXCEPT !.decl = p.declare]

Over(old, new) == IF new = None THEN old ELSE new
Recaption(old, activity) == IF activity = "clear" THEN None ELSE Over(old, activity)

Apply(ch, p) ==
  LET c == Seated(ch, p)
  IN  IF c = None THEN None
      ELSE [c EXCEPT !.char    = Over(@, p.char),
                     !.caption = Recaption(@, p.activity),
                     !.status  = Over(@, p.status)]

\* A patch with something to say about a character that must already exist.
Addresses(p) == p.char # None \/ p.activity # None \/ p.status # None

-----------------------------------------------------------------------------
(* The run-edge flags of an agent's state never contradict each other: the *)
(* guards of the rising and falling edges rely on it.                      *)
EdgesConsistent(s) ==
  /\ s.captionOpen <=> s.status = "active"
  /\ s.runs > 0 => s.status # None
  /\ s.status # None => s.declared # None

(* The state the mapper keeps for an agent and the character shown for it  *)
(* agree in every field the mapper diffs against.                          *)
Agrees(s, ch) ==
  /\ s.declared # None => ch # None
  /\ s.status # None => ch # None /\ ch.status = s.status
  /\ s.char # None => ch # None /\ ch.char = s.char
  /\ s.captionOpen => ch # None /\ ch.caption # None
=============================================================================
