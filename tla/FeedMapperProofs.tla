-------------------------- MODULE FeedMapperProofs --------------------------
(***************************************************************************)
(* The handlers of the feed mapper, one lemma each, for any sets of names, *)
(* characters and seats.                                                   *)
(*                                                                         *)
(* A handler touches one agent, so the argument is about one pair: an      *)
(* agent's state and its character on the surface.  Sound is the invariant *)
(* of that pair.  The lemma of a handler shows that the cell it returns,   *)
(* once its patch is applied, is sound again and addresses nothing that is *)
(* not on the surface; FeedMirrorProofs and FeedPipelineProofs take it     *)
(* from there.                                                             *)
(***************************************************************************)
EXTENDS FeedMapper, TLAPS

Sound(s, ch) ==
  /\ s \in AgentFeedState
  /\ ch \in Characters \cup {None}
  /\ EdgesConsistent(s)
  /\ Agrees(s, ch)

Cells == [s : AgentFeedState, p : Patches]

(* A handler's cell is sound if it leaves a sound pair behind and its patch *)
(* says nothing of a character that is not there.                          *)
SoundCell(ch, c) ==
  /\ c \in Cells
  /\ Addresses(c.p) => Seated(ch, c.p) # None
  /\ Sound(c.s, Apply(ch, c.p))

-----------------------------------------------------------------------------
(* A patch of the right type takes a character to a character. *)
LEMMA SeatedType ==
  ASSUME NEW ch \in Characters \cup {None}, NEW p \in Patches
  PROVE  Seated(ch, p) \in Characters \cup {None}
  BY DEF Seated, NewCharacter, Characters, Patches

LEMMA DeclareCell ==
  ASSUME NEW c \in Cells, NEW name \in Names \cup {IdName}, NEW look \in Looks \cup {None}
  PROVE  LET d == Declare(c, name, look)
         IN  /\ d \in Cells
             /\ d.s.declared # None
             /\ d.p.declare # None
             /\ d.s = [c.s EXCEPT !.declared = d.s.declared]
             /\ d.p = [c.p EXCEPT !.declare = d.p.declare]
<1> DEFINE decl == [name |-> name, seat |-> SeatOf(look)]
<1>1. decl \in Declarations
  BY NoneIsNew DEF Declarations, SeatOf, Looks
<1>2. decl # None
  BY <1>1, NoneIsNew
<1> QED
  BY <1>1, <1>2 DEF Declare, Cells, AgentFeedState, Patches

LEMMA DeclareIfUnknownCell ==
  ASSUME NEW c \in Cells, NEW name \in Names \cup {IdName}, NEW look \in Looks \cup {None}
  PROVE  LET d == DeclareIfUnknown(c, name, look)
         IN  /\ d \in Cells
             /\ d.s.declared # None
             /\ d.s = [c.s EXCEPT !.declared = d.s.declared]
             /\ d.p = [c.p EXCEPT !.declare = d.p.declare]
             /\ c.s.declared = None => d.p.declare # None
             /\ c.s.declared # None => d = c
<1>1. CASE c.s.declared = None
  BY <1>1, DeclareCell DEF DeclareIfUnknown
<1>2. CASE c.s.declared # None
  BY <1>2 DEF DeclareIfUnknown, Cells, AgentFeedState, Patches
<1> QED
  BY <1>1, <1>2

LEMMA PushStatusCell ==
  ASSUME NEW c \in Cells, NEW status \in Statuses
  PROVE  LET d == PushStatus(c, status)
         IN  /\ d \in Cells
             /\ d.s = [c.s EXCEPT !.status = status]
             /\ d.p = [c.p EXCEPT !.status = IF c.s.status = status THEN @ ELSE status]
<1>1. /\ [c.s EXCEPT !.status = status] \in AgentFeedState
      /\ [c.p EXCEPT !.status = status] \in Patches
      /\ c.s \in AgentFeedState /\ c.p \in Patches
      /\ c = [s |-> c.s, p |-> c.p]
  BY DEF Cells, AgentFeedState, Patches
<1>2. CASE c.s.status = status
  BY <1>1, <1>2 DEF PushStatus, Cells, AgentFeedState, Patches
<1>3. CASE c.s.status # status
  BY <1>1, <1>3 DEF PushStatus, Cells
<1> QED
  BY <1>2, <1>3

LEMMA CaptionCell ==
  ASSUME NEW c \in Cells
  PROVE  /\ OpenCaption(c) \in Cells
         /\ OpenCaption(c).s = [c.s EXCEPT !.captionOpen = TRUE]
         /\ OpenCaption(c).p = [c.p EXCEPT !.activity = "task"]
         /\ CloseCaption(c) \in Cells
         /\ CloseCaption(c).s = [c.s EXCEPT !.captionOpen = FALSE]
         /\ CloseCaption(c).p = [c.p EXCEPT !.activity = "clear"]
  BY DEF OpenCaption, CloseCaption, Cells, AgentFeedState, Patches, Captions

LEMMA FreshCell ==
  ASSUME NEW s \in AgentFeedState
  PROVE  Cell(s) \in Cells /\ Cell(s).s = s /\ Cell(s).p = NoOps
  BY DEF Cell, Cells, NoOps, Patches

-----------------------------------------------------------------------------
(* What the surface shows after a patch, field by field. *)
LEMMA ApplyFields ==
  ASSUME NEW ch \in Characters \cup {None}, NEW p \in Patches, Seated(ch, p) # None
  PROVE  /\ Apply(ch, p) \in Characters
         /\ Apply(ch, p) # None
         /\ Apply(ch, p).char = Over(Seated(ch, p).char, p.char)
         /\ Apply(ch, p).status = Over(Seated(ch, p).status, p.status)
         /\ Apply(ch, p).caption = Recaption(Seated(ch, p).caption, p.activity)
<1> DEFINE c == Seated(ch, p)
<1>1. c \in Characters
  BY SeatedType
<1>2. Apply(ch, p) = [c EXCEPT !.char    = Over(c.char, p.char),
                               !.caption = Recaption(c.caption, p.activity),
                               !.status  = Over(c.status, p.status)]
  BY DEF Apply
<1>3. /\ Over(c.char, p.char) \in Chars \cup {None}
      /\ Recaption(c.caption, p.activity) \in {"task", "tool", None}
      /\ Over(c.status, p.status) \in Statuses \cup {None}
  BY <1>1, NoneIsNew DEF Over, Recaption, Characters, Patches, Captions
<1> HIDE DEF c
<1>4. /\ Apply(ch, p) \in Characters
      /\ Apply(ch, p).char = Over(c.char, p.char)
      /\ Apply(ch, p).status = Over(c.status, p.status)
      /\ Apply(ch, p).caption = Recaption(c.caption, p.activity)
  BY <1>1, <1>2, <1>3 DEF Characters
<1> QED
  BY <1>4, NoneIsNoCharacter DEF c

LEMMA ApplyAbsent ==
  ASSUME NEW ch \in Characters \cup {None}, NEW p \in Patches
  PROVE  /\ Apply(ch, p) = None <=> Seated(ch, p) = None
         /\ p.remove => Seated(ch, p) = None
         /\ ~p.remove /\ p.declare # None => Seated(ch, p) # None
         /\ ~p.remove /\ p.declare = None => Seated(ch, p) = ch
         /\ Apply(ch, NoOps) = ch
<1>1. Seated(ch, p) = None => Apply(ch, p) = None
  BY DEF Apply
<1>2. ~p.remove /\ p.declare # None => Seated(ch, p) # None
  BY NoneIsNoCharacter DEF Seated, NewCharacter, Characters, Patches
<1>3. p.remove => Seated(ch, p) = None
  BY DEF Seated, Patches
<1>4. ~p.remove /\ p.declare = None => Seated(ch, p) = ch
  BY DEF Seated, Patches
<1>5. CASE ch # None
  <2>1. ch \in Characters
    BY <1>5
  <2>2. Apply(ch, NoOps) = [ch EXCEPT !.char = ch.char, !.caption = ch.caption,
                                      !.status = ch.status]
    BY <1>5, NoneIsNew DEF Apply, Seated, NoOps, Over, Recaption, Captions
  <2> QED
    BY <1>1, <1>2, <1>3, <1>4, <2>1, <2>2, ApplyFields DEF Characters
<1>6. CASE ch = None
  BY <1>6, <1>1, <1>2, <1>3, <1>4, ApplyFields DEF Apply, Seated, NoOps
<1> QED
  BY <1>5, <1>6

-----------------------------------------------------------------------------
(* The edges.  Believed is what every handler may assume half-way: it has  *)
(* a cell of the right types whose state agrees with the surface, should   *)
(* the patch be applied as it is, and does not remove the character.       *)
Believed(ch, c) ==
  /\ c \in Cells
  /\ ~c.p.remove
  /\ Addresses(c.p) => Seated(ch, c.p) # None
  /\ Agrees(c.s, Apply(ch, c.p))

LEMMA BelievedDeclared ==
  ASSUME NEW s \in AgentFeedState, NEW ch \in Characters \cup {None}, Agrees(s, ch),
         NEW name \in Names \cup {IdName}, NEW look \in Looks \cup {None}
  PROVE  LET d == DeclareIfUnknown(Cell(s), name, look)
         IN  /\ Believed(ch, d)
             /\ d.s.declared # None
             /\ d.s = [s EXCEPT !.declared = d.s.declared]
<1> DEFINE d == DeclareIfUnknown(Cell(s), name, look)
<1>1. /\ d \in Cells
      /\ d.s.declared # None
      /\ d.s = [s EXCEPT !.declared = d.s.declared]
      /\ d.p = [NoOps EXCEPT !.declare = d.p.declare]
      /\ s.declared = None => d.p.declare # None
      /\ s.declared # None => d.p = NoOps
  BY FreshCell, DeclareIfUnknownCell
<1>2. d.p \in Patches /\ d.p.remove = FALSE /\ d.p.char = None /\ d.p.activity = None
      /\ d.p.status = None
  BY <1>1 DEF Cells, NoOps
<1>3. Seated(ch, d.p) # None
  BY <1>1, <1>2, ApplyAbsent DEF Agrees
<1>4. /\ Apply(ch, d.p) # None
      /\ Apply(ch, d.p).status = Seated(ch, d.p).status
      /\ Apply(ch, d.p).char = Seated(ch, d.p).char
      /\ Apply(ch, d.p).caption = Seated(ch, d.p).caption
  BY <1>2, <1>3, ApplyFields, NoneIsNew DEF Over, Recaption, Captions
<1>5. ch # None => /\ Seated(ch, d.p).status = ch.status
                   /\ Seated(ch, d.p).char = ch.char
                   /\ Seated(ch, d.p).caption = ch.caption
  BY <1>2, NoneIsNoCharacter DEF Seated, Characters
<1>6. /\ d.s.status = s.status
      /\ d.s.char = s.char
      /\ d.s.captionOpen = s.captionOpen
  BY <1>1 DEF AgentFeedState
<1>7. Agrees(d.s, Apply(ch, d.p))
  BY <1>4, <1>5, <1>6 DEF Agrees
<1> QED
  BY <1>1, <1>2, <1>3, <1>7 DEF Believed

\* A second declaration changes the seat and the name, nothing the state mirrors.
LEMMA RedeclaredBelieved ==
  ASSUME NEW ch \in Characters \cup {None}, NEW c \in Cells, NEW d \in Cells,
         Believed(ch, c), c.s.declared # None, d.p.declare # None,
         d.s = [c.s EXCEPT !.declared = d.s.declared],
         d.p = [c.p EXCEPT !.declare = d.p.declare]
  PROVE  Believed(ch, d)
<1>1. /\ c.p \in Patches /\ d.p \in Patches /\ ~c.p.remove /\ ~d.p.remove
      /\ d.p.char = c.p.char /\ d.p.status = c.p.status /\ d.p.activity = c.p.activity
  BY DEF Cells, Patches, Believed
<1>2. Seated(ch, c.p) # None /\ Seated(ch, d.p) # None
  BY <1>1, ApplyAbsent DEF Believed, Agrees
<1>3. /\ Seated(ch, d.p).char = Seated(ch, c.p).char
      /\ Seated(ch, d.p).status = Seated(ch, c.p).status
      /\ Seated(ch, d.p).caption = Seated(ch, c.p).caption
  BY <1>1, <1>2, NoneIsNoCharacter DEF Seated, NewCharacter, Characters, Patches
<1>4. /\ Apply(ch, d.p) # None
      /\ Apply(ch, d.p).char = Apply(ch, c.p).char
      /\ Apply(ch, d.p).status = Apply(ch, c.p).status
      /\ Apply(ch, d.p).caption = Apply(ch, c.p).caption
  BY <1>1, <1>2, <1>3, ApplyFields
<1>5. d.s.status = c.s.status /\ d.s.char = c.s.char /\ d.s.captionOpen = c.s.captionOpen
  BY DEF Cells, AgentFeedState
<1> QED
  BY <1>1, <1>2, <1>4, <1>5 DEF Believed, Agrees

\* The three ways a declared agent's cell goes on keep the agreement.
LEMMA PushStatusBelieved ==
  ASSUME NEW ch \in Characters \cup {None}, NEW c \in Cells, NEW status \in Statuses,
         Believed(ch, c), c.s.declared # None
  PROVE  /\ Believed(ch, PushStatus(c, status))
         /\ PushStatus(c, status).s = [c.s EXCEPT !.status = status]
<1> DEFINE d == PushStatus(c, status)
<1>1. /\ d \in Cells
      /\ d.s = [c.s EXCEPT !.status = status]
      /\ d.p = [c.p EXCEPT !.status = IF c.s.status = status THEN @ ELSE status]
  BY PushStatusCell
<1> HIDE DEF d
<1>2. Seated(ch, d.p) = Seated(ch, c.p) /\ ~d.p.remove
  BY <1>1 DEF Seated, Cells, Patches, Believed
<1>3. Seated(ch, c.p) # None
  BY ApplyAbsent DEF Believed, Agrees, Cells
<1>4. /\ Apply(ch, d.p) # None
      /\ Apply(ch, d.p).char = Apply(ch, c.p).char
      /\ Apply(ch, d.p).caption = Apply(ch, c.p).caption
  BY <1>1, <1>2, <1>3, ApplyFields DEF Cells, Patches
<1>5. Apply(ch, d.p).status = status
  BY <1>1, <1>2, <1>3, ApplyFields, NoneIsNew
  DEF Over, Cells, Patches, Believed, Agrees
<1>6. Agrees(d.s, Apply(ch, d.p))
  BY <1>1, <1>4, <1>5 DEF Agrees, Believed, Cells, AgentFeedState
<1> QED
  BY <1>1, <1>2, <1>3, <1>6 DEF Believed, d

LEMMA OpenCaptionBelieved ==
  ASSUME NEW ch \in Characters \cup {None}, NEW c \in Cells,
         Believed(ch, c), c.s.declared # None
  PROVE  /\ Believed(ch, OpenCaption(c))
         /\ OpenCaption(c).s = [c.s EXCEPT !.captionOpen = TRUE]
<1> DEFINE d == OpenCaption(c)
<1>1. /\ d \in Cells
      /\ d.s = [c.s EXCEPT !.captionOpen = TRUE]
      /\ d.p = [c.p EXCEPT !.activity = "task"]
  BY CaptionCell
<1> HIDE DEF d
<1>2. Seated(ch, d.p) = Seated(ch, c.p) /\ ~d.p.remove
  BY <1>1 DEF Seated, Cells, Patches, Believed
<1>3. Seated(ch, c.p) # None
  BY ApplyAbsent DEF Believed, Agrees, Cells
<1>4. /\ Apply(ch, d.p) # None
      /\ Apply(ch, d.p).char = Apply(ch, c.p).char
      /\ Apply(ch, d.p).status = Apply(ch, c.p).status
  BY <1>1, <1>2, <1>3, ApplyFields DEF Cells, Patches
<1>5. Apply(ch, d.p).caption # None
  <2>1. d.p.activity = "task" /\ d.p \in Patches
    BY <1>1 DEF Cells, Patches
  <2>2. Apply(ch, d.p).caption = Recaption(Seated(ch, d.p).caption, "task")
    BY <1>2, <1>3, <2>1, ApplyFields
  <2> QED
    BY <2>2, NoneIsNew DEF Over, Recaption, Captions
<1> QED
  BY <1>1, <1>2, <1>3, <1>4, <1>5 DEF Believed, Agrees, Cells, AgentFeedState, d

LEMMA CloseCaptionBelieved ==
  ASSUME NEW ch \in Characters \cup {None}, NEW c \in Cells,
         Believed(ch, c), c.s.declared # None
  PROVE  /\ Believed(ch, CloseCaption(c))
         /\ CloseCaption(c).s = [c.s EXCEPT !.captionOpen = FALSE]
<1> DEFINE d == CloseCaption(c)
<1>1. /\ d \in Cells
      /\ d.s = [c.s EXCEPT !.captionOpen = FALSE]
      /\ d.p = [c.p EXCEPT !.activity = "clear"]
  BY CaptionCell
<1> HIDE DEF d
<1>2. Seated(ch, d.p) = Seated(ch, c.p) /\ ~d.p.remove
  BY <1>1 DEF Seated, Cells, Patches, Believed
<1>3. Seated(ch, c.p) # None
  BY ApplyAbsent DEF Believed, Agrees, Cells
<1>4. /\ Apply(ch, d.p) # None
      /\ Apply(ch, d.p).char = Apply(ch, c.p).char
      /\ Apply(ch, d.p).status = Apply(ch, c.p).status
  BY <1>1, <1>2, <1>3, ApplyFields DEF Cells, Patches
<1> QED
  BY <1>1, <1>2, <1>3, <1>4 DEF Believed, Agrees, Cells, AgentFeedState, d

-----------------------------------------------------------------------------
(* Counting runs and deciding soundness at the end of a handler. *)
LEMMA RunsBelieved ==
  ASSUME NEW ch \in Characters \cup {None}, NEW c \in Cells, NEW n \in Nat, Believed(ch, c)
  PROVE  LET d == [c EXCEPT !.s.runs = n]
         IN  Believed(ch, d) /\ d.s = [c.s EXCEPT !.runs = n] /\ d.p = c.p
<1> DEFINE d == [c EXCEPT !.s.runs = n]
<1>1. d \in Cells /\ d.s = [c.s EXCEPT !.runs = n] /\ d.p = c.p
  BY DEF Cells, AgentFeedState
<1> HIDE DEF d
<1>2. Believed(ch, d)
  BY <1>1 DEF Believed, Agrees, Cells, AgentFeedState
<1> QED
  BY <1>1, <1>2 DEF d

LEMMA BelievedSound ==
  ASSUME NEW ch \in Characters \cup {None}, NEW c, Believed(ch, c), EdgesConsistent(c.s)
  PROVE  SoundCell(ch, c)
<1>1. c.s \in AgentFeedState /\ c.p \in Patches
  BY DEF Believed, Cells
<1>2. Apply(ch, c.p) \in Characters \cup {None}
  BY <1>1, ApplyAbsent, ApplyFields
<1> QED
  BY <1>1, <1>2 DEF Believed, SoundCell, Sound

-----------------------------------------------------------------------------
(* One lemma per handler: the cell it returns is sound. *)

\* What all handlers that declare the agent first have in hand afterwards.
LEMMA KnownBelieved ==
  ASSUME NEW s, NEW ch, Sound(s, ch), NEW look \in Looks \cup {None},
         NEW name \in Names \cup {IdName}
  PROVE  LET known == DeclareIfUnknown(Cell(s), name, look)
         IN  /\ Believed(ch, known)
             /\ known \in Cells
             /\ known.s.declared # None
             /\ known.s = [s EXCEPT !.declared = known.s.declared]
             /\ EdgesConsistent(known.s)
<1> DEFINE known == DeclareIfUnknown(Cell(s), name, look)
<1>1. /\ Believed(ch, known)
      /\ known.s.declared # None
      /\ known.s = [s EXCEPT !.declared = known.s.declared]
  BY BelievedDeclared DEF Sound
<1> HIDE DEF known
<1>2. EdgesConsistent(known.s)
  BY <1>1 DEF Sound, EdgesConsistent, AgentFeedState
<1> QED
  BY <1>1, <1>2 DEF known, Believed

LEMMA NameOfLook ==
  ASSUME NEW look \in Looks \cup {None}
  PROVE  NameOf(look) \in Names \cup {IdName}
  BY DEF NameOf, Looks

LEMMA CheckedOutSound ==
  ASSUME NEW s, NEW ch, Sound(s, ch), NEW look \in Looks \cup {None}
  PROVE  /\ Believed(ch, MapCheckedOut(s, look))
         /\ EdgesConsistent(MapCheckedOut(s, look).s)
         /\ MapCheckedOut(s, look).s.status # None
         /\ MapCheckedOut(s, look).s.runs = s.runs
<1> DEFINE known == DeclareIfUnknown(Cell(s), NameOf(look), look)
<1>1. /\ Believed(ch, known)
      /\ known \in Cells
      /\ known.s.declared # None
      /\ known.s = [s EXCEPT !.declared = known.s.declared]
      /\ EdgesConsistent(known.s)
  BY NameOfLook, KnownBelieved, Zenon
<1> HIDE DEF known
<1>2. CASE s.runs = 0 /\ ~s.captionOpen
  <2> DEFINE open == OpenCaption(known)
             edge == PushStatus(open, "active")
  <2>1. /\ Believed(ch, open)
        /\ open.s = [known.s EXCEPT !.captionOpen = TRUE]
    BY <1>1, OpenCaptionBelieved DEF Sound
  <2>2. open \in Cells /\ open.s.declared # None
    BY <1>1, <2>1 DEF Believed, Cells, AgentFeedState
  <2> HIDE DEF open
  <2>3. /\ Believed(ch, edge)
        /\ edge.s = [open.s EXCEPT !.status = "active"]
    BY <2>1, <2>2, PushStatusBelieved DEF Sound, Statuses
  <2>4. MapCheckedOut(s, look) = edge
    BY <1>2 DEF MapCheckedOut, known, open
  <2> HIDE DEF edge
  <2>5. /\ EdgesConsistent(edge.s)
        /\ edge.s.status # None
        /\ edge.s.runs = s.runs
    BY <1>1, <2>1, <2>2, <2>3, NoneIsNew
    DEF EdgesConsistent, Sound, Cells, AgentFeedState, Statuses
  <2> QED
    BY <2>3, <2>4, <2>5
<1>3. CASE ~(s.runs = 0 /\ ~s.captionOpen)
  <2>1. MapCheckedOut(s, look) = known
    BY <1>3 DEF MapCheckedOut, known
  <2>2. known.s.status # None /\ known.s.runs = s.runs
    BY <1>1, <1>3, NoneIsNew DEF Sound, EdgesConsistent, AgentFeedState, Statuses
  <2> QED
    BY <1>1, <2>1, <2>2
<1> QED
  BY <1>2, <1>3

LEMMA RunStartedSound ==
  ASSUME NEW s, NEW ch, Sound(s, ch), NEW look \in Looks \cup {None}
  PROVE  SoundCell(ch, MapRunStarted(s, look))
<1> DEFINE c == MapCheckedOut(s, look)
           d == MapRunStarted(s, look)
<1>1. Believed(ch, c) /\ EdgesConsistent(c.s) /\ c.s.status # None
  BY CheckedOutSound
<1>2. d = [c EXCEPT !.s.runs = c.s.runs + 1]
  BY DEF MapRunStarted
<1> HIDE DEF c, d
<1>3. c \in Cells /\ c.s.runs + 1 \in Nat
  BY <1>1 DEF Believed, Cells, AgentFeedState
<1>4. Believed(ch, d) /\ d.s = [c.s EXCEPT !.runs = c.s.runs + 1]
  BY <1>1, <1>2, <1>3, RunsBelieved DEF Sound
<1>5. EdgesConsistent(d.s)
  BY <1>1, <1>3, <1>4 DEF EdgesConsistent, Cells, AgentFeedState
<1> QED
  BY <1>4, <1>5, BelievedSound DEF Sound, d

LEMMA HumanWaitSound ==
  ASSUME NEW s, NEW ch, Sound(s, ch), NEW look \in Looks \cup {None}
  PROVE  SoundCell(ch, MapHumanWait(s, look))
<1> DEFINE known == DeclareIfUnknown(Cell(s), NameOf(look), look)
<1>1. /\ Believed(ch, known)
      /\ known \in Cells
      /\ known.s.declared # None
      /\ known.s = [s EXCEPT !.declared = known.s.declared]
      /\ EdgesConsistent(known.s)
  BY NameOfLook, KnownBelieved, Zenon
<1> DEFINE shut == [known EXCEPT !.s.captionOpen = FALSE]
           d == PushStatus(shut, "awaiting")
<1>2. MapHumanWait(s, look) = d
  BY DEF MapHumanWait
<1> HIDE DEF known
<1>3. /\ shut \in Cells
      /\ shut.p = known.p
      /\ shut.s = [known.s EXCEPT !.captionOpen = FALSE]
      /\ shut.s.declared # None
  BY <1>1 DEF Cells, AgentFeedState
<1> HIDE DEF shut
<1>4. Believed(ch, shut)
  BY <1>1, <1>3 DEF Believed, Agrees, Cells, AgentFeedState
<1>5. Believed(ch, d) /\ d.s = [shut.s EXCEPT !.status = "awaiting"]
  BY <1>3, <1>4, PushStatusBelieved DEF Sound, Statuses
<1> HIDE DEF d
<1>6. EdgesConsistent(d.s)
  BY <1>1, <1>3, <1>5, NoneIsNew DEF EdgesConsistent, Cells, AgentFeedState, Statuses
<1> QED
  BY <1>2, <1>5, <1>6, BelievedSound DEF Sound

LEMMA FirstSightSound ==
  ASSUME NEW s, NEW ch, Sound(s, ch), NEW look \in Looks \cup {None},
         NEW name \in Names \cup {IdName}
  PROVE  SoundCell(ch, MapFirstSight(s, name, look))
<1> DEFINE known == DeclareIfUnknown(Cell(s), name, look)
           d == PushStatus(known, "waiting")
<1>1. /\ Believed(ch, known)
      /\ known \in Cells
      /\ known.s.declared # None
      /\ known.s = [s EXCEPT !.declared = known.s.declared]
      /\ EdgesConsistent(known.s)
  BY KnownBelieved
<1> HIDE DEF known
<1>2. CASE s.status = None
  <2>1. Believed(ch, d) /\ d.s = [known.s EXCEPT !.status = "waiting"]
    BY <1>1, PushStatusBelieved DEF Sound, Statuses
  <2>2. MapFirstSight(s, name, look) = d
    BY <1>2 DEF MapFirstSight, known
  <2> HIDE DEF d
  <2>3. EdgesConsistent(d.s)
    BY <1>1, <1>2, <2>1, NoneIsNew DEF EdgesConsistent, Cells, AgentFeedState, Statuses
  <2> QED
    BY <2>1, <2>2, <2>3, BelievedSound DEF Sound
<1>3. CASE s.status # None
  <2>1. MapFirstSight(s, name, look) = known
    BY <1>3 DEF MapFirstSight, known
  <2> QED
    BY <1>1, <2>1, BelievedSound DEF Sound
<1> QED
  BY <1>2, <1>3

\* The falling edge, which the ends of runs and snapshots share.
LEMMA FallingEdgeBelieved ==
  ASSUME NEW ch \in Characters \cup {None}, NEW c \in Cells,
         Believed(ch, c), c.s.declared # None
  PROVE  LET d == PushStatus(CloseCaption(c), "waiting")
         IN  /\ Believed(ch, d)
             /\ d.s = [c.s EXCEPT !.captionOpen = FALSE, !.status = "waiting"]
             /\ EdgesConsistent(d.s)
<1> DEFINE shut == CloseCaption(c)
           d == PushStatus(shut, "waiting")
<1>1. Believed(ch, shut) /\ shut.s = [c.s EXCEPT !.captionOpen = FALSE]
  BY CloseCaptionBelieved
<1>2. shut \in Cells /\ shut.s.declared # None
  BY <1>1 DEF Believed, Cells, AgentFeedState
<1> HIDE DEF shut
<1>3. Believed(ch, d) /\ d.s = [shut.s EXCEPT !.status = "waiting"]
  BY <1>1, <1>2, PushStatusBelieved DEF Statuses
<1> HIDE DEF d
<1>4. d.s = [c.s EXCEPT !.captionOpen = FALSE, !.status = "waiting"]
  BY <1>1, <1>3 DEF Cells, AgentFeedState
<1>5. EdgesConsistent(d.s)
  BY <1>4, NoneIsNew DEF EdgesConsistent, Cells, AgentFeedState, Statuses
<1> QED
  BY <1>3, <1>4, <1>5 DEF d, shut

LEMMA RunEndedSound ==
  ASSUME NEW s, NEW ch, Sound(s, ch)
  PROVE  SoundCell(ch, MapRunEnded(s))
<1> DEFINE n == IF s.runs > 0 THEN s.runs - 1 ELSE 0
           c == Cell([s EXCEPT !.runs = n])
<1>1. n \in Nat /\ (n > 0 => s.runs > 0)
  BY DEF Sound, AgentFeedState
<1> HIDE DEF n
<1>2. /\ c \in Cells
      /\ c.s = [s EXCEPT !.runs = n]
      /\ c.p = NoOps
  BY <1>1, FreshCell DEF Sound, AgentFeedState
<1> HIDE DEF c
<1>3. Believed(ch, c)
  <2>1. NoOps \in Patches /\ ~NoOps.remove
    BY DEF NoOps, Patches
  <2>2. Apply(ch, c.p) = ch
    BY <1>2, <2>1, ApplyAbsent DEF Sound
  <2>3. Agrees(c.s, ch)
    BY <1>2 DEF Sound, Agrees, AgentFeedState
  <2> QED
    BY <1>2, <2>1, <2>2, <2>3 DEF Believed, Addresses, NoOps
<1>4. EdgesConsistent(c.s)
  BY <1>1, <1>2 DEF Sound, EdgesConsistent, AgentFeedState
<1>5. CASE c.s.runs = 0 /\ ShowsWork(c)
  <2> DEFINE d == PushStatus(CloseCaption(c), "waiting")
  <2>1. c.s.declared # None
    BY <1>4, <1>5, NoneIsNew DEF EdgesConsistent, ShowsWork, Statuses
  <2>2. Believed(ch, d) /\ EdgesConsistent(d.s)
    BY <1>2, <1>3, <2>1, FallingEdgeBelieved DEF Sound
  <2>3. MapRunEnded(s) = d
    BY <1>5 DEF MapRunEnded, FallingEdge, c, n
  <2> QED
    BY <2>2, <2>3, BelievedSound DEF Sound
<1>6. CASE ~(c.s.runs = 0 /\ ShowsWork(c))
  <2>1. MapRunEnded(s) = c
    BY <1>6 DEF MapRunEnded, FallingEdge, c, n
  <2> QED
    BY <1>3, <1>4, <2>1, BelievedSound DEF Sound
<1> QED
  BY <1>5, <1>6

LEMMA OfflineSound ==
  ASSUME NEW s, NEW ch, Sound(s, ch)
  PROVE  SoundCell(ch, MapOffline(s))
<1>1. CASE s.declared = None
  <2>1. MapOffline(s).s = s /\ MapOffline(s).p = NoOps
    BY <1>1 DEF MapOffline, Cell
  <2>2. NoOps \in Patches
    BY DEF NoOps, Patches
  <2>3. MapOffline(s) \in Cells
    BY <1>1, FreshCell DEF MapOffline, Sound
  <2>4. ~Addresses(NoOps)
    BY DEF Addresses, NoOps
  <2> QED
    BY <2>1, <2>2, <2>3, <2>4, ApplyAbsent DEF SoundCell, Sound
<1>2. CASE s.declared # None
  <2> DEFINE p == [NoOps EXCEPT !.remove = TRUE]
  <2>1. MapOffline(s).s = Fresh /\ MapOffline(s).p = p
    BY <1>2 DEF MapOffline
  <2>2. p \in Patches /\ p.remove
    BY DEF NoOps, Patches
  <2>3. Apply(ch, p) = None
    BY <2>2, ApplyAbsent DEF Sound
  <2>4. Sound(Fresh, None)
    BY NoneIsNew DEF Sound, Fresh, AgentFeedState, EdgesConsistent, Agrees, Statuses
  <2> QED
    BY <1>2, <2>1, <2>2, <2>3, <2>4 DEF SoundCell, Sound, Cells, MapOffline, Addresses, NoOps
<1> QED
  BY <1>1, <1>2

LEMMA ToolActivitySound ==
  ASSUME NEW s, NEW ch, Sound(s, ch), NEW look \in Looks \cup {None}
  PROVE  SoundCell(ch, MapToolActivity(s, look))
<1> DEFINE known == DeclareIfUnknown(Cell(s), NameOf(look), look)
<1>1. /\ Believed(ch, known)
      /\ known \in Cells
      /\ known.s.declared # None
      /\ known.s = [s EXCEPT !.declared = known.s.declared]
      /\ EdgesConsistent(known.s)
  BY NameOfLook, KnownBelieved, Zenon
<1> DEFINE d == [known EXCEPT !.p.activity = "tool"]
<1>2. MapToolActivity(s, look) = d
  BY DEF MapToolActivity
<1> HIDE DEF known
<1>3. /\ d \in Cells
      /\ d.s = known.s
      /\ d.p = [known.p EXCEPT !.activity = "tool"]
  BY <1>1 DEF Cells, Patches, Captions
<1> HIDE DEF d
<1>4. Seated(ch, d.p) = Seated(ch, known.p) /\ ~d.p.remove
  BY <1>1, <1>3 DEF Seated, Cells, Patches, Believed
<1>5. Seated(ch, known.p) # None
  BY <1>1, ApplyAbsent DEF Believed, Agrees, Cells, Sound
<1>6. /\ Apply(ch, d.p) # None
      /\ Apply(ch, d.p).char = Apply(ch, known.p).char
      /\ Apply(ch, d.p).status = Apply(ch, known.p).status
  BY <1>1, <1>3, <1>4, <1>5, ApplyFields DEF Cells, Patches, Sound
<1>7. Apply(ch, d.p).caption # None
  <2>1. d.p.activity = "tool" /\ d.p \in Patches
    BY <1>1, <1>3 DEF Cells, Patches
  <2>2. Apply(ch, d.p).caption = Recaption(Seated(ch, d.p).caption, "tool")
    BY <1>4, <1>5, <2>1, ApplyFields DEF Sound
  <2> QED
    BY <2>2, NoneIsNew DEF Over, Recaption, Captions
<1>8. Believed(ch, d)
  BY <1>1, <1>3, <1>4, <1>5, <1>6, <1>7 DEF Believed, Agrees
<1> QED
  BY <1>1, <1>2, <1>3, <1>8, BelievedSound DEF Sound

\* setAppearances: the declaration goes to the surface but not to the state.
LEMMA AppearanceSound ==
  ASSUME NEW s, NEW ch, Sound(s, ch), NEW look \in Looks
  PROVE  SoundCell(ch, MapAppearance(s, look))
<1> DEFINE dec == [name |-> look.name, seat |-> look.seat]
           seated == IF s.declared = dec THEN Cell(s)
                     ELSE [Cell(s) EXCEPT !.p.declare = dec]
           d == MapAppearance(s, look)
<1>1. dec \in Declarations /\ dec # None
  BY NoneIsNew DEF Looks, Declarations
<1>2. /\ seated \in Cells
      /\ seated.s = s
      /\ ~seated.p.remove
      /\ seated.p = [NoOps EXCEPT !.declare = seated.p.declare]
      /\ s.declared # None \/ seated.p.declare # None
  <2>1. CASE s.declared = dec
    <3>1. seated = Cell(s) /\ s.declared # None
      BY <1>1, <2>1
    <3>2. NoOps = [NoOps EXCEPT !.declare = NoOps.declare] /\ ~NoOps.remove
      BY DEF NoOps
    <3> QED
      BY <3>1, <3>2, FreshCell DEF Sound
  <2>2. CASE s.declared # dec
    BY <1>1, <2>2 DEF Cell, Sound, NoOps, Cells, Patches, AgentFeedState
  <2> QED
    BY <2>1, <2>2
<1>3. d = IF s.char = look.char THEN seated
          ELSE [seated EXCEPT !.s.char = look.char, !.p.char = look.char]
  BY DEF MapAppearance
<1> HIDE DEF seated, d
<1>4. Seated(ch, seated.p) # None
  BY <1>2, ApplyAbsent DEF Sound, Agrees, Cells
<1>5. /\ d \in Cells
      /\ d.s = [s EXCEPT !.char = look.char]
      /\ d.p = [seated.p EXCEPT !.char = IF s.char = look.char THEN @ ELSE look.char]
  <2>1. /\ seated \in [s : AgentFeedState, p : Patches] /\ seated.s = s
        /\ s \in AgentFeedState /\ look.char \in Chars
    BY <1>2 DEF Cells, Looks, Sound
  <2>2. /\ [s EXCEPT !.char = look.char] \in AgentFeedState
        /\ [seated.p EXCEPT !.char = look.char] \in Patches
    BY <2>1 DEF AgentFeedState, Patches
  <2>3. CASE s.char = look.char
    BY <1>3, <2>1, <2>3 DEF Cells, AgentFeedState, Patches
  <2>4. CASE s.char # look.char
    BY <1>3, <2>1, <2>2, <2>4 DEF Cells
  <2> QED
    BY <2>3, <2>4
<1>6. Seated(ch, d.p) = Seated(ch, seated.p) /\ ~d.p.remove
  BY <1>2, <1>5 DEF Seated, Cells, Patches
<1>7. ch # None => /\ Seated(ch, d.p).status = ch.status
                   /\ Seated(ch, d.p).char = ch.char
                   /\ Seated(ch, d.p).caption = ch.caption
  BY <1>2, <1>6, NoneIsNoCharacter DEF Seated, Characters, Sound, Cells, Patches
<1>8. d.p \in Patches /\ d.p.activity = None /\ d.p.status = None
  BY <1>2, <1>5 DEF NoOps, Cells, Patches
<1>9. /\ Apply(ch, d.p) # None
      /\ Apply(ch, d.p).status = Seated(ch, d.p).status
      /\ Apply(ch, d.p).caption = Seated(ch, d.p).caption
      /\ Apply(ch, d.p).char = Over(Seated(ch, d.p).char, d.p.char)
  BY <1>4, <1>6, <1>8, ApplyFields, NoneIsNew DEF Over, Recaption, Sound, Captions
<1>10. Apply(ch, d.p).char = look.char
  <2>1. CASE s.char = look.char
    <3>1. d.p.char = None
      BY <1>2, <1>5, <2>1 DEF NoOps, Cells, Patches
    <3>2. s.char # None
      BY <2>1, NoneIsNew DEF Looks
    <3> QED
      BY <1>7, <1>9, <2>1, <3>1, <3>2 DEF Over, Sound, Agrees
  <2>2. CASE s.char # look.char
    <3>1. d.p.char = look.char
      BY <1>5, <2>2, <1>2 DEF Cells, Patches, Looks
    <3> QED
      BY <1>9, <3>1, NoneIsNew DEF Over, Looks
  <2> QED
    BY <2>1, <2>2
<1>11. Agrees(d.s, Apply(ch, d.p))
  BY <1>5, <1>7, <1>9, <1>10 DEF Agrees, Sound, AgentFeedState
<1>12. EdgesConsistent(d.s)
  BY <1>5 DEF Sound, EdgesConsistent, AgentFeedState
<1> QED
  BY <1>4, <1>5, <1>6, <1>11, <1>12, BelievedSound DEF Believed, Sound, d

\* One agent of a snapshot: declared, perhaps again under a better name, then
\* the edge its runs call for, then its run counter.
LEMMA SnapshotAgentSound ==
  ASSUME NEW s, NEW ch, Sound(s, ch), NEW look \in Looks \cup {None},
         NEW hostName \in Names, NEW runs \in Nat
  PROVE  SoundCell(ch, MapSnapshotAgent(s, look, hostName, runs))
<1> DEFINE name == IF look = None THEN hostName ELSE look.name
           known == DeclareIfUnknown(Cell(s), name, look)
           named == IF known.s.declared.name = name THEN known
                    ELSE Declare(known, name, look)
           risen == PushStatus(IF s.captionOpen THEN named ELSE OpenCaption(named),
                               "active")
           idle == PushStatus(named, "waiting")
           fallen == PushStatus(CloseCaption(named), "waiting")
<1>0. MapSnapshotAgent(s, look, hostName, runs)
        = [(IF runs > 0 THEN risen ELSE IF s.status = None THEN idle
            ELSE IF ShowsWork(named) THEN fallen ELSE named) EXCEPT !.s.runs = runs]
  BY DEF MapSnapshotAgent, FallingEdge
<1>1. name \in Names
  BY DEF Looks
<1> HIDE DEF name
<1>2. /\ Believed(ch, known)
      /\ known \in Cells
      /\ known.s.declared # None
      /\ known.s = [s EXCEPT !.declared = known.s.declared]
  BY <1>1, KnownBelieved
<1>3. /\ Believed(ch, named)
      /\ named \in Cells
      /\ named.s.declared # None
      /\ named.s = [s EXCEPT !.declared = named.s.declared]
  <2>1. CASE known.s.declared.name = name
    BY <1>2, <2>1
  <2>2. CASE known.s.declared.name # name
    <3>1. named = Declare(known, name, look)
      BY <2>2
    <3> HIDE DEF known, named
    <3>2. /\ named \in Cells
          /\ named.s.declared # None
          /\ named.p.declare # None
          /\ named.s = [known.s EXCEPT !.declared = named.s.declared]
          /\ named.p = [known.p EXCEPT !.declare = named.p.declare]
      BY <1>1, <1>2, <3>1, DeclareCell
    <3>3. Believed(ch, named)
      BY <1>2, <3>2, RedeclaredBelieved DEF Sound
    <3>4. named.s = [s EXCEPT !.declared = named.s.declared]
      BY <1>2, <3>2 DEF Cells, AgentFeedState, Sound
    <3> QED
      BY <3>2, <3>3, <3>4
  <2> QED
    BY <2>1, <2>2
<1> HIDE DEF known, named
<1>4. /\ named.s.status = s.status
      /\ named.s.captionOpen = s.captionOpen
      /\ named.s.char = s.char
  BY <1>3 DEF Sound, AgentFeedState
<1>5. ASSUME NEW edge \in Cells, Believed(ch, edge),
             edge.s.captionOpen <=> edge.s.status = "active",
             edge.s.status # None, edge.s.declared # None,
             MapSnapshotAgent(s, look, hostName, runs) = [edge EXCEPT !.s.runs = runs]
      PROVE  SoundCell(ch, MapSnapshotAgent(s, look, hostName, runs))
  <2> DEFINE d == [edge EXCEPT !.s.runs = runs]
  <2>1. Believed(ch, d) /\ d.s = [edge.s EXCEPT !.runs = runs]
    BY <1>5, RunsBelieved DEF Sound
  <2> HIDE DEF d
  <2>2. EdgesConsistent(d.s)
    BY <1>5, <2>1 DEF EdgesConsistent, Cells, AgentFeedState
  <2> QED
    BY <1>5, <2>1, <2>2, BelievedSound DEF Sound, d
<1>6. CASE runs > 0
  <2> DEFINE open == IF s.captionOpen THEN named ELSE OpenCaption(named)
  <2>1. /\ Believed(ch, open)
        /\ open.s = [named.s EXCEPT !.captionOpen = TRUE]
    BY <1>3, <1>4, OpenCaptionBelieved DEF Sound, Cells, AgentFeedState
  <2>2. open \in Cells /\ open.s.declared # None
    BY <1>3, <2>1 DEF Believed, Cells, AgentFeedState
  <2>3. risen = PushStatus(open, "active")
    OBVIOUS
  <2> HIDE DEF open, risen
  <2>4. Believed(ch, risen) /\ risen.s = [open.s EXCEPT !.status = "active"]
    BY <2>1, <2>2, <2>3, PushStatusBelieved DEF Sound, Statuses
  <2>5. /\ risen \in Cells
        /\ risen.s.captionOpen
        /\ risen.s.status = "active"
        /\ risen.s.declared # None
    BY <1>3, <2>1, <2>2, <2>4 DEF Believed, Cells, AgentFeedState
  <2>6. MapSnapshotAgent(s, look, hostName, runs) = [risen EXCEPT !.s.runs = runs]
    BY <1>0, <1>6
  <2> QED
    BY <1>5, <2>4, <2>5, <2>6, NoneIsNew DEF Statuses
<1>7. CASE ~(runs > 0) /\ s.status = None
  <2>1. Believed(ch, idle) /\ idle.s = [named.s EXCEPT !.status = "waiting"]
    BY <1>3, PushStatusBelieved DEF Sound, Statuses
  <2> HIDE DEF idle
  <2>2. /\ idle \in Cells
        /\ ~idle.s.captionOpen
        /\ idle.s.status = "waiting"
        /\ idle.s.declared # None
    BY <1>3, <1>4, <1>7, <2>1, NoneIsNew
    DEF Believed, Cells, AgentFeedState, Sound, EdgesConsistent, Statuses
  <2>3. MapSnapshotAgent(s, look, hostName, runs) = [idle EXCEPT !.s.runs = runs]
    BY <1>0, <1>7
  <2> QED
    BY <1>5, <2>1, <2>2, <2>3, NoneIsNew DEF Statuses
<1>8. CASE ~(runs > 0) /\ s.status # None /\ ShowsWork(named)
  <2>1. /\ Believed(ch, fallen)
        /\ fallen.s = [named.s EXCEPT !.captionOpen = FALSE, !.status = "waiting"]
    BY <1>3, FallingEdgeBelieved DEF Sound
  <2> HIDE DEF fallen
  <2>2. /\ fallen \in Cells
        /\ ~fallen.s.captionOpen
        /\ fallen.s.status = "waiting"
        /\ fallen.s.declared # None
    BY <1>3, <2>1 DEF Believed, Cells, AgentFeedState
  <2>3. MapSnapshotAgent(s, look, hostName, runs) = [fallen EXCEPT !.s.runs = runs]
    BY <1>0, <1>8
  <2> QED
    BY <1>5, <2>1, <2>2, <2>3, NoneIsNew DEF Statuses
<1>9. CASE ~(runs > 0) /\ s.status # None /\ ~ShowsWork(named)
  <2>1. MapSnapshotAgent(s, look, hostName, runs) = [named EXCEPT !.s.runs = runs]
    BY <1>0, <1>9
  <2> QED
    BY <1>3, <1>4, <1>5, <1>9, <2>1 DEF Sound, EdgesConsistent, ShowsWork
<1> QED
  BY <1>6, <1>7, <1>8, <1>9
=============================================================================
