-------------------------- MODULE FeedMirrorProofs --------------------------
(***************************************************************************)
(* The invariants of FeedMirror for any sets of agents, issues, names,     *)
(* characters and seats and any bound on the run counter: what             *)
(* FeedMapperProofs shows of one agent, taken agent by agent.              *)
(***************************************************************************)
EXTENDS FeedMirror, FeedMapperProofs

(* The inductive invariant and its three facts. *)
IInv ==
  /\ agents \in [Agents -> AgentFeedState]
  /\ appearances \in [Agents -> Looks \cup {None}]
  /\ issueAssignees \in [Issues -> Agents \cup {None}]
  /\ office \in [Agents -> Characters \cup {None}]
  /\ \A a \in Agents : Sound(agents[a], office[a])

LEMMA InitIInv == Init => IInv
<1> SUFFICES ASSUME Init PROVE IInv
  OBVIOUS
<1>1. Sound(Fresh, None)
  BY NoneIsNew DEF Sound, Fresh, AgentFeedState, EdgesConsistent, Agrees, Statuses
<1>2. Fresh \in AgentFeedState
  BY <1>1 DEF Sound
<1> QED
  BY <1>1, <1>2 DEF Init, IInv

LEMMA IInvImplies == IInv => TypeOK /\ RunEdgesConsistent /\ SurfaceAgrees
  BY DEF IInv, Sound, TypeOK, RunEdgesConsistent, SurfaceAgrees

\* An action that returns a sound cell for one agent keeps every agent sound.
LEMMA ReturnKeeps ==
  ASSUME IInv, NEW a \in Agents, NEW c, SoundCell(office[a], c), Return(a, c),
         appearances' \in [Agents -> Looks \cup {None}],
         issueAssignees' \in [Issues -> Agents \cup {None}]
  PROVE  IInv'
<1>1. /\ agents' = [agents EXCEPT ![a] = c.s]
      /\ office' = [office EXCEPT ![a] = Apply(office[a], c.p)]
  BY DEF Return
<1>2. Sound(c.s, Apply(office[a], c.p))
  BY DEF SoundCell
<1>3. c.s \in AgentFeedState /\ Apply(office[a], c.p) \in Characters \cup {None}
  BY <1>2 DEF Sound
<1>4. /\ agents' \in [Agents -> AgentFeedState]
      /\ office' \in [Agents -> Characters \cup {None}]
  BY <1>1, <1>3 DEF IInv
<1>5. \A b \in Agents : Sound(agents'[b], office'[b])
  BY <1>1, <1>2 DEF IInv
<1> QED
  BY <1>4, <1>5 DEF IInv

\* A snapshot touches each listed agent once.
LEMMA SnapshotKeeps ==
  ASSUME IInv, NEW listed \in SUBSET Agents, NEW hostName \in [Agents -> Names],
         NEW runs \in [Agents -> 0 .. MaxRuns],
         NEW assigned \in [Issues -> Agents \cup {None}],
         MapSnapshot(listed, hostName, runs, assigned)
  PROVE  IInv'
<1> DEFINE cell(a) == MapSnapshotAgent(agents[a], appearances[a], hostName[a], runs[a])
<1>1. \A a \in Agents : SoundCell(office[a], cell(a))
  <2>1. \A a \in Agents : runs[a] \in Nat
    BY MaxRunsIsPositive
  <2> QED
    BY <2>1, SnapshotAgentSound DEF IInv
<1>2. /\ agents' = [a \in Agents |-> IF a \in listed THEN cell(a).s ELSE agents[a]]
      /\ office' = [a \in Agents |-> IF a \in listed
                                     THEN Apply(office[a], cell(a).p) ELSE office[a]]
      /\ issueAssignees' = [i \in Issues |-> IF assigned[i] = None
                                             THEN issueAssignees[i] ELSE assigned[i]]
      /\ appearances' = appearances
  BY DEF MapSnapshot
<1> HIDE DEF cell
<1>3. \A a \in Agents : Sound(agents'[a], office'[a])
  BY <1>1, <1>2 DEF SoundCell, IInv
<1>4. /\ agents' \in [Agents -> AgentFeedState]
      /\ office' \in [Agents -> Characters \cup {None}]
  BY <1>2, <1>3 DEF Sound
<1>5. issueAssignees' \in [Issues -> Agents \cup {None}]
  BY <1>2 DEF IInv
<1> QED
  BY <1>2, <1>3, <1>4, <1>5 DEF IInv

LEMMA NextIInv == IInv /\ [Next]_vars => IInv'
<1> SUFFICES ASSUME IInv, [Next]_vars PROVE IInv'
  OBVIOUS
<1> USE DEF IInv
<1>1. CASE Reset
  <2>1. \A a \in Agents : Sound(Fresh, office[a])
    BY NoneIsNew DEF Sound, Fresh, AgentFeedState, EdgesConsistent, Agrees, Statuses
  <2>2. Agents # {} => Fresh \in AgentFeedState
    BY <2>1 DEF Sound
  <2> QED
    BY <1>1, <2>1, <2>2 DEF Reset
<1>2. CASE SnapshotOfAll
  BY <1>2, SnapshotKeeps DEF SnapshotOfAll
<1>3. ASSUME NEW a \in Agents, NEW look \in Looks, SetAppearance(a, look)
      PROVE  IInv'
  <2>1. appearances' \in [Agents -> Looks \cup {None}]
    BY <1>3 DEF SetAppearance
  <2>2. SoundCell(office[a], MapAppearance(agents[a], look))
    BY AppearanceSound
  <2> QED
    BY <1>3, <2>1, <2>2, ReturnKeeps DEF SetAppearance
<1>4. ASSUME NEW a \in Agents, EventOf(a)
      PROVE  IInv'
  <2>0. Sound(agents[a], office[a]) /\ appearances[a] \in Looks \cup {None}
    OBVIOUS
  <2>1. CASE StatusOffline(a)
    <3>1. appearances' \in [Agents -> Looks \cup {None}]
      BY <2>1 DEF StatusOffline
    <3> QED
      BY <2>0, <2>1, <3>1, OfflineSound, ReturnKeeps DEF StatusOffline
  <2>2. CASE CheckedOut(a)
    BY <2>0, <2>2, CheckedOutSound, BelievedSound, ReturnKeeps DEF CheckedOut
  <2>3. CASE RunStarted(a)
    BY <2>0, <2>3, RunStartedSound, ReturnKeeps DEF RunStarted
  <2>4. CASE RunEnded(a)
    BY <2>0, <2>4, RunEndedSound, ReturnKeeps DEF RunEnded
  <2>5. CASE ApprovalCreated(a)
    BY <2>0, <2>5, HumanWaitSound, ReturnKeeps DEF ApprovalCreated
  <2>6. ASSUME NEW name \in Names \cup {NameOf(appearances[a])}, AgentCreated(a, name)
        PROVE  IInv'
    <3>1. name \in Names \cup {IdName}
      BY <2>0, NameOfLook
    <3> QED
      BY <2>0, <2>6, <3>1, FirstSightSound, ReturnKeeps DEF AgentCreated
  <2>7. CASE AssignmentWakeup(a)
    BY <2>0, <2>7, NameOfLook, FirstSightSound, ReturnKeeps DEF AssignmentWakeup
  <2>8. CASE ToolActivity(a)
    BY <2>0, <2>8, ToolActivitySound, ReturnKeeps DEF ToolActivity
  <2> QED
    BY <1>4, <2>1, <2>2, <2>3, <2>4, <2>5, <2>6, <2>7, <2>8 DEF EventOf
<1>5. ASSUME NEW i \in Issues, NEW a \in Agents, IssueUpdated(i, a)
      PROVE  IInv'
  BY <1>5 DEF IssueUpdated
<1>6. ASSUME NEW i \in Issues, HumanQuestion(i)
      PROVE  IInv'
  <2> DEFINE a == issueAssignees[i]
  <2>1. a \in Agents
    BY <1>6 DEF HumanQuestion
  <2>2. /\ Return(a, MapHumanWait(agents[a], appearances[a]))
        /\ UNCHANGED <<appearances, issueAssignees>>
    BY <1>6 DEF HumanQuestion
  <2> HIDE DEF a
  <2>3. SoundCell(office[a], MapHumanWait(agents[a], appearances[a]))
    BY <2>1, HumanWaitSound
  <2> QED
    BY <2>1, <2>2, <2>3, ReturnKeeps
<1>7. CASE UNCHANGED vars
  BY <1>7 DEF vars
<1> QED
  BY <1>1, <1>2, <1>3, <1>4, <1>5, <1>6, <1>7 DEF Next

LEMMA SpecIInv == Spec => []IInv
  BY InitIInv, NextIInv, PTL DEF Spec

(* Every state of the mapper and of the surface is of its type. *)
THEOREM TypeCorrect == Spec => []TypeOK
  BY SpecIInv, IInvImplies, PTL

(* The caption flag, the pushed status, the run counter and the declaration *)
(* of an agent never contradict each other, whatever events come in         *)
(* whatever order (the run edges of mapEvent and mapSnapshot).              *)
THEOREM RunEdgesAlwaysConsistent == Spec => []RunEdgesConsistent
  BY SpecIInv, IInvImplies, PTL

(* A surface that receives every operation always shows what the mapper    *)
(* believes it has pushed, so the diffing of pushStatus, setAppearances    *)
(* and declareIfUnknown never suppresses a needed operation.               *)
THEOREM SurfaceAlwaysAgrees == Spec => []SurfaceAgrees
  BY SpecIInv, IInvImplies, PTL

(* Whatever handler runs next, it says nothing of a character that is not  *)
(* on the surface: every handler's cell is sound, and a sound cell         *)
(* addresses nobody who is absent (the guards of the falling edge, of      *)
(* removeAgents and of setAppearances in feed-mapper.ts).                  *)
LEMMA NothingAddressedToNobody == IInv => OperationsAddressed
<1> SUFFICES ASSUME IInv, NEW a \in Agents, NEW p \in NextPatches(a)
             PROVE  Addresses(p) => Seated(office[a], p) # None
  BY DEF OperationsAddressed
<1> DEFINE s == agents[a]
           look == appearances[a]
           ch == office[a]
<1>1. Sound(s, ch) /\ look \in Looks \cup {None}
  BY DEF IInv
<1> HIDE DEF s, look, ch
<1>2. CASE p = MapCheckedOut(s, look).p
  BY <1>1, <1>2, CheckedOutSound DEF Believed, ch
<1>3. CASE p \in {MapRunEnded(s).p, MapRunStarted(s, look).p, MapHumanWait(s, look).p,
                 MapToolActivity(s, look).p, MapFirstSight(s, NameOf(look), look).p}
  <2>1. /\ SoundCell(ch, MapRunEnded(s))
        /\ SoundCell(ch, MapRunStarted(s, look))
        /\ SoundCell(ch, MapHumanWait(s, look))
        /\ SoundCell(ch, MapToolActivity(s, look))
        /\ SoundCell(ch, MapFirstSight(s, NameOf(look), look))
    BY <1>1, RunEndedSound, RunStartedSound, HumanWaitSound, ToolActivitySound,
       FirstSightSound, NameOfLook
  <2> QED
    BY <1>3, <2>1 DEF SoundCell, ch
<1>4. ASSUME NEW l \in Looks, p = MapAppearance(s, l).p
      PROVE  Addresses(p) => Seated(ch, p) # None
  BY <1>1, <1>4, AppearanceSound DEF SoundCell
<1>5. ASSUME NEW n \in Names, NEW r \in 0 .. MaxRuns, p = MapSnapshotAgent(s, look, n, r).p
      PROVE  Addresses(p) => Seated(ch, p) # None
  <2>1. SoundCell(ch, MapSnapshotAgent(s, look, n, r))
    BY <1>1, SnapshotAgentSound, MaxRunsIsPositive
  <2> QED
    BY <1>5, <2>1 DEF SoundCell
<1> QED
  BY <1>2, <1>3, <1>4, <1>5 DEF NextPatches, s, look, ch

(* No handler of feed-mapper.ts ever returns an operation on a character   *)
(* the surface would not have once the declaration that goes with it, if   *)
(* any, is applied.                                                        *)
THEOREM OperationsAlwaysAddressed == Spec => []OperationsAddressed
  BY SpecIInv, NothingAddressedToNobody, PTL

-----------------------------------------------------------------------------
(* A wait on a human, handler by handler.  Consistent edges say that a     *)
(* waiting agent has no open caption and is not active, so neither falling *)
(* edge has anything to take back.                                         *)
Waits == {"awaiting", "active", None}

\* An agent's cell after declareIfUnknown and after a declaration under a name.
LEMMA KnownCell ==
  ASSUME NEW s \in AgentFeedState, NEW look \in Looks \cup {None},
         NEW name \in Names \cup {IdName}
  PROVE  LET known == DeclareIfUnknown(Cell(s), name, look)
             named == IF known.s.declared.name = name THEN known
                      ELSE Declare(known, name, look)
         IN  /\ known \in Cells
             /\ known.s = [s EXCEPT !.declared = known.s.declared]
             /\ named \in Cells
             /\ named.s = [s EXCEPT !.declared = named.s.declared]
<1> DEFINE c == Cell(s)
           known == DeclareIfUnknown(c, name, look)
           again == Declare(known, name, look)
<1>1. c \in Cells /\ c.s = s
  BY FreshCell
<1> HIDE DEF c
<1>2. /\ known \in Cells
      /\ known.s.declared # None
      /\ known.s = [s EXCEPT !.declared = known.s.declared]
      /\ known.p = [c.p EXCEPT !.declare = known.p.declare]
      /\ s.declared = None => known.p.declare # None
      /\ s.declared # None => known = c
  BY <1>1, DeclareIfUnknownCell
<1>0. again = Declare(known, name, look)
  OBVIOUS
<1> HIDE DEF known, again
<1>3. /\ again \in Cells
      /\ again.s.declared # None
      /\ again.p.declare # None
      /\ again.s = [known.s EXCEPT !.declared = again.s.declared]
      /\ again.p = [known.p EXCEPT !.declare = again.p.declare]
  BY <1>0, <1>2, DeclareCell
<1>4. again.s = [s EXCEPT !.declared = again.s.declared]
  BY <1>2, <1>3 DEF Cells, AgentFeedState
<1> QED
  BY <1>2, <1>3, <1>4 DEF again, known, c

LEMMA SnapshotKeepsWait ==
  ASSUME NEW s \in AgentFeedState, EdgesConsistent(s), s.status = "awaiting",
         NEW look \in Looks \cup {None}, NEW hostName \in Names, NEW runs \in Nat
  PROVE  MapSnapshotAgent(s, look, hostName, runs).s.status \in Waits
<1> DEFINE name == IF look = None THEN hostName ELSE look.name
           known == DeclareIfUnknown(Cell(s), name, look)
           named == IF known.s.declared.name = name THEN known
                    ELSE Declare(known, name, look)
           open == IF s.captionOpen THEN named ELSE OpenCaption(named)
           risen == PushStatus(open, "active")
           fallen == IF ShowsWork(named) THEN PushStatus(CloseCaption(named), "waiting")
                     ELSE named
<1>1. MapSnapshotAgent(s, look, hostName, runs)
        = [(IF runs > 0 THEN risen
            ELSE IF s.status = None THEN PushStatus(named, "waiting")
            ELSE fallen) EXCEPT !.s.runs = runs]
  BY DEF MapSnapshotAgent, FallingEdge
<1>2. name \in Names
  BY DEF Looks
<1> HIDE DEF name
<1>4. /\ known \in Cells
      /\ known.s = [s EXCEPT !.declared = known.s.declared]
      /\ named \in Cells
      /\ named.s = [s EXCEPT !.declared = named.s.declared]
  BY <1>2, KnownCell
<1> HIDE DEF known
<1> HIDE DEF named
<1>5. named.s.status = "awaiting" /\ ~named.s.captionOpen /\ ~s.captionOpen
  BY <1>4 DEF EdgesConsistent, AgentFeedState
<1>6. ~ShowsWork(named) /\ s.status # None
  BY <1>5, NoneIsNew DEF ShowsWork, Statuses
<1>7. CASE runs > 0
  <2>1. open \in Cells
    BY <1>4, <1>5, CaptionCell
  <2>2. risen \in Cells /\ risen.s = [open.s EXCEPT !.status = "active"]
    BY <2>1, PushStatusCell DEF Statuses
  <2> HIDE DEF risen
  <2>3. risen.s.status = "active"
    BY <2>1, <2>2 DEF Cells, AgentFeedState
  <2>4. MapSnapshotAgent(s, look, hostName, runs).s.status = "active"
    BY <1>1, <1>7, <2>2, <2>3 DEF Cells, AgentFeedState
  <2> QED
    BY <2>4 DEF Waits
<1>8. CASE ~(runs > 0)
  <2>1. MapSnapshotAgent(s, look, hostName, runs) = [named EXCEPT !.s.runs = runs]
    BY <1>1, <1>6, <1>8
  <2>2. MapSnapshotAgent(s, look, hostName, runs).s.status = "awaiting"
    BY <1>4, <1>5, <2>1 DEF Cells, AgentFeedState
  <2> QED
    BY <2>2 DEF Waits
<1> QED
  BY <1>7, <1>8

LEMMA EventKeepsWait ==
  ASSUME NEW s \in AgentFeedState, EdgesConsistent(s), s.status = "awaiting",
         NEW look \in Looks \cup {None}, NEW name \in Names \cup {IdName}
  PROVE  /\ MapCheckedOut(s, look).s.status \in Waits
         /\ MapRunStarted(s, look).s.status \in Waits
         /\ MapRunEnded(s).s.status \in Waits
         /\ MapHumanWait(s, look).s.status \in Waits
         /\ MapFirstSight(s, name, look).s.status \in Waits
         /\ MapOffline(s).s.status \in Waits
         /\ MapToolActivity(s, look).s.status \in Waits
<1>1. ~s.captionOpen /\ s.status # None
  BY NoneIsNew DEF EdgesConsistent, Statuses
<1> DEFINE known(n) == DeclareIfUnknown(Cell(s), n, look)
<1>2. ASSUME NEW n \in Names \cup {IdName}
      PROVE  known(n) \in Cells /\ known(n).s.status = "awaiting"
  <2> DEFINE one == known(n)
             named == IF one.s.declared.name = n THEN one ELSE Declare(one, n, look)
  <2>1. /\ one \in Cells
        /\ one.s = [s EXCEPT !.declared = one.s.declared]
        /\ named \in Cells
        /\ named.s = [s EXCEPT !.declared = named.s.declared]
    BY KnownCell
  <2> HIDE DEF one
  <2>2. one \in Cells /\ one.s.status = "awaiting"
    BY <2>1 DEF AgentFeedState
  <2> QED
    BY <2>2 DEF one
<1>3. NameOf(look) \in Names \cup {IdName}
  BY NameOfLook
<1> DEFINE base == known(NameOf(look))
<1>4. base \in Cells /\ base.s.status = "awaiting"
  BY <1>2, <1>3
<1> HIDE DEF base
<1>5. MapCheckedOut(s, look) \in Cells /\ MapCheckedOut(s, look).s.status \in Waits
  <2> DEFINE edge == PushStatus(OpenCaption(base), "active")
  <2>1. OpenCaption(base) \in Cells
    BY <1>4, CaptionCell
  <2>2. edge \in Cells /\ edge.s = [OpenCaption(base).s EXCEPT !.status = "active"]
    BY <2>1, PushStatusCell DEF Statuses
  <2>3. edge.s.status = "active"
    BY <2>1, <2>2 DEF Cells, AgentFeedState
  <2>4. MapCheckedOut(s, look) = IF s.runs = 0 /\ ~s.captionOpen THEN edge ELSE base
    BY DEF MapCheckedOut, base
  <2> HIDE DEF edge
  <2> QED
    BY <1>4, <2>2, <2>3, <2>4 DEF Waits
<1>6. MapRunStarted(s, look).s.status \in Waits
  BY <1>5 DEF MapRunStarted, Cells, AgentFeedState
<1>7. MapRunEnded(s).s.status \in Waits
  <2> DEFINE n == IF s.runs > 0 THEN s.runs - 1 ELSE 0
             c == Cell([s EXCEPT !.runs = n])
  <2>1. c.s.status = "awaiting" /\ ~c.s.captionOpen
    BY <1>1 DEF Cell, AgentFeedState
  <2>2. ~ShowsWork(c)
    BY <2>1 DEF ShowsWork
  <2>3. MapRunEnded(s) = c
    BY <2>2 DEF MapRunEnded, FallingEdge
  <2> QED
    BY <2>1, <2>3 DEF Waits
<1>8. MapHumanWait(s, look).s.status \in Waits
  <2> DEFINE shut == [base EXCEPT !.s.captionOpen = FALSE]
  <2>1. shut \in Cells
    BY <1>4 DEF Cells, AgentFeedState
  <2>2. MapHumanWait(s, look) = PushStatus(shut, "awaiting")
    BY DEF MapHumanWait, base
  <2> HIDE DEF shut
  <2>3. PushStatus(shut, "awaiting").s = [shut.s EXCEPT !.status = "awaiting"]
    BY <2>1, PushStatusCell DEF Statuses
  <2> QED
    BY <2>1, <2>2, <2>3 DEF Waits, Cells, AgentFeedState
<1>9. MapFirstSight(s, name, look).s.status \in Waits
  BY <1>1, <1>2 DEF MapFirstSight, Waits
<1>10. MapOffline(s).s.status \in Waits
  BY DEF MapOffline, Cell, Fresh, Waits
<1>11. MapToolActivity(s, look).s.status \in Waits
  BY <1>4 DEF MapToolActivity, base, Cells, Waits
<1> QED
  BY <1>5, <1>6, <1>7, <1>8, <1>9, <1>10, <1>11

LEMMA NextKeepsWait ==
  IInv /\ [Next]_vars =>
    \A b \in Agents : agents[b].status = "awaiting" => agents'[b].status \in Waits
<1> SUFFICES ASSUME IInv, [Next]_vars, NEW b \in Agents, agents[b].status = "awaiting"
             PROVE  agents'[b].status \in Waits
  OBVIOUS
<1>1. /\ agents \in [Agents -> AgentFeedState]
      /\ agents[b] \in AgentFeedState
      /\ EdgesConsistent(agents[b])
      /\ appearances[b] \in Looks \cup {None}
  BY DEF IInv, Sound
<1>2. ASSUME NEW a \in Agents, NEW c, Return(a, c), a = b => c.s.status \in Waits
      PROVE  agents'[b].status \in Waits
  BY <1>1, <1>2 DEF Return, Waits
<1>3. CASE Reset
  BY <1>3 DEF Reset, Fresh, Waits
<1>4. CASE SnapshotOfAll
  <2> PICK listed \in SUBSET Agents, hostName \in [Agents -> Names],
           runs \in [Agents -> 0 .. MaxRuns], assigned \in [Issues -> Agents \cup {None}] :
             MapSnapshot(listed, hostName, runs, assigned)
    BY <1>4 DEF SnapshotOfAll
  <2>1. runs[b] \in Nat
    BY MaxRunsIsPositive
  <2>2. MapSnapshotAgent(agents[b], appearances[b], hostName[b], runs[b]).s.status \in Waits
    BY <1>1, <2>1, SnapshotKeepsWait
  <2>3. agents'[b] = IF b \in listed
                     THEN MapSnapshotAgent(agents[b], appearances[b], hostName[b], runs[b]).s
                     ELSE agents[b]
    BY DEF MapSnapshot
  <2> QED
    BY <2>2, <2>3 DEF Waits
<1>5. ASSUME NEW a \in Agents, NEW look \in Looks, SetAppearance(a, look)
      PROVE  agents'[b].status \in Waits
  <2> DEFINE c == MapAppearance(agents[a], look)
  <2>1. a = b => c.s.status \in Waits
    BY <1>1 DEF MapAppearance, Cell, AgentFeedState, Waits
  <2>2. Return(a, c)
    BY <1>5 DEF SetAppearance
  <2> QED
    BY <1>2, <2>1, <2>2
<1>6. ASSUME NEW a \in Agents, EventOf(a)
      PROVE  agents'[b].status \in Waits
  <2>1. PICK c : /\ Return(a, c)
                 /\ \/ c = MapOffline(agents[a])
                    \/ c = MapCheckedOut(agents[a], appearances[a])
                    \/ c = MapRunStarted(agents[a], appearances[a])
                    \/ c = MapRunEnded(agents[a])
                    \/ c = MapHumanWait(agents[a], appearances[a])
                    \/ \E name \in Names \cup {NameOf(appearances[a])} :
                         c = MapFirstSight(agents[a], name, appearances[a])
                    \/ c = MapToolActivity(agents[a], appearances[a])
    BY <1>6 DEF EventOf, StatusOffline, CheckedOut, RunStarted, RunEnded, ApprovalCreated,
                AgentCreated, AssignmentWakeup, ToolActivity
  <2>2. a = b => c.s.status \in Waits
    BY <1>1, <2>1, EventKeepsWait, NameOfLook
  <2> QED
    BY <1>2, <2>1, <2>2
<1>7. ASSUME NEW i \in Issues, NEW a \in Agents, IssueUpdated(i, a)
      PROVE  agents'[b].status \in Waits
  BY <1>7 DEF IssueUpdated, Waits
<1>8. ASSUME NEW i \in Issues, HumanQuestion(i)
      PROVE  agents'[b].status \in Waits
  <2>1. /\ issueAssignees[i] \in Agents
        /\ Return(issueAssignees[i],
                  MapHumanWait(agents[issueAssignees[i]], appearances[issueAssignees[i]]))
    BY <1>8 DEF HumanQuestion, IInv
  <2> QED
    BY <1>1, <1>2, <2>1, EventKeepsWait
<1>9. CASE UNCHANGED vars
  BY <1>9 DEF vars, Waits
<1> QED
  BY <1>3, <1>4, <1>5, <1>6, <1>7, <1>8, <1>9 DEF Next

(* An agent shown waiting on a human stays so until work, a resync or its   *)
(* removal: the end of a run or an idle snapshot never turns the wait into  *)
(* idleness (the falling edges of mapEvent and mapSnapshot).                *)
THEOREM HumanWaitAlwaysKept == Spec => HumanWaitKept
<1>1. IInv /\ [Next]_vars =>
        [\A a \in Agents : agents[a].status = "awaiting" =>
           agents'[a].status \in {"awaiting", "active", None}]_vars
  BY NextKeepsWait DEF Waits
<1> QED
  BY <1>1, SpecIInv, PTL DEF Spec, HumanWaitKept
=============================================================================
