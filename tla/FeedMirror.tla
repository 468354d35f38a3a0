----------------------------- MODULE FeedMirror -----------------------------
(***************************************************************************)
(* One company's feed mapper facing every input it can be called with, in  *)
(* any order: events may be duplicated, reordered, late or missing, and a  *)
(* snapshot may show anything.  What the mapper returns is applied at once *)
(* to a surface that loses nothing, so that the surface shows exactly what *)
(* the mapper has said: the state the diffing in the mapper relies on.     *)
(***************************************************************************)
EXTENDS FeedMapper

CONSTANTS
  Agents,     \* agent ids
  Issues,     \* issue ids
  MaxRuns     \* bound on an agent's run counter

ASSUME NoneIsNoAgent == None \notin Agents
ASSUME MaxRunsIsPositive == MaxRuns \in Nat \ {0}

VARIABLES
  agents,          \* PluginFeedMapper.agents
  appearances,     \* PluginFeedMapper.appearances
  issueAssignees,  \* PluginFeedMapper.issueAssignees
  office           \* the characters of a surface that got every operation

vars == <<agents, appearances, issueAssignees, office>>

Init ==
  /\ agents = [a \in Agents |-> Fresh]
  /\ appearances = [a \in Agents |-> None]
  /\ issueAssignees = [i \in Issues |-> None]
  /\ office = [a \in Agents |-> None]

\* Agent a's entry becomes the cell's state and the cell's patch is applied.
Return(a, cell) ==
  /\ agents' = [agents EXCEPT ![a] = cell.s]
  /\ office' = [office EXCEPT ![a] = Apply(@, cell.p)]

-----------------------------------------------------------------------------
Reset ==
  /\ agents' = [a \in Agents |-> Fresh]
  /\ issueAssignees' = [i \in Issues |-> None]
  /\ UNCHANGED <<appearances, office>>

SetAppearance(a, look) ==
  /\ Return(a, MapAppearance(agents[a], look))
  /\ appearances' = [appearances EXCEPT ![a] = look]
  /\ UNCHANGED issueAssignees

\* The agents in listed, with the runs and names of the snapshot, and the
\* assignees of some issues.  Agents that are not listed keep their entries.
MapSnapshot(listed, hostName, runs, assigned) ==
  LET cell(a) == MapSnapshotAgent(agents[a], appearances[a], hostName[a], runs[a])
  IN  /\ agents' = [a \in Agents |-> IF a \in listed THEN cell(a).s ELSE agents[a]]
      /\ office' = [a \in Agents |-> IF a \in listed
                                     THEN Apply(office[a], cell(a).p) ELSE office[a]]
      /\ issueAssignees' = [i \in Issues |-> IF assigned[i] = None
                                             THEN issueAssignees[i] ELSE assigned[i]]
      /\ UNCHANGED appearances

StatusOffline(a) ==
  /\ Return(a, MapOffline(agents[a]))
  /\ appearances' = IF agents[a].declared = None THEN appearances
                    ELSE [appearances EXCEPT ![a] = None]
  /\ UNCHANGED issueAssignees

CheckedOut(a) ==
  /\ Return(a, MapCheckedOut(agents[a], appearances[a]))
  /\ UNCHANGED <<appearances, issueAssignees>>

RunStarted(a) ==
  /\ agents[a].runs < MaxRuns
  /\ Return(a, MapRunStarted(agents[a], appearances[a]))
  /\ UNCHANGED <<appearances, issueAssignees>>

RunEnded(a) ==
  /\ Return(a, MapRunEnded(agents[a]))
  /\ UNCHANGED <<appearances, issueAssignees>>

IssueUpdated(i, a) ==
  /\ issueAssignees' = [issueAssignees EXCEPT ![i] = a]
  /\ UNCHANGED <<agents, appearances, office>>

\* A user's question on an issue somebody is assigned to.
HumanQuestion(i) ==
  /\ issueAssignees[i] # None
  /\ LET a == issueAssignees[i]
     IN  Return(a, MapHumanWait(agents[a], appearances[a]))
  /\ UNCHANGED <<appearances, issueAssignees>>

\* A pending approval of agent a, named in the event or assigned to its issue.
ApprovalCreated(a) ==
  /\ Return(a, MapHumanWait(agents[a], appearances[a]))
  /\ UNCHANGED <<appearances, issueAssignees>>

AgentCreated(a, name) ==
  /\ Return(a, MapFirstSight(agents[a], name, appearances[a]))
  /\ UNCHANGED <<appearances, issueAssignees>>

AssignmentWakeup(a) ==
  /\ Return(a, MapFirstSight(agents[a], NameOf(appearances[a]), appearances[a]))
  /\ UNCHANGED <<appearances, issueAssignees>>

ToolActivity(a) ==
  /\ Return(a, MapToolActivity(agents[a], appearances[a]))
  /\ UNCHANGED <<appearances, issueAssignees>>

SnapshotOfAll ==
  \E listed \in SUBSET Agents, hostName \in [Agents -> Names],
     runs \in [Agents -> 0 .. MaxRuns], assigned \in [Issues -> Agents \cup {None}] :
       MapSnapshot(listed, hostName, runs, assigned)

EventOf(a) ==
  \/ StatusOffline(a)
  \/ CheckedOut(a)
  \/ RunStarted(a)
  \/ RunEnded(a)
  \/ ApprovalCreated(a)
  \/ \E name \in Names \cup {NameOf(appearances[a])} : AgentCreated(a, name)
  \/ AssignmentWakeup(a)
  \/ ToolActivity(a)

Next ==
  \/ Reset
  \/ SnapshotOfAll
  \/ \E a \in Agents, look \in Looks : SetAppearance(a, look)
  \/ \E a \in Agents : EventOf(a)
  \/ \E i \in Issues, a \in Agents : IssueUpdated(i, a)
  \/ \E i \in Issues : HumanQuestion(i)

Spec == Init /\ [][Next]_vars

-----------------------------------------------------------------------------
TypeOK ==
  /\ agents \in [Agents -> AgentFeedState]
  /\ appearances \in [Agents -> Looks \cup {None}]
  /\ issueAssignees \in [Issues -> Agents \cup {None}]
  /\ office \in [Agents -> Characters \cup {None}]

(* The run-edge flags of AgentFeedState never contradict each other: the   *)
(* caption is open exactly while the agent is active, an agent with active *)
(* runs has a status, and one with a status has been declared.  The guards *)
(* of the rising and falling edges and of removeAgents rely on it.         *)
RunEdgesConsistent == \A a \in Agents : EdgesConsistent(agents[a])

(* What the mapper believes it has pushed is what a surface that received  *)
(* everything shows, in every field the mapper diffs against.  If it were  *)
(* not, a change would be suppressed as already pushed and the character   *)
(* would stay wrong until the next resync.                                 *)
SurfaceAgrees == \A a \in Agents : Agrees(agents[a], office[a])

(* No handler ever returns a status, caption or appearance for a character *)
(* that is not on the surface once the declaration returned with it, if    *)
(* any, is applied.  The falling edge declares nothing, so it must stay    *)
(* silent for an agent the mapper never declared.                          *)
NextPatches(a) ==
  LET s == agents[a]
      look == appearances[a]
  IN  {MapRunEnded(s).p, MapCheckedOut(s, look).p, MapRunStarted(s, look).p,
       MapHumanWait(s, look).p, MapToolActivity(s, look).p,
       MapFirstSight(s, NameOf(look), look).p}
      \cup {MapAppearance(s, l).p : l \in Looks}
      \cup {MapSnapshotAgent(s, look, n, r).p : n \in Names, r \in 0 .. MaxRuns}

OperationsAddressed ==
  \A a \in Agents : \A p \in NextPatches(a) :
    Addresses(p) => Seated(office[a], p) # None

(* An agent waiting on a human never falls back to idle by itself: not     *)
(* when a run of its ends, nor when a snapshot shows it without runs.      *)
(* Only work, a resync or its removal ends the wait.                       *)
HumanWaitKept ==
  [][\A a \in Agents : agents[a].status = "awaiting" =>
       agents'[a].status \in {"awaiting", "active", None}]_vars

(* The seat of a character on the surface is the seat of the appearance    *)
(* the mapper was last given for it.                                       *)
SeatReachesSurface ==
  \A a \in Agents :
    appearances[a] # None /\ office[a] # None =>
      office[a].decl.seat = appearances[a].seat
=============================================================================
