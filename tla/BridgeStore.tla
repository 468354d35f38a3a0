----------------------------- MODULE BridgeStore -----------------------------
(***************************************************************************)
(* The bridge store of one company: the maps of BridgeState, the raw       *)
(* projections derived from them, and the active-run tracker that the      *)
(* window store keeps beside them.  One action per kind of event, one for  *)
(* each of the two ways a snapshot is loaded, for the restart, and for the *)
(* restoring of the persisted buckets, which is a step of its own.         *)
(*                                                                         *)
(* The environment is open: any event, any snapshot and any buckets may    *)
(* come at any time, since delivery is unordered, a snapshot is read over  *)
(* many awaits and two setups may overlap.  BridgeSync puts the store      *)
(* beside a host and its worker.                                           *)
(***************************************************************************)
CONSTANTS
  Agents,
  Runs,
  Issues,
  Approvals,
  None       \* undefined, null, or a key that a map does not have

VARIABLES
  agents,     \* state.agents
  issues,     \* state.issues
  approvals,  \* state.approvals
  tracked     \* AgentWindowStore: activeRuns of each agent's runtime

storeVars == <<agents, issues, approvals, tracked>>

-----------------------------------------------------------------------------
(* Names, titles, costs, recent events, feedback and the other fields that  *)
(* no handler compares are left out.                                        *)

IssueInputs == [assignee : Agents \cup {None}, blocked : BOOLEAN]
IssueFields == {"assignee", "blocked"}
ApprovalStatuses == {"pending", "decided"}

Raws == [activeRuns : SUBSET Runs, assignedIssues : SUBSET Issues,
         blockedIssues : SUBSET Issues, approvalsWaiting : SUBSET Approvals]
AgentStates == [activeRuns : SUBSET Runs, raw : Raws]

IssueMaps    == [Issues -> IssueInputs \cup {None}]
ApprovalMaps == [Approvals -> ApprovalStatuses \cup {None}]

\* An AuthoritativeSnapshotInput: the listed agents with their active runs.
Snapshots == [agents : [Agents -> (SUBSET Runs) \cup {None}],
              issues : IssueMaps, approvals : ApprovalMaps]

ASSUME NoneIsAbsent ==
  \A x \in Agents \cup AgentStates \cup IssueInputs \cup ApprovalStatuses
            \cup (SUBSET Runs) \cup Snapshots : x # None

Listed(snap, a) == snap.agents[a] # None

AssignedIn(iss, a) == {i \in Issues : iss[i] # None /\ iss[i].assignee = a}

\* recomputeAgentRaw: every pending approval of the company waits for every agent.
Projection(runs, iss, aps, a) ==
  [activeRuns       |-> runs,
   assignedIssues   |-> AssignedIn(iss, a),
   blockedIssues    |-> {i \in AssignedIn(iss, a) : iss[i].blocked},
   approvalsWaiting |-> {p \in Approvals : aps[p] = "pending"}]

Recomputed(ags, iss, aps, a) ==
  IF a \in Agents /\ ags[a] # None
  THEN [ags EXCEPT ![a].raw = Projection(ags[a].activeRuns, iss, aps, a)]
  ELSE ags

\* BUG: the projection is left to be computed by a later event.
NewAgentBare == [activeRuns |-> {}, raw |-> None]

NewAgent ==
  [activeRuns |-> {},
   raw |-> [activeRuns |-> {}, assignedIssues |-> {}, blockedIssues |-> {}, approvalsWaiting |-> {}]]

Ensured(ags, a) == IF a \in Agents /\ ags[a] = None THEN [ags EXCEPT ![a] = NewAgent] ELSE ags

Init ==
  /\ agents = [a \in Agents |-> None]
  /\ issues = [i \in Issues |-> None]
  /\ approvals = [p \in Approvals |-> None]
  /\ tracked = [a \in Agents |-> {}]

-----------------------------------------------------------------------------
(* Events (applyEvent). *)

\* recordObserved makes sure that the agent exists, without computing its projection.
Observed(a) ==
  /\ agents' = Ensured(agents, a)
  /\ UNCHANGED <<issues, approvals, tracked>>

\* The status, the counters and the costs these record are not modelled.
StatusChanged(a)  == Observed(a)
CommentCreated(a) == Observed(a)
BudgetIncident(a) == Observed(a)
CostCreated(a)    == Observed(a)

\* BUG: the projection is left to a later event.
RunsBecomeOnly(a, runs) == agents' = [Ensured(agents, a) EXCEPT ![a].activeRuns = runs]

\* The agent's new run map and, at once, its projection.
RunsBecome(a, runs) ==
  agents' = Recomputed([Ensured(agents, a) EXCEPT ![a].activeRuns = runs], issues, approvals, a)

RunsOf(a) == IF agents[a] = None THEN {} ELSE agents[a].activeRuns

RunStarted(a, r) ==
  /\ RunsBecome(a, RunsOf(a) \cup {r})
  /\ tracked' = [tracked EXCEPT ![a] = @ \cup {r}]
  /\ UNCHANGED <<issues, approvals>>

\* finished, failed or cancelled.
RunEnded(a, r) ==
  /\ RunsBecome(a, RunsOf(a) \ {r})
  /\ tracked' = [tracked EXCEPT ![a] = @ \ {r}]
  /\ UNCHANGED <<issues, approvals>>

\* What the store has of an issue after an update that speaks of some of its fields.
Updated(i, to, said) ==
  LET old == IF issues[i] = None THEN [assignee |-> None, blocked |-> FALSE] ELSE issues[i]
  IN  [assignee |-> IF "assignee" \in said THEN to.assignee ELSE old.assignee,
       blocked  |-> IF "blocked" \in said THEN to.blocked ELSE old.blocked]

\* Only the projection of the assignee the issue has now is recomputed; a blocked
\* issue then records an observation, which may create that agent.
IssueUpdated(i, to, said) ==
  LET now   == Updated(i, to, said)
      known == Recomputed(agents, issues', approvals, now.assignee)
  IN
  /\ issues' = [issues EXCEPT ![i] = now]
  /\ agents' = IF now.blocked THEN Ensured(known, now.assignee) ELSE known
  /\ UNCHANGED <<approvals, tracked>>

\* agent is whom the approval concerns: who requested it, or the assignee of its issue.
ApprovalBecomes(p, status, agent) ==
  /\ approvals' = [approvals EXCEPT ![p] = status]
  /\ agents' = Ensured(Recomputed(agents, issues, approvals', agent), agent)
  /\ UNCHANGED <<issues, tracked>>

ApprovalCreated(p, agent) == ApprovalBecomes(p, "pending", agent)

\* A decision about an approval the store has not heard of is not kept.
ApprovalDecided(p, agent) ==
  ApprovalBecomes(p, IF approvals[p] = None THEN None ELSE "decided", agent)

-----------------------------------------------------------------------------
(* Snapshots. *)

\* BUG: the projection is computed from the issues as they were.
LoadedEarly(snap, a) ==
  [activeRuns |-> snap.agents[a],
   raw |-> Projection(snap.agents[a], issues, snap.approvals, a)]

\* An agent of the snapshot, computed after the issues and approvals.
Loaded(snap, a) ==
  [activeRuns |-> snap.agents[a],
   raw |-> Projection(snap.agents[a], snap.issues, snap.approvals, a)]

\* BUG: the tracker is left to what the persisted buckets hold.
ReplaceUntracked(snap) ==
  /\ agents' = [a \in Agents |-> IF Listed(snap, a) THEN Loaded(snap, a) ELSE None]
  /\ issues' = snap.issues
  /\ approvals' = snap.approvals
  /\ UNCHANGED tracked

\* replaceAuthoritativeSnapshot.
Replace(snap) ==
  /\ agents' = [a \in Agents |-> IF Listed(snap, a) THEN Loaded(snap, a) ELSE None]
  /\ tracked' = [a \in Agents |-> IF Listed(snap, a) THEN snap.agents[a] ELSE tracked[a]]
  /\ issues' = snap.issues
  /\ approvals' = snap.approvals

\* reconcile's seenAgents: whoever is listed, and the assignees of the issues.
Seen(snap) ==
  {a \in Agents : Listed(snap, a) \/ AssignedIn(snap.issues, a) # {}}

\* BUG: the tracker is left to the run events.
RetrackedNever(snap, a) == tracked[a]

\* The tracker follows only where the store's own runs had to be repaired.
Retracked(snap, a) ==
  IF Listed(snap, a) /\ RunsOf(a) # snap.agents[a] THEN snap.agents[a] ELSE tracked[a]

\* An agent that is seen without being listed stays as it is; the others are dropped.
Reconciled(snap, a) ==
  IF Listed(snap, a) THEN Loaded(snap, a) ELSE IF a \in Seen(snap) THEN agents[a] ELSE None

Reconcile(snap) ==
  /\ agents' = [a \in Agents |-> Reconciled(snap, a)]
  /\ tracked' = [a \in Agents |-> Retracked(snap, a)]
  /\ issues' = snap.issues
  /\ approvals' = snap.approvals

\* A new process: nothing is left in memory.
Restart ==
  /\ agents' = [a \in Agents |-> None]
  /\ issues' = [i \in Issues |-> None]
  /\ approvals' = [p \in Approvals |-> None]
  /\ tracked' = [a \in Agents |-> {}]

\* What may have been persisted: buckets of some agents, with the runs active at the time.
Buckets == [Agents -> (SUBSET Runs) \cup {None}]

\* restoreCompactBuckets clears the active runs of every agent that has persisted
\* buckets and leaves those of the others, whatever the store holds by now.
RestoreBuckets(restored) ==
  /\ tracked' = [a \in Agents |-> IF restored[a] = None THEN tracked[a] ELSE restored[a]]
  /\ UNCHANGED <<agents, issues, approvals>>

Next ==
  \/ \E a \in Agents : StatusChanged(a) \/ CommentCreated(a) \/ BudgetIncident(a) \/ CostCreated(a)
  \/ \E a \in Agents, r \in Runs : RunStarted(a, r) \/ RunEnded(a, r)
  \/ \E i \in Issues, to \in IssueInputs, said \in SUBSET IssueFields : IssueUpdated(i, to, said)
  \/ \E p \in Approvals, a \in Agents \cup {None} : ApprovalCreated(p, a) \/ ApprovalDecided(p, a)
  \/ \E snap \in Snapshots : Replace(snap) \/ Reconcile(snap)
  \/ Restart
  \/ \E restored \in Buckets : RestoreBuckets(restored)

Spec == Init /\ [][Next]_storeVars

-----------------------------------------------------------------------------
TypeOK ==
  /\ agents \in [Agents -> AgentStates \cup {None}]
  /\ issues \in IssueMaps
  /\ approvals \in ApprovalMaps
  /\ tracked \in [Agents -> SUBSET Runs]

Known(a) == agents[a] # None

(* The behavior model reads the run count from the raw projection and the   *)
(* projects from the run map (buildContext), and the UI reads only the raw  *)
(* projection: every path that changes a run map must leave them equal.     *)
RunsProjected == \A a \in Agents : Known(a) => agents[a].raw.activeRuns = agents[a].activeRuns

\* The runs of the store that the tracker misses.
Untracked(a) == RunsOf(a) \ tracked[a]

\* Each listed agent has exactly its runs, its issues and the pending approvals, and
\* nobody is left who is neither listed nor an assignee.
Repaired(snap) ==
  /\ issues = snap.issues
  /\ approvals = snap.approvals
  /\ \A a \in Agents : Listed(snap, a) =>
       /\ Known(a)
       /\ agents[a].activeRuns = snap.agents[a]
       /\ agents[a].raw.activeRuns = snap.agents[a]
       /\ \A i \in Issues :
            LET mine == issues[i] # None /\ issues[i].assignee = a
            IN  /\ i \in agents[a].raw.assignedIssues <=> mine
                /\ i \in agents[a].raw.blockedIssues <=> (mine /\ issues[i].blocked)
       /\ \A p \in Approvals :
            p \in agents[a].raw.approvalsWaiting <=> approvals[p] = "pending"
  /\ \A a \in Agents : Known(a) =>
       Listed(snap, a) \/ \E i \in Issues : issues[i] # None /\ issues[i].assignee = a
=============================================================================
