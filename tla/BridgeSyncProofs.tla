--------------------------- MODULE BridgeSyncProofs ---------------------------
(***************************************************************************)
(* The invariants of BridgeStore, for any sets of agents, runs, issues and *)
(* approvals.  IInv is inductive: that a run end leaves projection and     *)
(* tracker right needs both to be right before, and the types.  The store  *)
(* beside its host behaves as the open store does, whose invariants it     *)
(* therefore inherits; and a process counts the start of a run once,       *)
(* however often and in whatever order the event that tells of it is       *)
(* delivered.                                                              *)
(***************************************************************************)
EXTENDS BridgeSync, TLAPS

IInv == TypeOK /\ RunsProjected

\* A step in which the tracker comes to miss no run of the store that it did not miss.
Kept == \A a \in Agents : Untracked(a)' \subseteq Untracked(a)

-----------------------------------------------------------------------------
(* Projections and the two ways an agent map is touched. *)

LEMMA AbsentValues ==
  /\ \A x \in AgentStates : x # None
  /\ \A x \in IssueInputs : x # None
  /\ \A x \in SUBSET Runs : x # None
  /\ \A x \in Snapshots : x # None
  /\ "pending" # None /\ "decided" # None
  BY NoneIsAbsent DEF ApprovalStatuses

LEMMA ProjectionType ==
  ASSUME NEW runs \in SUBSET Runs, NEW iss, NEW aps, NEW a
  PROVE  /\ Projection(runs, iss, aps, a) \in Raws
         /\ Projection(runs, iss, aps, a).activeRuns = runs
  BY DEF Projection, Raws, AssignedIn

\* What the lemmas below keep of each agent.
Consistent(ags) ==
  /\ ags \in [Agents -> AgentStates \cup {None}]
  /\ \A a \in Agents : ags[a] # None => ags[a].raw.activeRuns = ags[a].activeRuns

SameRuns(before, after) ==
  \A b \in Agents : /\ before[b] # None => after[b] # None /\ after[b].activeRuns = before[b].activeRuns
                    /\ before[b] = None /\ after[b] # None => after[b].activeRuns = {}

LEMMA EnsuredKeeps ==
  ASSUME NEW ags, Consistent(ags), NEW a
  PROVE  Consistent(Ensured(ags, a)) /\ SameRuns(ags, Ensured(ags, a))
<1>1. NewAgent \in AgentStates /\ NewAgent.raw.activeRuns = {} /\ NewAgent.activeRuns = {}
  BY DEF NewAgent, AgentStates, Raws
<1> QED
  BY <1>1 DEF Consistent, SameRuns, Ensured

LEMMA RecomputedKeeps ==
  ASSUME NEW ags, Consistent(ags), NEW iss, NEW aps, NEW a
  PROVE  Consistent(Recomputed(ags, iss, aps, a)) /\ SameRuns(ags, Recomputed(ags, iss, aps, a))
<1>1. CASE a \in Agents /\ ags[a] # None
  <2> DEFINE proj == Projection(ags[a].activeRuns, iss, aps, a)
  <2>1. ags[a] \in AgentStates
    BY <1>1 DEF Consistent
  <2>2. proj \in Raws /\ proj.activeRuns = ags[a].activeRuns
    BY <2>1, ProjectionType DEF AgentStates
  <2>3. Recomputed(ags, iss, aps, a) = [ags EXCEPT ![a] = [ags[a] EXCEPT !.raw = proj]]
    BY <1>1 DEF Recomputed
  <2> HIDE DEF proj
  <2>4. /\ [ags[a] EXCEPT !.raw = proj] \in AgentStates
        /\ [ags[a] EXCEPT !.raw = proj].raw = proj
        /\ [ags[a] EXCEPT !.raw = proj].activeRuns = ags[a].activeRuns
    BY <2>1, <2>2 DEF AgentStates
  <2> QED
    BY <1>1, <2>2, <2>3, <2>4, AbsentValues DEF Consistent, SameRuns
<1>2. CASE ~ (a \in Agents /\ ags[a] # None)
  BY <1>2 DEF Recomputed, SameRuns
<1> QED
  BY <1>1, <1>2

LEMMA SameRunsTransitive ==
  ASSUME NEW x, NEW y, NEW z, SameRuns(x, y), SameRuns(y, z)
  PROVE  SameRuns(x, z)
  BY DEF SameRuns

\* Where the runs are as they were, the tracker misses no more of them.
LEMMA CoverKept ==
  ASSUME IInv, SameRuns(agents, agents'), tracked' = tracked
  PROVE  Kept
  BY DEF IInv, TypeOK, SameRuns, Kept, Untracked, RunsOf

-----------------------------------------------------------------------------
(* Events. *)

LEMMA RunsBecomeEffect ==
  ASSUME IInv, NEW a \in Agents, NEW runs \in SUBSET Runs, RunsBecome(a, runs)
  PROVE  /\ Consistent(agents')
         /\ agents'[a] # None /\ agents'[a].activeRuns = runs
         /\ \A b \in Agents : b # a => agents'[b] = agents[b]
<1>1. Consistent(agents)
  BY DEF IInv, TypeOK, RunsProjected, Known, Consistent
<1> DEFINE e == Ensured(agents, a)
           e2 == [e EXCEPT ![a].activeRuns = runs]
           proj == Projection(runs, issues, approvals, a)
<1>2. Consistent(e) /\ e[a] # None /\ \A b \in Agents : b # a => e[b] = agents[b]
  <2>1. NewAgent \in AgentStates
    BY DEF NewAgent, AgentStates, Raws
  <2> QED
    BY <1>1, <2>1, EnsuredKeeps, AbsentValues DEF Ensured, Consistent
<1> HIDE DEF e
<1>3. e[a] \in AgentStates
  BY <1>2 DEF Consistent
<1>4. /\ e2 \in [Agents -> AgentStates \cup {None}]
      /\ e2[a] \in AgentStates
      /\ e2[a] # None
      /\ e2[a].activeRuns = runs
      /\ \A b \in Agents : b # a => e2[b] = e[b]
  <2>1. [e[a] EXCEPT !.activeRuns = runs] \in AgentStates
    BY <1>3 DEF AgentStates
  <2>2. [e[a] EXCEPT !.activeRuns = runs].activeRuns = runs
    BY <1>3 DEF AgentStates
  <2>3. e2 = [e EXCEPT ![a] = [e[a] EXCEPT !.activeRuns = runs]]
    OBVIOUS
  <2> QED
    BY <1>2, <2>1, <2>2, <2>3, AbsentValues DEF Consistent
<1>5. agents' = Recomputed(e2, issues, approvals, a)
  BY DEF RunsBecome, e
<1> HIDE DEF e2
<1>6. agents' = [e2 EXCEPT ![a] = [e2[a] EXCEPT !.raw = proj]]
  BY <1>4, <1>5 DEF Recomputed
<1>7. proj \in Raws /\ proj.activeRuns = runs
  BY ProjectionType
<1> HIDE DEF proj
<1>8. /\ [e2[a] EXCEPT !.raw = proj] \in AgentStates
      /\ [e2[a] EXCEPT !.raw = proj].raw = proj
      /\ [e2[a] EXCEPT !.raw = proj].activeRuns = runs
  BY <1>4, <1>7 DEF AgentStates
<1>9. agents' \in [Agents -> AgentStates \cup {None}]
  BY <1>4, <1>6, <1>8
<1>10. agents'[a] = [e2[a] EXCEPT !.raw = proj] /\ \A b \in Agents : b # a => agents'[b] = e[b]
  BY <1>4, <1>6
<1>11. \A b \in Agents : agents'[b] # None => agents'[b].raw.activeRuns = agents'[b].activeRuns
  BY <1>2, <1>7, <1>8, <1>10 DEF Consistent
<1> QED
  BY <1>2, <1>8, <1>9, <1>10, <1>11, AbsentValues DEF Consistent

LEMMA RunsOfType ==
  ASSUME IInv, NEW a \in Agents
  PROVE  RunsOf(a) \in SUBSET Runs
  BY DEF IInv, TypeOK, RunsOf, AgentStates

LEMMA RunEventKeeps ==
  ASSUME IInv, NEW a \in Agents, NEW r \in Runs, RunStarted(a, r) \/ RunEnded(a, r)
  PROVE  IInv' /\ Kept
<1> DEFINE started == RunStarted(a, r)
           runs  == IF started THEN RunsOf(a) \cup {r} ELSE RunsOf(a) \ {r}
           track == IF started THEN tracked[a] \cup {r} ELSE tracked[a] \ {r}
<1>1. runs \in SUBSET Runs
  BY RunsOfType
<1>2. /\ RunsBecome(a, runs) /\ tracked' = [tracked EXCEPT ![a] = track]
      /\ UNCHANGED <<issues, approvals>>
  BY DEF RunStarted, RunEnded
<1>3. runs \ track \subseteq RunsOf(a) \ tracked[a]
  OBVIOUS
<1>4. track \in SUBSET Runs
  BY DEF IInv, TypeOK
<1> HIDE DEF runs, track
<1>5. /\ Consistent(agents')
      /\ agents'[a] # None /\ agents'[a].activeRuns = runs
      /\ \A b \in Agents : b # a => agents'[b] = agents[b]
  BY <1>1, <1>2, RunsBecomeEffect
<1>6. TypeOK' /\ RunsProjected'
  BY <1>2, <1>4, <1>5 DEF IInv, TypeOK, RunsProjected, Known, Consistent
<1>7. Kept
  BY <1>2, <1>3, <1>5 DEF IInv, TypeOK, Kept, Untracked, RunsOf
<1> QED
  BY <1>6, <1>7 DEF IInv

\* A step that only ensures and recomputes agents.
LEMMA TouchKeeps ==
  ASSUME IInv, Consistent(agents'), SameRuns(agents, agents'), tracked' = tracked,
         issues' \in IssueMaps, approvals' \in ApprovalMaps
  PROVE  IInv' /\ Kept
<1>1. TypeOK' /\ RunsProjected'
  BY DEF IInv, TypeOK, RunsProjected, Known, Consistent
<1> QED
  BY <1>1, CoverKept DEF IInv

LEMMA OtherEventKeeps ==
  ASSUME IInv,
         \/ \E a \in Agents : StatusChanged(a) \/ CommentCreated(a) \/ BudgetIncident(a) \/ CostCreated(a)
         \/ \E i \in Issues, to \in IssueInputs, said \in SUBSET IssueFields : IssueUpdated(i, to, said)
         \/ \E p \in Approvals, a \in Agents \cup {None} : ApprovalCreated(p, a) \/ ApprovalDecided(p, a)
  PROVE  IInv' /\ Kept
<1>1. Consistent(agents) /\ issues \in IssueMaps /\ approvals \in ApprovalMaps
  BY DEF IInv, TypeOK, RunsProjected, Known, Consistent
<1>2. ASSUME NEW a \in Agents, Observed(a)
      PROVE  IInv' /\ Kept
  BY <1>1, <1>2, EnsuredKeeps, TouchKeeps DEF Observed
<1>3. ASSUME NEW i \in Issues, NEW to \in IssueInputs, NEW said \in SUBSET IssueFields,
             IssueUpdated(i, to, said)
      PROVE  IInv' /\ Kept
  <2> DEFINE now   == Updated(i, to, said)
             known == Recomputed(agents, issues', approvals, now.assignee)
  <2>0. now \in IssueInputs
    BY <1>1 DEF Updated, IssueInputs, IssueMaps
  <2>1. Consistent(known) /\ SameRuns(agents, known)
    BY <1>1, RecomputedKeeps
  <2>2. /\ agents' = IF now.blocked THEN Ensured(known, now.assignee) ELSE known
        /\ issues' = [issues EXCEPT ![i] = now] /\ UNCHANGED <<approvals, tracked>>
    BY <1>3 DEF IssueUpdated
  <2> HIDE DEF now, known
  <2>3. Consistent(Ensured(known, now.assignee)) /\ SameRuns(known, Ensured(known, now.assignee))
    BY <2>1, EnsuredKeeps
  <2>4. Consistent(agents') /\ SameRuns(agents, agents')
    BY <2>1, <2>2, <2>3, SameRunsTransitive
  <2>5. issues' \in IssueMaps /\ approvals' \in ApprovalMaps /\ tracked' = tracked
    BY <1>1, <2>0, <2>2 DEF IssueMaps
  <2> QED
    BY <2>4, <2>5, TouchKeeps
<1>4. ASSUME NEW p \in Approvals, NEW status \in ApprovalStatuses \cup {None}, NEW a,
             ApprovalBecomes(p, status, a)
      PROVE  IInv' /\ Kept
  <2> DEFINE known == Recomputed(agents, issues, approvals', a)
  <2>1. Consistent(known) /\ SameRuns(agents, known)
    BY <1>1, RecomputedKeeps
  <2>2. agents' = Ensured(known, a)
    BY <1>4 DEF ApprovalBecomes
  <2> HIDE DEF known
  <2>3. Consistent(agents') /\ SameRuns(agents, agents')
    BY <2>1, <2>2, EnsuredKeeps, SameRunsTransitive
  <2>4. issues' \in IssueMaps /\ approvals' \in ApprovalMaps /\ tracked' = tracked
    BY <1>1, <1>4 DEF ApprovalBecomes, ApprovalMaps
  <2> QED
    BY <2>3, <2>4, TouchKeeps
<1>5. ASSUME NEW p \in Approvals, NEW a \in Agents \cup {None},
             ApprovalCreated(p, a) \/ ApprovalDecided(p, a)
      PROVE  IInv' /\ Kept
  BY <1>4, <1>5 DEF ApprovalCreated, ApprovalDecided, ApprovalStatuses
<1> QED
  BY <1>2, <1>3, <1>5 DEF StatusChanged, CommentCreated, BudgetIncident, CostCreated

-----------------------------------------------------------------------------
(* Snapshots and restarts. *)

LEMMA LoadedType ==
  ASSUME NEW snap \in Snapshots, NEW a \in Agents, Listed(snap, a)
  PROVE  /\ snap.agents[a] \in SUBSET Runs
         /\ Loaded(snap, a) \in AgentStates
         /\ Loaded(snap, a).activeRuns = snap.agents[a]
         /\ Loaded(snap, a).raw = Projection(snap.agents[a], snap.issues, snap.approvals, a)
         /\ Loaded(snap, a).raw.activeRuns = snap.agents[a]
<1>1. snap.agents[a] \in SUBSET Runs
  BY DEF Snapshots, Listed
<1> DEFINE proj == Projection(snap.agents[a], snap.issues, snap.approvals, a)
<1>2. proj \in Raws /\ proj.activeRuns = snap.agents[a]
  BY <1>1, ProjectionType
<1>3. Loaded(snap, a) = [activeRuns |-> snap.agents[a], raw |-> proj]
  BY DEF Loaded
<1> HIDE DEF proj
<1>4. /\ Loaded(snap, a) \in AgentStates
      /\ Loaded(snap, a).activeRuns = snap.agents[a]
      /\ Loaded(snap, a).raw = proj
  BY <1>1, <1>2, <1>3 DEF AgentStates
<1> QED
  BY <1>1, <1>2, <1>4 DEF proj

\* After a setup has loaded its snapshot the tracker misses nothing.
LEMMA ReplaceKeeps ==
  ASSUME IInv, NEW snap \in Snapshots, Replace(snap)
  PROVE  IInv' /\ \A a \in Agents : Untracked(a)' = {}
<1>1. TypeOK'
  <2>1. agents' \in [Agents -> AgentStates \cup {None}]
    BY LoadedType DEF Replace
  <2>2. tracked' \in [Agents -> SUBSET Runs]
    BY LoadedType DEF Replace, IInv, TypeOK
  <2> QED
    BY <2>1, <2>2 DEF Replace, TypeOK, Snapshots
<1>2. ASSUME NEW a \in Agents, Known(a)'
      PROVE  /\ agents'[a].raw.activeRuns = agents'[a].activeRuns
             /\ agents'[a].activeRuns \subseteq tracked'[a]
  <2>1. Listed(snap, a) /\ agents'[a] = Loaded(snap, a) /\ tracked'[a] = snap.agents[a]
    BY <1>2 DEF Replace, Known
  <2> QED
    BY <2>1, LoadedType
<1> QED
  BY <1>1, <1>2 DEF IInv, RunsProjected, Untracked, RunsOf, Known

LEMMA ReconcileKeeps ==
  ASSUME IInv, NEW snap \in Snapshots, Reconcile(snap)
  PROVE  IInv' /\ Kept
<1>1. TypeOK'
  <2>1. agents' \in [Agents -> AgentStates \cup {None}]
    BY LoadedType DEF Reconcile, Reconciled, IInv, TypeOK
  <2>2. tracked' \in [Agents -> SUBSET Runs]
    BY LoadedType DEF Reconcile, Retracked, IInv, TypeOK
  <2> QED
    BY <2>1, <2>2 DEF Reconcile, TypeOK, Snapshots
<1>2. ASSUME NEW a \in Agents
      PROVE  /\ Known(a)' => agents'[a].raw.activeRuns = agents'[a].activeRuns
             /\ Untracked(a)' \subseteq Untracked(a)
  <2>0. agents'[a] = Reconciled(snap, a) /\ tracked'[a] = Retracked(snap, a)
    BY DEF Reconcile
  \* The tracker is left alone only if the runs of the store are, too.
  <2>1. CASE Listed(snap, a)
    <3>1. /\ agents'[a] = Loaded(snap, a) /\ agents'[a].activeRuns = snap.agents[a]
          /\ agents'[a].raw.activeRuns = snap.agents[a]
          /\ agents'[a] # None
      BY <2>0, <2>1, LoadedType, AbsentValues DEF Reconciled
    <3>2. tracked'[a] = IF RunsOf(a) # snap.agents[a] THEN snap.agents[a] ELSE tracked[a]
      BY <2>0, <2>1 DEF Retracked
    <3> QED
      BY <3>1, <3>2 DEF Untracked, RunsOf
  <2>2. CASE ~ Listed(snap, a)
    <3>1. agents'[a] \in {agents[a], None} /\ tracked'[a] = tracked[a]
      BY <2>0, <2>2 DEF Reconciled, Retracked
    <3> QED
      BY <3>1 DEF IInv, RunsProjected, Untracked, RunsOf, Known
  <2> QED
    BY <2>1, <2>2
<1> QED
  BY <1>1, <1>2 DEF IInv, RunsProjected, Kept

LEMMA RestartKeeps ==
  ASSUME IInv, Restart
  PROVE  IInv' /\ \A a \in Agents : Untracked(a)' = {}
  BY DEF IInv, TypeOK, IssueMaps, ApprovalMaps, RunsProjected, Known, Restart, Untracked, RunsOf

LEMMA RestoreKeeps ==
  ASSUME IInv, NEW restored \in Buckets, RestoreBuckets(restored)
  PROVE  IInv'
<1>1. tracked' \in [Agents -> SUBSET Runs]
  BY DEF IInv, TypeOK, Buckets, RestoreBuckets
<1> QED
  BY <1>1 DEF IInv, TypeOK, RunsProjected, Known, RestoreBuckets

-----------------------------------------------------------------------------
LEMMA InitIInv == Init => IInv
  BY DEF Init, IInv, TypeOK, IssueMaps, ApprovalMaps, RunsProjected, Known

LEMMA NextIInv == IInv /\ [Next]_storeVars => IInv'
<1> SUFFICES ASSUME IInv, [Next]_storeVars
             PROVE  IInv'
  OBVIOUS
<1>1. CASE UNCHANGED storeVars
  BY <1>1 DEF storeVars, IInv, TypeOK, RunsProjected, Known
<1>2. CASE Next
  BY <1>2, OtherEventKeeps, RunEventKeeps, ReplaceKeeps, ReconcileKeeps, RestartKeeps, RestoreKeeps
     DEF Next
<1> QED
  BY <1>1, <1>2

LEMMA SpecIInv == Spec => []IInv
  BY InitIInv, NextIInv, PTL DEF Spec

(* Every state of the store is well typed (BridgeState, AgentRuntime). *)
THEOREM StoreTypeCorrect == Spec => []TypeOK
  BY SpecIInv, PTL DEF IInv

(* Every path that changes an agent's run map leaves its raw projection     *)
(* with the same runs (recomputeAgentRaw).                                  *)
THEOREM RunsAlwaysProjected == Spec => []RunsProjected
  BY SpecIInv, PTL DEF IInv

-----------------------------------------------------------------------------
(* Repair. *)

LEMMA LoadedRepaired ==
  ASSUME NEW snap \in Snapshots, NEW a \in Agents, Listed(snap, a)
  PROVE  /\ Loaded(snap, a).activeRuns = snap.agents[a]
         /\ Loaded(snap, a).raw.activeRuns = snap.agents[a]
         /\ \A i \in Issues :
              LET mine == snap.issues[i] # None /\ snap.issues[i].assignee = a
              IN  /\ i \in Loaded(snap, a).raw.assignedIssues <=> mine
                  /\ i \in Loaded(snap, a).raw.blockedIssues <=> (mine /\ snap.issues[i].blocked)
         /\ \A p \in Approvals :
              p \in Loaded(snap, a).raw.approvalsWaiting <=> snap.approvals[p] = "pending"
<1>1. Loaded(snap, a).raw.assignedIssues = AssignedIn(snap.issues, a)
  BY DEF Loaded, Projection
<1>2. Loaded(snap, a).raw.blockedIssues = {i \in AssignedIn(snap.issues, a) : snap.issues[i].blocked}
  BY DEF Loaded, Projection
<1>3. Loaded(snap, a).raw.approvalsWaiting = {p \in Approvals : snap.approvals[p] = "pending"}
  BY DEF Loaded, Projection
<1> QED
  BY <1>1, <1>2, <1>3, LoadedType DEF AssignedIn

LEMMA LoadingRepairs ==
  ASSUME NEW snap \in Snapshots, Replace(snap) \/ Reconcile(snap)
  PROVE  Repaired(snap)'
<1>1. issues' = snap.issues /\ approvals' = snap.approvals
  BY DEF Replace, Reconcile
<1>2. \A a \in Agents : Listed(snap, a) => agents'[a] = Loaded(snap, a) /\ agents'[a] # None
  BY LoadedType, AbsentValues DEF Replace, Reconcile, Reconciled
<1>3. ASSUME NEW a \in Agents, agents'[a] # None
      PROVE  Listed(snap, a) \/ \E i \in Issues : snap.issues[i] # None /\ snap.issues[i].assignee = a
  <2>1. Listed(snap, a) \/ AssignedIn(snap.issues, a) # {}
    BY <1>3 DEF Replace, Reconcile, Reconciled, Seen
  <2> QED
    BY <2>1 DEF AssignedIn
<1> QED
  BY <1>1, <1>2, <1>3, LoadedRepaired DEF Repaired, Known, Listed

-----------------------------------------------------------------------------
(* The store beside its host. *)

Starts(e, r) == e.kind = "started" /\ e.run = r

\* The events that may still be applied: on their way, or waiting for a setup.
Arriving == {e \in Events : e \in inflight \/ \E s \in Slots : tasks[s].event = e}

\* Once a start has been counted, its one event is known to the dedupe table for as
\* long as it may be applied again.
CountedOnce(r) ==
  /\ counted[r] \in {0, 1}
  /\ r \in host.fresh => counted[r] = 0 /\ \A e \in Arriving : ~ Starts(e, r)
  /\ \A e, f \in Arriving : Starts(e, r) /\ Starts(f, r) => e = f
  /\ counted[r] = 1 => \A e \in Arriving : Starts(e, r) => e \in seen

\* A task that has restored its buckets works on the runtime of the company.
TaskInv(s) ==
  /\ tasks[s].kind = "lazy" => tasks[s].event \in Events
  /\ tasks[s].step = "buckets" => tasks[s].kind \in {"boot", "lazy"}
  /\ tasks[s].step = "apply" => tasks[s].kind = "lazy"
  /\ tasks[s].step \notin {"idle", "buckets"} => present

SyncInv ==
  /\ host \in Hosts
  /\ activity \in 0 .. MaxActivity
  /\ faults \in 0 .. MaxFaults
  /\ inflight \subseteq Events
  /\ seen \subseteq Events
  /\ counted \in [Runs -> Nat]
  /\ present \in BOOLEAN
  /\ tasks \in [Slots -> Tasks]
  /\ abandoned \in BOOLEAN
  /\ \A s \in Slots : TaskInv(s)
  /\ \A r \in Runs : CountedOnce(r)

-----------------------------------------------------------------------------
LEMMA NothingReadType == NothingRead \in Snapshots
  BY DEF NothingRead, Snapshots, IssueMaps, ApprovalMaps

LEMMA TaskTypes ==
  /\ {Idle, Booting, Reconciling} \subseteq Tasks
  /\ \A e \in Events : SettingUp(e) \in Tasks
  /\ Booted \subseteq [Slots -> Tasks]
<1>1. {Idle, Booting, Reconciling} \subseteq Tasks /\ \A e \in Events : SettingUp(e) \in Tasks
  BY NothingReadType DEF Idle, Booting, Reconciling, SettingUp, Tasks, Steps
<1> QED
  BY <1>1 DEF Booted

\* A process that starts has nothing to apply and nothing restored.
LEMMA BootedKeeps ==
  ASSUME tasks' \in Booted
  PROVE  /\ \A s \in Slots : TaskInv(s)' /\ tasks'[s].event = None
         /\ tasks' \in [Slots -> Tasks]
<1>1. \A s \in Slots : tasks'[s] \in {Idle, Booting}
  BY DEF Booted
<1>2. ASSUME NEW s \in Slots
      PROVE  TaskInv(s)' /\ tasks'[s].event = None
  BY <1>1 DEF TaskInv, Idle, Booting
<1> QED
  BY <1>2, TaskTypes

LEMMA InitSyncInv == SyncInit => SyncInv
<1> SUFFICES ASSUME SyncInit PROVE SyncInv
  OBVIOUS
<1>1. host \in Hosts /\ host.fresh = Runs
  <2>1. PICK boss \in [Backlog -> Founders] :
          host = [agents    |-> [a \in Agents |-> IF a \in Founders THEN {} ELSE None],
                  issues    |-> [i \in Issues |-> IF i \in Backlog
                                                 THEN [assignee |-> boss[i], blocked |-> FALSE] ELSE None],
                  approvals |-> [p \in Approvals |-> None],
                  fresh     |-> Runs]
    BY DEF SyncInit
  <2>2. \A i \in Backlog : [assignee |-> boss[i], blocked |-> FALSE] \in IssueInputs
    BY FirstHost DEF IssueInputs
  <2> QED
    BY <2>1, <2>2 DEF Hosts, IssueMaps, ApprovalMaps
<1>2. activity \in 0 .. MaxActivity /\ faults \in 0 .. MaxFaults
  BY SyncBounds DEF SyncInit
<1>3. \A s \in Slots : tasks[s] \in {Idle, Booting}
  BY DEF SyncInit, Booted
<1>4. \A s \in Slots : TaskInv(s) /\ tasks[s].event = None
  BY <1>3 DEF TaskInv, Idle, Booting
<1>5. tasks \in [Slots -> Tasks]
  BY TaskTypes DEF SyncInit
<1>6. \A r \in Runs : CountedOnce(r)
  <2>1. Arriving = {}
    BY <1>4, NoneIsNoEvent DEF Arriving, SyncInit
  <2>2. counted = [r \in Runs |-> 0]
    BY DEF SyncInit
  <2> QED
    BY <2>1, <2>2 DEF CountedOnce
<1>7. /\ inflight \subseteq Events /\ seen \subseteq Events
      /\ counted \in [Runs -> Nat] /\ present \in BOOLEAN /\ abandoned \in BOOLEAN
  BY DEF SyncInit
<1> QED
  BY <1>1, <1>2, <1>4, <1>5, <1>6, <1>7 DEF SyncInv

-----------------------------------------------------------------------------
(* The host: only the start of a fresh run adds an event that starts one. *)
LEMMA HostKeeps ==
  ASSUME SyncInv, NEW h \in Hosts, NEW evs \in SUBSET Events, HostDoes(h, evs),
         h.fresh \subseteq host.fresh,
         \A e \in evs, r \in Runs :
           Starts(e, r) => r \in host.fresh /\ r \notin h.fresh /\ \A f \in evs : f = e
  PROVE  SyncInv'
<1>1. /\ host' = h /\ inflight' = inflight \cup evs
      /\ activity > 0 /\ activity' = activity - 1
      /\ UNCHANGED <<faults, seen, counted, present, tasks, abandoned>>
  BY DEF HostDoes, workerVars
<1>2. activity' \in 0 .. MaxActivity
  BY <1>1, SyncBounds DEF SyncInv
<1>3. Arriving' = Arriving \cup evs
  BY <1>1 DEF Arriving
<1>4. \A r \in Runs : CountedOnce(r)'
  BY <1>1, <1>3 DEF SyncInv, CountedOnce
<1>5. \A s \in Slots : TaskInv(s)'
  BY <1>1 DEF SyncInv, TaskInv
<1> QED
  BY <1>1, <1>2, <1>4, <1>5 DEF SyncInv

LEMMA HostNextKeeps ==
  ASSUME SyncInv, HostNext
  PROVE  SyncInv'
<1> DEFINE quiet(h, evs) == /\ h \in Hosts /\ evs \in SUBSET Events /\ HostDoes(h, evs)
                            /\ h.fresh = host.fresh /\ \A e \in evs : e.kind # "started"
<1>1. ASSUME NEW h, NEW evs, quiet(h, evs)
      PROVE  SyncInv'
  BY <1>1, HostKeeps DEF Starts
<1>2. host \in Hosts /\ activity \in 0 .. MaxActivity
  BY DEF SyncInv
<1>3. \A h, evs : HostDoes(h, evs) => activity \in 1 .. MaxActivity
  BY <1>2, SyncBounds DEF HostDoes
<1>4. ASSUME NEW a \in Agents, NEW rs \in (SUBSET Runs) \cup {None}
      PROVE  /\ [host EXCEPT !.agents[a] = rs] \in Hosts
             /\ [host EXCEPT !.agents[a] = rs].fresh = host.fresh
  BY <1>2 DEF Hosts
<1>5. ASSUME NEW a \in Agents, Hire(a)
      PROVE  SyncInv'
  <2>1. HostDoes([host EXCEPT !.agents[a] = {}], {ObservedEvent(a)})
    BY <1>5 DEF Hire
  <2>2. {ObservedEvent(a)} \in SUBSET Events /\ ObservedEvent(a).kind # "started"
    BY <1>3, <2>1 DEF ObservedEvent, Events
  <2>3. quiet([host EXCEPT !.agents[a] = {}], {ObservedEvent(a)})
    BY <1>4, <2>1, <2>2
  <2> HIDE DEF quiet
  <2> QED
    BY <1>1, <2>3
<1>6. ASSUME NEW a \in Agents, Leave(a)
      PROVE  SyncInv'
  <2> DEFINE evs == {ObservedEvent(a)} \cup {RunEvent("ended", a, r) : r \in host.agents[a]}
  <2>1. HostDoes([host EXCEPT !.agents[a] = None], evs)
    BY <1>6 DEF Leave
  <2>2. host.agents[a] \in SUBSET Runs
    BY <1>2, <1>6 DEF Leave, Employed, Hosts
  <2>3. evs \in SUBSET Events /\ \A e \in evs : e.kind # "started"
    BY <1>3, <2>1, <2>2 DEF ObservedEvent, RunEvent, Events
  <2> HIDE DEF evs
  <2>4. quiet([host EXCEPT !.agents[a] = None], evs)
    BY <1>4, <2>1, <2>3
  <2> HIDE DEF quiet
  <2> QED
    BY <1>1, <2>4
<1>7. ASSUME NEW a \in Agents, NEW r \in Runs, StartRun(a, r)
      PROVE  SyncInv'
  <2> DEFINE h == [host EXCEPT !.agents[a] = @ \cup {r}, !.fresh = @ \ {r}]
             ev == RunEvent("started", a, r)
  <2>1. HostDoes(h, {ev}) /\ r \in host.fresh /\ host.agents[a] \in SUBSET Runs
    BY <1>2, <1>7 DEF StartRun, Employed, Hosts
  <2>2. h \in Hosts /\ h.fresh = host.fresh \ {r}
    <3> DEFINE rs == host.agents[a] \cup {r}
               fresh == host.fresh \ {r}
    <3>1. rs \in SUBSET Runs /\ fresh \in SUBSET Runs
      BY <1>2, <2>1 DEF Hosts
    <3>2. h = [[host EXCEPT !.agents[a] = rs] EXCEPT !.fresh = fresh]
      BY <1>2 DEF Hosts
    <3> HIDE DEF h, rs, fresh
    <3>3. h \in Hosts /\ h.fresh = fresh
      BY <1>4, <3>1, <3>2 DEF Hosts
    <3> QED
      BY <3>3 DEF fresh
  <2>3. {ev} \in SUBSET Events /\ ev.run = r
    BY <1>3, <2>1 DEF RunEvent, Events
  <2> HIDE DEF h, ev
  <2> QED
    BY <2>1, <2>2, <2>3, HostKeeps DEF Starts
<1>8. ASSUME NEW a \in Agents, NEW r \in Runs, EndRun(a, r)
      PROVE  SyncInv'
  <2> DEFINE h == [host EXCEPT !.agents[a] = @ \ {r}]
             ev == RunEvent("ended", a, r)
  <2>1. HostDoes(h, {ev}) /\ host.agents[a] \in SUBSET Runs
    BY <1>2, <1>8 DEF EndRun, Employed, Hosts
  <2>2. h = [host EXCEPT !.agents[a] = host.agents[a] \ {r}]
    BY <1>2 DEF Hosts
  <2>3. {ev} \in SUBSET Events /\ ev.kind # "started"
    BY <1>3, <2>1 DEF RunEvent, Events
  <2>4. quiet(h, {ev})
    BY <1>4, <2>1, <2>2, <2>3
  <2> HIDE DEF quiet
  <2> QED
    BY <1>1, <2>4
<1>9. ASSUME NEW i \in Issues, NEW to \in IssueInputs, UpdateIssue(i, to)
      PROVE  SyncInv'
  <2> DEFINE h == [host EXCEPT !.issues[i] = to]
             ev == [id |-> activity, kind |-> "issue", issue |-> i, to |-> to,
                    said |-> Changed(host.issues[i], to)]
  <2>1. HostDoes(h, {ev})
    BY <1>9 DEF UpdateIssue
  <2>2. h \in Hosts /\ h.fresh = host.fresh
    BY <1>2 DEF Hosts, IssueMaps
  <2>3. {ev} \in SUBSET Events /\ ev.kind # "started"
    BY <1>3, <2>1 DEF Events, Changed
  <2>4. quiet(h, {ev})
    BY <2>1, <2>2, <2>3
  <2> HIDE DEF quiet
  <2> QED
    BY <1>1, <2>4
<1>10. ASSUME NEW p \in Approvals, NEW a \in Agents \cup {None},
              RequestApproval(p, a) \/ DecideApproval(p, a)
       PROVE  SyncInv'
  <2>1. PICK status \in ApprovalStatuses, kind \in {"requested", "decided"} :
          HostDoes([host EXCEPT !.approvals[p] = status],
                   {[id |-> activity, kind |-> kind, approval |-> p, agent |-> a]})
    BY <1>10 DEF RequestApproval, DecideApproval, ApprovalStatuses
  <2> DEFINE h == [host EXCEPT !.approvals[p] = status]
             ev == [id |-> activity, kind |-> kind, approval |-> p, agent |-> a]
  <2>2. h \in Hosts /\ h.fresh = host.fresh
    BY <1>2 DEF Hosts, ApprovalMaps
  <2>3. {ev} \in SUBSET Events /\ ev.kind # "started"
    BY <1>3, <2>1 DEF Events
  <2>4. quiet(h, {ev})
    BY <2>1, <2>2, <2>3
  <2> HIDE DEF quiet
  <2> QED
    BY <1>1, <2>4
<1>11. ASSUME NEW a \in Agents, Remark(a)
       PROVE  SyncInv'
  <2>1. HostDoes(host, {ObservedEvent(a)})
    BY <1>11 DEF Remark
  <2>2. {ObservedEvent(a)} \in SUBSET Events /\ ObservedEvent(a).kind # "started"
    BY <1>3, <2>1 DEF ObservedEvent, Events
  <2>3. quiet(host, {ObservedEvent(a)})
    BY <1>2, <2>1, <2>2
  <2> HIDE DEF quiet
  <2> QED
    BY <1>1, <2>3
<1> HIDE DEF quiet
<1> QED
  BY <1>5, <1>6, <1>7, <1>8, <1>9, <1>10, <1>11 DEF HostNext

-----------------------------------------------------------------------------
\* A step that adds no event and counts no start.
LEMMA CountKept ==
  ASSUME SyncInv, Arriving' \subseteq Arriving, Arriving' \cap seen \subseteq seen',
         UNCHANGED <<host, counted>>
  PROVE  \A r \in Runs : CountedOnce(r)'
  BY DEF SyncInv, CountedOnce

LEMMA ApplyCountsOnce ==
  ASSUME SyncInv, NEW e \in Arriving, Arriving' \subseteq Arriving, host' = host, ApplyOnce(e)
  PROVE  /\ \A r \in Runs : CountedOnce(r)'
         /\ seen' \subseteq Events
         /\ counted' \in [Runs -> Nat]
<1>1. seen' \subseteq Events /\ Arriving' \cap (seen \cup {e}) \subseteq seen'
  BY DEF ApplyOnce, Remember, SyncInv, Arriving
<1>2. CASE e \in seen \/ e.kind # "started"
  <2>1. counted' = counted
    BY <1>2 DEF ApplyOnce, Duplicate, CountedAfter
  <2> QED
    BY <1>1, <2>1, CountKept DEF SyncInv
<1>3. CASE e \notin seen /\ e.kind = "started"
  <2>1. counted' = [counted EXCEPT ![e.run] = @ + 1]
    BY <1>3 DEF ApplyOnce, Duplicate, CountedAfter
  <2>2. e.run \in Runs
    BY <1>3 DEF Arriving, Events
  <2>3. counted[e.run] = 0
    BY <1>3, <2>2 DEF SyncInv, CountedOnce, Starts
  <2>4. /\ counted' \in [Runs -> Nat] /\ counted'[e.run] = 1
        /\ \A r \in Runs : r # e.run => counted'[r] = counted[r]
    BY <2>1, <2>2, <2>3 DEF SyncInv
  <2>5. CountedOnce(e.run)'
    BY <1>1, <1>3, <2>2, <2>4 DEF SyncInv, CountedOnce, Starts
  <2>6. ASSUME NEW r \in Runs, r # e.run
        PROVE  CountedOnce(r)'
    BY <1>1, <2>4, <2>6 DEF SyncInv, CountedOnce
  <2> QED
    BY <1>1, <2>4, <2>5, <2>6
<1> QED
  BY <1>2, <1>3

\* A task in a free slot.
LEMMA StartKeeps ==
  ASSUME SyncInv, NEW task \in Tasks, StartTask(task), present' = present,
         task.kind = "lazy" => task.event \in Events,
         task.step = "buckets" => task.kind \in {"boot", "lazy"},
         task.step # "apply",
         task.step \notin {"idle", "buckets"} => present
  PROVE  /\ tasks' \in [Slots -> Tasks]
         /\ \A s \in Slots : TaskInv(s)' /\ tasks'[s].event \in {tasks[s].event, task.event}
<1>1. PICK s \in Slots : tasks' = [tasks EXCEPT ![s] = task]
  BY DEF StartTask
<1>2. tasks \in [Slots -> Tasks] /\ \A q \in Slots : TaskInv(q)
  BY DEF SyncInv
<1>3. tasks' \in [Slots -> Tasks] /\ tasks'[s] = task /\ \A q \in Slots \ {s} : tasks'[q] = tasks[q]
  BY <1>1, <1>2
<1>4. ASSUME NEW q \in Slots
      PROVE  TaskInv(q)' /\ tasks'[q].event \in {tasks[q].event, task.event}
  BY <1>2, <1>3 DEF TaskInv
<1> QED
  BY <1>3, <1>4

(* A delivery, whether or not the event stays in flight. *)
LEMMA HandleKeeps ==
  ASSUME SyncInv, NEW e \in inflight, inflight' \subseteq inflight, faults' \in 0 .. MaxFaults,
         HandleEvent(e)
  PROVE  SyncInv'
<1>1. e \in Events /\ e \in Arriving /\ UNCHANGED <<host, activity, present, abandoned>>
  BY DEF HandleEvent, SyncInv, Arriving
<1>2. CASE UNCHANGED <<storeVars, seen, counted, tasks>>
  <2>1. Arriving' \subseteq Arriving
    BY <1>2 DEF Arriving
  <2>2. \A s \in Slots : TaskInv(s)'
    BY <1>1, <1>2 DEF SyncInv, TaskInv
  <2> QED
    BY <1>1, <1>2, <2>1, <2>2, CountKept DEF SyncInv
<1>3. CASE UNCHANGED tasks /\ ApplyOnce(e)
  <2>1. Arriving' \subseteq Arriving
    BY <1>3 DEF Arriving
  <2>2. \A s \in Slots : TaskInv(s)'
    BY <1>1, <1>3 DEF SyncInv, TaskInv
  <2> QED
    BY <1>1, <1>3, <2>1, <2>2, ApplyCountsOnce DEF SyncInv
<1>4. CASE StartTask(SettingUp(e)) /\ UNCHANGED <<storeVars, seen, counted>>
  <2>1. SettingUp(e) \in Tasks /\ SettingUp(e).kind = "lazy" /\ SettingUp(e).event = e
        /\ SettingUp(e).step = "buckets"
    BY <1>1, TaskTypes DEF SettingUp
  <2>2. /\ tasks' \in [Slots -> Tasks]
        /\ \A s \in Slots : TaskInv(s)' /\ tasks'[s].event \in {tasks[s].event, e}
    BY <1>1, <1>4, <2>1, StartKeeps
  <2>3. Arriving' \subseteq Arriving
    BY <1>1, <2>2 DEF Arriving
  <2> QED
    BY <1>1, <1>4, <2>2, <2>3, CountKept DEF SyncInv
<1> QED
  BY <1>2, <1>3, <1>4 DEF HandleEvent

\* A task goes on, or its slot falls idle.
Moves(s, task) == tasks' = [tasks EXCEPT ![s] = task]

LEMMA MoveKeeps ==
  ASSUME SyncInv, NEW s \in Slots, NEW task \in Tasks, Moves(s, task), present' \in BOOLEAN,
         present => present', inflight' = inflight,
         task.event \in {tasks[s].event, None},
         task.kind = "lazy" => task.event \in Events,
         task.step = "buckets" => task.kind \in {"boot", "lazy"},
         task.step = "apply" => task.kind = "lazy",
         task.step \notin {"idle", "buckets"} => present'
  PROVE  /\ tasks' \in [Slots -> Tasks]
         /\ \A q \in Slots : TaskInv(q)'
         /\ Arriving' \subseteq Arriving
<1>1. tasks \in [Slots -> Tasks] /\ \A q \in Slots : TaskInv(q)
  BY DEF SyncInv
<1>2. tasks' \in [Slots -> Tasks] /\ tasks'[s] = task /\ \A q \in Slots \ {s} : tasks'[q] = tasks[q]
  BY <1>1 DEF Moves
<1>3. ASSUME NEW q \in Slots
      PROVE  TaskInv(q)' /\ tasks'[q].event \in {tasks[q].event, None}
  BY <1>1, <1>2 DEF TaskInv
<1>4. ASSUME NEW e \in Arriving'
      PROVE  e \in Arriving
  <2>1. e \in Events
    BY DEF Arriving
  <2>2. e # None
    BY <2>1, NoneIsNoEvent
  <2> QED
    BY <1>3, <2>1, <2>2 DEF Arriving
<1> QED
  BY <1>2, <1>3, <1>4

\* The reads of a task.
LEMMA ReadKeeps ==
  ASSUME SyncInv, NEW s \in Slots, NEW from \in Steps, NEW to \in Steps, NEW read \in Snapshots,
         TaskStep(s, from, to, read), present' \in BOOLEAN, present => present',
         from \notin {"idle", "apply"}, to \notin {"idle", "buckets", "apply"},
         from = "buckets" => present'
  PROVE  SyncInv'
<1> DEFINE task == [tasks[s] EXCEPT !.step = to, !.read = read]
<1>1. tasks[s] \in Tasks /\ TaskInv(s)
  BY DEF SyncInv
<1>2. /\ task \in Tasks /\ task.kind = tasks[s].kind /\ task.step = to
      /\ task.event = tasks[s].event
  BY <1>1 DEF Tasks
<1>3. /\ Moves(s, task) /\ tasks[s].step = from
      /\ UNCHANGED <<host, activity, faults, inflight, seen, counted, abandoned>>
  BY <1>1 DEF TaskStep, Moves, SyncInv, Tasks
<1>4. present'
  BY <1>1, <1>3 DEF TaskInv
<1> HIDE DEF task
<1>5. /\ tasks' \in [Slots -> Tasks] /\ \A q \in Slots : TaskInv(q)'
      /\ Arriving' \subseteq Arriving
  BY <1>1, <1>2, <1>3, <1>4, MoveKeeps DEF TaskInv
<1> QED
  BY <1>3, <1>5, CountKept DEF SyncInv

LEMMA ReadsKeep ==
  ASSUME SyncInv, NEW s \in Slots,
         (\E restored \in Buckets : ReadBuckets(s, restored)) \/ ReadAgents(s) \/ ReadIssues(s) \/ ReadRuns(s)
  PROVE  SyncInv'
<1>1. tasks[s].read \in Snapshots /\ present \in BOOLEAN
  BY DEF SyncInv, Tasks
<1>2. ASSUME NEW restored \in Buckets, ReadBuckets(s, restored)
      PROVE  SyncInv'
  <2>1. TaskStep(s, "buckets", "agents", NothingRead) /\ present' = TRUE
    BY <1>2 DEF ReadBuckets
  <2> QED
    BY <2>1, ReadKeeps, NothingReadType DEF Steps
<1>3. CASE ReadAgents(s)
  <2> DEFINE read == [tasks[s].read EXCEPT
               !.agents = [a \in Agents |-> IF Employed(a) THEN {} ELSE None],
               !.approvals = host.approvals]
  <2>1. read \in Snapshots
    BY <1>1 DEF Snapshots, SyncInv, Hosts
  <2>2. TaskStep(s, "agents", "issues", read) /\ present' = present
    BY <1>3 DEF ReadAgents
  <2> HIDE DEF read
  <2> QED
    BY <1>1, <2>1, <2>2, ReadKeeps DEF Steps
<1>4. CASE ReadIssues(s)
  <2>1. [tasks[s].read EXCEPT !.issues = host.issues] \in Snapshots
    BY <1>1 DEF Snapshots, SyncInv, Hosts
  <2>2. /\ TaskStep(s, "issues", "runs", [tasks[s].read EXCEPT !.issues = host.issues])
        /\ present' = present
    BY <1>4 DEF ReadIssues
  <2> QED
    BY <1>1, <2>1, <2>2, ReadKeeps DEF Steps
<1>5. CASE ReadRuns(s)
  <2> DEFINE read == [tasks[s].read EXCEPT
               !.agents = [a \in Agents |-> IF @[a] = None THEN None ELSE RunsRead(a)]]
  <2>1. \A a \in Agents : RunsRead(a) \in SUBSET Runs
    BY DEF RunsRead, Employed, SyncInv, Hosts
  <2>2. read \in Snapshots
    BY <1>1, <2>1 DEF Snapshots
  <2>3. TaskStep(s, "runs", "load", read) /\ present' = present
    BY <1>5 DEF ReadRuns
  <2> HIDE DEF read
  <2> QED
    BY <1>1, <2>2, <2>3, ReadKeeps DEF Steps
<1> QED
  BY <1>2, <1>3, <1>4, <1>5

LEMMA LoadKeeps ==
  ASSUME SyncInv, NEW s \in Slots, Load(s)
  PROVE  SyncInv'
<1> DEFINE task == IF tasks[s].kind = "lazy"
                   THEN [tasks[s] EXCEPT !.step = "apply", !.read = NothingRead] ELSE Idle
<1>1. tasks[s] \in Tasks /\ TaskInv(s) /\ tasks[s].step = "load"
  BY DEF SyncInv, Load
<1>2. /\ Moves(s, task) /\ abandoned' \in BOOLEAN
      /\ UNCHANGED <<host, activity, faults, inflight, seen, counted, present>>
  BY <1>1 DEF Load, Moves, SyncInv
<1>3. /\ task \in Tasks /\ task.event \in {tasks[s].event, None}
      /\ task.kind = "lazy" => task.event \in Events
      /\ task.step \in {"idle", "apply"} /\ (task.step = "apply" => task.kind = "lazy")
  <2>1. CASE tasks[s].kind = "lazy"
    <3>1. /\ task = [tasks[s] EXCEPT !.step = "apply", !.read = NothingRead]
          /\ tasks[s].event \in Events
      BY <1>1, <2>1 DEF TaskInv
    <3> QED
      BY <1>1, <2>1, <3>1, NothingReadType DEF Tasks, Steps
  <2>2. CASE tasks[s].kind # "lazy"
    BY <2>2, TaskTypes DEF Idle
  <2> QED
    BY <2>1, <2>2
<1> HIDE DEF task
<1>4. present
  BY <1>1 DEF TaskInv
<1>5. /\ tasks' \in [Slots -> Tasks] /\ \A q \in Slots : TaskInv(q)'
      /\ Arriving' \subseteq Arriving
  BY <1>2, <1>3, <1>4, MoveKeeps DEF SyncInv
<1> QED
  BY <1>2, <1>5, CountKept DEF SyncInv

\* The slot of a task that ends.
LEMMA IdleKeeps ==
  ASSUME SyncInv, NEW s \in Slots, tasks' = [tasks EXCEPT ![s] = Idle],
         UNCHANGED <<present, inflight>>
  PROVE  /\ tasks' \in [Slots -> Tasks]
         /\ \A q \in Slots : TaskInv(q)'
         /\ Arriving' \subseteq Arriving
<1>1. Idle \in Tasks /\ Idle.kind = "idle" /\ Idle.step = "idle" /\ Idle.event = None
  BY TaskTypes DEF Idle
<1> QED
  BY <1>1, MoveKeeps DEF Moves, SyncInv

LEMMA TaskEndsKeep ==
  ASSUME SyncInv, NEW s \in Slots, ApplyAwaited(s) \/ ReadFails(s)
  PROVE  SyncInv'
<1>1. /\ tasks' = [tasks EXCEPT ![s] = Idle] /\ UNCHANGED <<host, activity, inflight, present>>
      /\ abandoned' \in BOOLEAN /\ faults' \in 0 .. MaxFaults
  <2>1. CASE ApplyAwaited(s)
    BY <2>1 DEF ApplyAwaited, ApplyOnce, SyncInv
  <2>2. CASE ReadFails(s)
    BY <2>2, SyncBounds DEF ReadFails, Fault, SyncInv
  <2> QED
    BY <2>1, <2>2
<1>2. /\ tasks' \in [Slots -> Tasks] /\ \A q \in Slots : TaskInv(q)'
      /\ Arriving' \subseteq Arriving
  BY <1>1, IdleKeeps
<1>3. CASE ApplyAwaited(s)
  <2>1. tasks[s].event \in Arriving /\ ApplyOnce(tasks[s].event)
    BY <1>3 DEF ApplyAwaited, SyncInv, TaskInv, Arriving
  <2> QED
    BY <1>1, <1>2, <2>1, ApplyCountsOnce DEF SyncInv
<1>4. CASE ReadFails(s)
  <2>1. counted' = counted /\ seen' \subseteq seen /\ Arriving' \cap seen \subseteq seen'
    BY <1>1, <1>4 DEF ReadFails, Arriving
  <2> QED
    BY <1>1, <1>2, <2>1, CountKept DEF SyncInv
<1> QED
  BY <1>3, <1>4

LEMMA TickKeeps ==
  ASSUME SyncInv, JobTick
  PROVE  SyncInv'
<1>1. UNCHANGED <<host, activity, faults, inflight, seen, counted, present, abandoned>>
  BY DEF JobTick
<1>2. /\ tasks' \in [Slots -> Tasks]
      /\ \A s \in Slots : TaskInv(s)' /\ tasks'[s].event \in {tasks[s].event, None}
  <2>1. CASE present /\ StartTask(Reconciling)
    <3>1. /\ Reconciling \in Tasks /\ Reconciling.kind = "reconcile"
          /\ Reconciling.step = "agents" /\ Reconciling.event = None
      BY TaskTypes DEF Reconciling
    <3> QED
      BY <1>1, <2>1, <3>1, StartKeeps
  <2>2. CASE UNCHANGED tasks
    BY <1>1, <2>2 DEF SyncInv, TaskInv
  <2> QED
    BY <2>1, <2>2 DEF JobTick
<1>3. Arriving' \subseteq Arriving
  BY <1>1, <1>2, NoneIsNoEvent DEF Arriving
<1> QED
  BY <1>1, <1>2, <1>3, CountKept DEF SyncInv

LEMMA RestartsKeep ==
  ASSUME SyncInv, WorkerRestarts
  PROVE  SyncInv'
<1>1. /\ UNCHANGED <<host, activity, inflight>> /\ seen' = {} /\ counted' = [r \in Runs |-> 0]
      /\ present' = FALSE /\ abandoned' = FALSE /\ faults' \in 0 .. MaxFaults
  BY SyncBounds DEF WorkerRestarts, Fault, SyncInv
<1>2. /\ \A s \in Slots : TaskInv(s)' /\ tasks'[s].event = None
      /\ tasks' \in [Slots -> Tasks]
  BY BootedKeeps DEF WorkerRestarts
<1>3. Arriving' \subseteq Arriving
  BY <1>1, <1>2, NoneIsNoEvent DEF Arriving
<1>4. \A r \in Runs : CountedOnce(r)'
  BY <1>1, <1>3 DEF SyncInv, CountedOnce
<1> QED
  BY <1>1, <1>2, <1>4 DEF SyncInv

LEMMA NextSyncInv == SyncInv /\ [SyncNext]_syncVars => SyncInv'
<1> SUFFICES ASSUME SyncInv, [SyncNext]_syncVars
             PROVE  SyncInv'
  OBVIOUS
<1>1. CASE UNCHANGED syncVars
  <2>1. UNCHANGED <<host, activity, faults, inflight, seen, counted, present, tasks, abandoned>>
    BY <1>1 DEF syncVars, workerVars
  <2>2. Arriving' = Arriving /\ \A s \in Slots : TaskInv(s)'
    BY <2>1 DEF Arriving, SyncInv, TaskInv
  <2> QED
    BY <2>1, <2>2, CountKept DEF SyncInv
<1>2. ASSUME NEW e \in inflight, Deliver(e) \/ DeliverTwice(e)
      PROVE  SyncInv'
  <2>1. inflight' \subseteq inflight /\ faults' \in 0 .. MaxFaults /\ HandleEvent(e)
    BY <1>2, SyncBounds DEF Deliver, DeliverTwice, Fault, SyncInv
  <2> QED
    BY <2>1, HandleKeeps
<1>3. CASE SyncNext
  BY <1>2, <1>3, HostNextKeeps, TickKeeps, ReadsKeep, LoadKeeps, TaskEndsKeep, RestartsKeep
     DEF SyncNext, TaskNext
<1> QED
  BY <1>1, <1>3

LEMMA SpecSyncInv == SyncSpec => []SyncInv
  BY InitSyncInv, NextSyncInv, PTL DEF SyncSpec

(* A process counts the start of a run in its buckets at most once, however *)
(* often and in whatever order its event is delivered (EventDeduper.seen).  *)
THEOREM StartsAlwaysCountedOnce == SyncSpec => []StartsCountedOnce
<1>1. SyncInv => StartsCountedOnce
  BY DEF SyncInv, CountedOnce, StartsCountedOnce
<1> QED
  BY <1>1, SpecSyncInv, PTL

-----------------------------------------------------------------------------
(* Every step of the composition is a step of the open store or leaves it. *)
LEMMA EventIsStep ==
  ASSUME NEW e \in Events, ApplyEvent(e)
  PROVE  /\ Next
         /\ IInv => Kept
<1>1. CASE /\ e.kind = "observed"
           /\ \/ StatusChanged(e.agent) \/ CommentCreated(e.agent)
              \/ BudgetIncident(e.agent) \/ CostCreated(e.agent)
  BY <1>1, OtherEventKeeps DEF Events, Next
<1>2. CASE e.kind = "started" /\ RunStarted(e.agent, e.run)
  BY <1>2, RunEventKeeps DEF Events, Next
<1>3. CASE e.kind = "ended" /\ RunEnded(e.agent, e.run)
  BY <1>3, RunEventKeeps DEF Events, Next
<1>4. CASE e.kind = "issue" /\ IssueUpdated(e.issue, e.to, e.said)
  BY <1>4, OtherEventKeeps DEF Events, Next
<1>5. CASE e.kind = "requested" /\ ApprovalCreated(e.approval, e.agent)
  BY <1>5, OtherEventKeeps DEF Events, Next
<1>6. CASE e.kind = "decided" /\ ApprovalDecided(e.approval, e.agent)
  BY <1>6, OtherEventKeeps DEF Events, Next
<1> QED
  BY <1>1, <1>2, <1>3, <1>4, <1>5, <1>6 DEF ApplyEvent

LEMMA UnchangedKept == UNCHANGED storeVars => Kept
  BY DEF storeVars, Kept, Untracked, RunsOf

LEMMA ApplyIsStep ==
  ASSUME IInv, NEW e \in Events, ApplyOnce(e)
  PROVE  [Next]_storeVars /\ Kept
  BY EventIsStep, UnchangedKept DEF ApplyOnce

LEMMA HandleIsStep ==
  ASSUME SyncInv, IInv, NEW e \in inflight, HandleEvent(e)
  PROVE  [Next]_storeVars /\ Kept
<1>1. e \in Events
  BY DEF SyncInv
<1> QED
  BY <1>1, ApplyIsStep, UnchangedKept DEF HandleEvent

LEMMA SyncStepIsStoreStep == SyncInv /\ IInv /\ [SyncNext]_syncVars => [Next]_storeVars
<1> SUFFICES ASSUME SyncInv, IInv, [SyncNext]_syncVars
             PROVE  [Next]_storeVars
  OBVIOUS
<1>1. CASE UNCHANGED syncVars
  BY <1>1 DEF syncVars
<1>2. CASE HostNext
  BY <1>2 DEF HostNext, Hire, Leave, Remark, StartRun, EndRun, UpdateIssue, RequestApproval,
              DecideApproval, HostDoes
<1>3. ASSUME NEW e \in inflight, Deliver(e) \/ DeliverTwice(e)
      PROVE  [Next]_storeVars
  BY <1>3, HandleIsStep DEF Deliver, DeliverTwice
<1>4. ASSUME NEW s \in Slots,
             ReadAgents(s) \/ ReadIssues(s) \/ ReadRuns(s) \/ ReadFails(s)
      PROVE  [Next]_storeVars
  BY <1>4 DEF ReadAgents, ReadIssues, ReadRuns, ReadFails
<1>5. ASSUME NEW s \in Slots, Load(s)
      PROVE  [Next]_storeVars
  <2>1. tasks[s].read \in Snapshots
    BY DEF SyncInv, Tasks
  <2> QED
    BY <1>5, <2>1 DEF Load, Next
<1>6. ASSUME NEW s \in Slots, NEW restored \in Buckets, ReadBuckets(s, restored)
      PROVE  [Next]_storeVars
  BY <1>6 DEF ReadBuckets, Next
<1>7. ASSUME NEW s \in Slots, ApplyAwaited(s)
      PROVE  [Next]_storeVars
  <2>1. tasks[s].event \in Events
    BY <1>7 DEF ApplyAwaited, SyncInv, TaskInv
  <2> QED
    BY <1>7, <2>1, ApplyIsStep DEF ApplyAwaited
<1>8. CASE JobTick \/ WorkerRestarts
  BY <1>8 DEF JobTick, WorkerRestarts, Next
<1> QED
  BY <1>1, <1>2, <1>3, <1>4, <1>5, <1>6, <1>7, <1>8 DEF SyncNext, TaskNext

LEMMA SpecStoreInv == SyncSpec => []IInv
<1>1. SyncInit => IInv
  BY InitIInv DEF SyncInit
<1>2. SyncInv /\ IInv /\ [SyncNext]_syncVars => IInv'
  BY SyncStepIsStoreStep, NextIInv
<1> QED
  BY <1>1, <1>2, SpecSyncInv, PTL DEF SyncSpec

(* The store beside its host implements the open store: what holds of       *)
(* applyEvent and reconcile in every order holds in the running worker.     *)
THEOREM SyncImplementsStore == SyncSpec => Spec
<1>1. SyncInit => Init
  BY DEF SyncInit
<1> QED
  BY <1>1, SyncStepIsStoreStep, SpecSyncInv, SpecStoreInv, PTL DEF SyncSpec, Spec

(* Whatever the store has come to, loading a snapshot leaves each listed    *)
(* agent with exactly its runs, issues and pending approvals (reconcile,    *)
(* and replaceAuthoritativeSnapshot).                                       *)
THEOREM SnapshotsAlwaysRepair == SyncSpec => SnapshotRepairs
<1>1. SyncInv => [\A s \in Slots : Load(s) => \A snap \in {tasks[s].read} : Repaired(snap)']_syncVars
  <2> SUFFICES ASSUME SyncInv, NEW s \in Slots, Load(s)
               PROVE  \A snap \in {tasks[s].read} : Repaired(snap)'
    OBVIOUS
  <2>1. PICK snap \in Snapshots : snap = tasks[s].read
    BY DEF SyncInv, Tasks
  <2>2. Replace(snap) \/ Reconcile(snap)
    BY <2>1 DEF Load
  <2>3. Repaired(snap)'
    BY <2>2, LoadingRepairs
  <2> QED
    BY <2>1, <2>3
<1> QED
  BY <1>1, SpecSyncInv, PTL DEF SnapshotRepairs

-----------------------------------------------------------------------------
(* The tracker in the worker, whose setups may overlap. *)

\* Before a setup has read the buckets there is nothing in the store.
EmptyBefore == present \/ \A a \in Agents : agents[a] = None

TrackInv == EmptyBefore /\ TrackerCoversRuns

\* A setup between the restoring of its buckets and the loading of its snapshot.
Exposing(s) == /\ tasks[s].kind \in {"boot", "lazy"}
               /\ tasks[s].step \in {"agents", "issues", "runs", "load"}

\* A step that neither uncovers a run nor ends such a setup.
LEMMA QuietKeeps ==
  ASSUME TrackInv, Kept, present => present', present \/ UNCHANGED agents, abandoned => abandoned',
         \A s \in Slots : Exposing(s) => Exposing(s)' \/ abandoned'
  PROVE  TrackInv'
<1>1. EmptyBefore'
  BY DEF TrackInv, EmptyBefore
<1>2. TrackerCoversRuns'
  BY DEF TrackInv, TrackerCoversRuns, Exposing, Kept
<1> QED
  BY <1>1, <1>2 DEF TrackInv

RestoresOver ==
  present /\ \E s \in Slots : tasks[s].step = "buckets" /\ tasks'[s].step = "agents"

LEMMA TrackStep ==
  ASSUME SyncInv, IInv, TrackInv, [SyncNext]_syncVars
  PROVE  TrackInv' /\ (Kept \/ RestoresOver)
<1>1. tasks \in [Slots -> Tasks] /\ \A s \in Slots : TaskInv(s)
  BY DEF SyncInv
<1>2. CASE UNCHANGED <<storeVars, present, tasks, abandoned>>
  <2>1. UNCHANGED <<storeVars, agents, present, tasks, abandoned>>
    BY <1>2 DEF storeVars
  <2>2. \A s \in Slots : Exposing(s) => Exposing(s)'
    BY <2>1 DEF Exposing
  <2>3. TrackInv'
    BY <2>1, <2>2, QuietKeeps, UnchangedKept
  <2> QED
    BY <2>1, <2>3, UnchangedKept
\* A new task is none that has restored anything yet.
<1>3. ASSUME NEW task, StartTask(task), UNCHANGED <<storeVars, present, abandoned>>
      PROVE  TrackInv' /\ Kept
  <2>1. PICK s \in Slots : Free(s) /\ tasks' = [tasks EXCEPT ![s] = task]
    BY <1>3 DEF StartTask
  <2>2. \A q \in Slots : Exposing(q) => Exposing(q)'
    BY <1>1, <2>1 DEF Exposing, Free
  <2> QED
    BY <1>3, <2>2, QuietKeeps, UnchangedKept DEF storeVars
<1>4. ASSUME NEW e \in inflight, HandleEvent(e)
      PROVE  TrackInv' /\ Kept
  <2>1. Kept /\ UNCHANGED <<present, abandoned>>
    BY <1>4, HandleIsStep DEF HandleEvent
  <2>2. CASE UNCHANGED <<storeVars, seen, counted, tasks>>
    BY <1>2, <2>1, <2>2
  <2>3. CASE present /\ UNCHANGED tasks
    <3>1. \A s \in Slots : Exposing(s) => Exposing(s)'
      BY <2>3 DEF Exposing
    <3> QED
      BY <2>1, <2>3, <3>1, QuietKeeps
  <2>4. CASE StartTask(SettingUp(e)) /\ UNCHANGED <<storeVars, seen, counted>>
    BY <1>3, <2>1, <2>4
  <2> QED
    BY <1>4, <2>2, <2>3, <2>4 DEF HandleEvent
<1>5. ASSUME NEW s \in Slots, NEW restored \in Buckets, ReadBuckets(s, restored)
      PROVE  TrackInv' /\ (Kept \/ RestoresOver)
  <2>1. /\ tasks[s].step = "buckets" /\ tasks'[s].step = "agents"
        /\ tasks'[s].kind \in {"boot", "lazy"} /\ present' = TRUE /\ agents' = agents
    <3>1. tasks[s].kind \in {"boot", "lazy"}
      BY <1>1, <1>5 DEF ReadBuckets, TaskStep, TaskInv
    <3>2. tasks[s] \in Tasks
      BY <1>1
    <3> QED
      BY <1>1, <1>5, <3>1, <3>2 DEF ReadBuckets, TaskStep, RestoreBuckets, Tasks
  <2>2. TrackInv'
    BY <2>1 DEF TrackInv, EmptyBefore, TrackerCoversRuns
  <2>3. ~ present => Kept
    BY <2>1 DEF TrackInv, EmptyBefore, Kept, Untracked, RunsOf
  <2> QED
    BY <2>1, <2>2, <2>3 DEF RestoresOver
<1>6. ASSUME NEW s \in Slots, ReadAgents(s) \/ ReadIssues(s) \/ ReadRuns(s)
      PROVE  TrackInv' /\ Kept
  <2>1. UNCHANGED <<storeVars, present, abandoned>>
    BY <1>6 DEF ReadAgents, ReadIssues, ReadRuns, TaskStep
  <2>2. tasks[s] \in Tasks
    BY <1>1
  <2>3. tasks'[s].kind = tasks[s].kind /\ tasks'[s].step \in {"issues", "runs", "load"}
    <3>1. CASE ReadAgents(s)
      BY <1>1, <2>2, <3>1 DEF ReadAgents, TaskStep, Tasks
    <3>2. CASE ReadIssues(s)
      BY <1>1, <2>2, <3>2 DEF ReadIssues, TaskStep, Tasks
    <3>3. CASE ReadRuns(s)
      BY <1>1, <2>2, <3>3 DEF ReadRuns, TaskStep, Tasks
    <3> QED
      BY <1>6, <3>1, <3>2, <3>3
  <2>4. \A q \in Slots : q # s => tasks'[q] = tasks[q]
    BY <1>1, <1>6 DEF ReadAgents, ReadIssues, ReadRuns, TaskStep
  <2>5. \A q \in Slots : Exposing(q) => Exposing(q)'
    BY <2>3, <2>4 DEF Exposing
  <2> QED
    BY <2>1, <2>5, QuietKeeps, UnchangedKept DEF storeVars
<1>7. ASSUME NEW s \in Slots, Load(s)
      PROVE  TrackInv' /\ Kept
  <2>1. PICK snap \in Snapshots : snap = tasks[s].read
    BY <1>1 DEF Tasks
  <2>2. present /\ present' = present
    BY <1>1, <1>7 DEF Load, TaskInv
  <2>3. CASE tasks[s].kind = "reconcile"
    <3>1. Reconcile(snap) /\ abandoned' = abandoned /\ tasks' = [tasks EXCEPT ![s] = Idle]
      BY <1>7, <2>1, <2>3 DEF Load
    <3>2. \A q \in Slots : Exposing(q) => Exposing(q)'
      BY <1>1, <2>3, <3>1 DEF Exposing
    <3> QED
      BY <2>2, <3>1, <3>2, ReconcileKeeps, QuietKeeps
  <2>4. CASE tasks[s].kind # "reconcile"
    <3>1. Replace(snap)
      BY <1>7, <2>1, <2>4 DEF Load
    <3>2. \A a \in Agents : Untracked(a)' = {}
      BY <3>1, ReplaceKeeps
    <3> QED
      BY <2>2, <3>2 DEF TrackInv, EmptyBefore, TrackerCoversRuns, Kept
  <2> QED
    BY <2>3, <2>4
<1>8. ASSUME NEW s \in Slots, ApplyAwaited(s)
      PROVE  TrackInv' /\ Kept
  <2>1. tasks[s].event \in Events /\ present
    BY <1>1, <1>8 DEF ApplyAwaited, TaskInv
  <2>2. Kept /\ UNCHANGED <<present, abandoned>>
    BY <1>8, <2>1, ApplyIsStep DEF ApplyAwaited
  <2>3. \A q \in Slots : Exposing(q) => Exposing(q)'
    BY <1>1, <1>8 DEF ApplyAwaited, Exposing
  <2> QED
    BY <2>1, <2>2, <2>3, QuietKeeps
<1>9. ASSUME NEW s \in Slots, ReadFails(s)
      PROVE  TrackInv' /\ Kept
  <2>1. \A q \in Slots : Exposing(q) => Exposing(q)' \/ abandoned'
    BY <1>1, <1>9 DEF ReadFails, Exposing
  <2> QED
    BY <1>9, <2>1, QuietKeeps, UnchangedKept DEF ReadFails, storeVars
<1>10. CASE WorkerRestarts
  <2>1. /\ \A a \in Agents : Untracked(a)' = {}
        /\ \A a \in Agents : agents'[a] = None
    BY <1>10, RestartKeeps DEF WorkerRestarts, Restart
  <2> QED
    BY <2>1 DEF TrackInv, EmptyBefore, TrackerCoversRuns, Kept
<1>11. CASE HostNext
  BY <1>2, <1>11 DEF HostNext, Hire, Leave, Remark, StartRun, EndRun, UpdateIssue, RequestApproval,
                     DecideApproval, HostDoes, workerVars
<1>12. CASE JobTick
  BY <1>2, <1>3, <1>12 DEF JobTick
<1>13. CASE UNCHANGED syncVars
  BY <1>2, <1>13 DEF syncVars, workerVars
<1> QED
  BY <1>4, <1>5, <1>6, <1>7, <1>8, <1>9, <1>10, <1>11, <1>12, <1>13
     DEF SyncNext, TaskNext, Deliver, DeliverTwice

LEMMA SpecTrackInv == SyncSpec => []TrackInv
<1>1. SyncInit => TrackInv
  BY DEF SyncInit, Init, TrackInv, EmptyBefore, TrackerCoversRuns, Untracked, RunsOf
<1>2. SyncInv /\ IInv /\ TrackInv /\ [SyncNext]_syncVars => TrackInv'
  BY TrackStep
<1> QED
  BY <1>1, <1>2, SpecSyncInv, SpecStoreInv, PTL DEF SyncSpec

(* In the running worker, with any number of setups under way, the tracker  *)
(* misses a run of the store only between a setup's restore and its load,   *)
(* or after one of them failed there (setupCompany, restoreCompact).        *)
THEOREM TrackerCoversInWorker == SyncSpec => []TrackerCoversRuns
  BY SpecTrackInv, PTL DEF TrackInv

(* And it comes to miss one in no step but the restoring of buckets over a  *)
(* company that another setup has set up already (recordRunStart,           *)
(* recordRunEnd, replaceAuthoritativeSnapshot, reconcile).                  *)
THEOREM TrackerLosesOnlyToRestore == SyncSpec => TrackerKept
<1>1. SyncInv /\ IInv /\ TrackInv /\ [SyncNext]_syncVars =>
        [\/ \A a \in Agents : Untracked(a)' \subseteq Untracked(a)
         \/ present /\ \E s \in Slots : tasks[s].step = "buckets" /\ tasks'[s].step = "agents"]_syncVars
  BY TrackStep DEF Kept, RestoresOver
<1> QED
  BY <1>1, SpecSyncInv, SpecStoreInv, SpecTrackInv, PTL DEF SyncSpec, TrackerKept

(* The store, the host, the events on their way, the dedupe table and the   *)
(* tasks keep to their types, whatever is delivered twice, read in part, or *)
(* restarted (worker.ts:386-508, idempotency.ts).                           *)
THEOREM SyncTypeCorrect == SyncSpec => []SyncTypeOK
<1>1. IInv /\ SyncInv => SyncTypeOK
  BY DEF IInv, SyncInv, SyncTypeOK
<1> QED
  BY <1>1, SpecSyncInv, SpecStoreInv, PTL
=============================================================================
