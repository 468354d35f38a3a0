------------------------------ MODULE BridgeSync ------------------------------
(***************************************************************************)
(* The bridge store beside its host.  The host hires agents and lets them  *)
(* go, runs them, assigns issues and asks for approvals; the store hears   *)
(* of it through events, delivered at least once and in any order, and     *)
(* through the snapshots that setups and the reconcile job read over       *)
(* several awaits.  An event of a company the worker does not know starts  *)
(* a setup of its own, so that setups overlap.                             *)
(***************************************************************************)
EXTENDS BridgeStore, Naturals

CONSTANTS
  Founders,     \* the agents employed when the worker first starts
  Backlog,      \* the issues that exist then, each assigned to a founder
  MaxActivity,  \* how often the host still does something
  MaxFaults,    \* redeliveries, failed reads and restarts
  MaxTasks      \* how many setups and reconciles may be under way together

ASSUME FirstHost == Founders \subseteq Agents /\ Backlog \subseteq Issues
ASSUME SyncBounds == {MaxActivity, MaxFaults} \subseteq Nat /\ MaxTasks \in Nat \ {0}

VARIABLES
  host,      \* what Paperclip knows
  activity,  \* what is left of MaxActivity
  faults,    \* what is left of MaxFaults
  inflight,  \* the events on their way to the worker
  seen,      \* EventDeduper: the ids seen of events that may still be applied
  counted,   \* how often the buckets of this process counted the start of each run
  present,   \* whether the worker has a runtime of the company
  tasks,     \* the setups and the reconcile job: what each is doing, and what it has read
  abandoned  \* a setup failed after it restored, and none succeeded since (for the properties only)

workerVars == <<seen, counted, present, tasks, abandoned>>
syncVars == <<storeVars, host, activity, faults, inflight, workerVars>>

Hosts == [agents : [Agents -> (SUBSET Runs) \cup {None}],  \* the employed, with their active runs
          issues : IssueMaps, approvals : ApprovalMaps,
          fresh : SUBSET Runs]                           \* runs not started yet

Employed(a) == host.agents[a] # None

\* What the host's events carry; id is the eventId. An agent is only observed by a change of
\* its status, a comment, a budget incident or a cost.
Events ==
  [id : 1 .. MaxActivity, kind : {"observed"}, agent : Agents]
  \cup [id : 1 .. MaxActivity, kind : {"started", "ended"}, agent : Agents, run : Runs]
  \cup [id : 1 .. MaxActivity, kind : {"issue"}, issue : Issues, to : IssueInputs,
        said : SUBSET IssueFields]
  \cup [id : 1 .. MaxActivity, kind : {"requested", "decided"}, approval : Approvals,
        agent : Agents \cup {None}]

ASSUME NoneIsNoEvent == None \notin Events

Steps == {"idle", "buckets", "agents", "issues", "runs", "load", "apply"}

Slots == 1 .. MaxTasks

\* read is the snapshot as far as it has been read; event is the one that waits for its setup.
Tasks == [kind : {"idle", "boot", "lazy", "reconcile"}, step : Steps,
          event : Events \cup {None}, read : Snapshots]

NothingRead == [agents |-> [a \in Agents |-> None], issues |-> [i \in Issues |-> None],
                approvals |-> [p \in Approvals |-> None]]

Idle         == [kind |-> "idle", step |-> "idle", event |-> None, read |-> NothingRead]
Booting      == [kind |-> "boot", step |-> "buckets", event |-> None, read |-> NothingRead]
SettingUp(e) == [kind |-> "lazy", step |-> "buckets", event |-> e, read |-> NothingRead]
Reconciling  == [kind |-> "reconcile", step |-> "agents", event |-> None, read |-> NothingRead]

\* The worker boots with the companies it is told of, or waits for an event of the others.
Booted == {[s \in Slots |-> Idle], [s \in Slots |-> IF s = 1 THEN Booting ELSE Idle]}

\* The worker starts beside a company that already exists, without runs so far.
SyncInit ==
  /\ Init
  /\ \E boss \in [Backlog -> Founders] :
       host = [agents    |-> [a \in Agents |-> IF a \in Founders THEN {} ELSE None],
               issues    |-> [i \in Issues |-> IF i \in Backlog
                                              THEN [assignee |-> boss[i], blocked |-> FALSE] ELSE None],
               approvals |-> [p \in Approvals |-> None],
               fresh     |-> Runs]
  /\ activity = MaxActivity
  /\ faults = MaxFaults
  /\ inflight = {}
  /\ seen = {}
  /\ counted = [r \in Runs |-> 0]
  /\ present = FALSE
  /\ tasks \in Booted
  /\ abandoned = FALSE

-----------------------------------------------------------------------------
(* The host. *)

HostDoes(becomes, events) ==
  /\ activity > 0
  /\ activity' = activity - 1
  /\ host' = becomes
  /\ inflight' = inflight \cup events
  /\ UNCHANGED <<storeVars, faults, workerVars>>

ObservedEvent(a)  == [id |-> activity, kind |-> "observed", agent |-> a]
RunEvent(k, a, r) == [id |-> activity, kind |-> k, agent |-> a, run |-> r]

Hire(a) ==
  /\ ~ Employed(a)
  /\ HostDoes([host EXCEPT !.agents[a] = {}], {ObservedEvent(a)})

\* Its runs are cancelled; its issues remain assigned to it.
Leave(a) ==
  /\ Employed(a)
  /\ HostDoes([host EXCEPT !.agents[a] = None],
              {ObservedEvent(a)} \cup {RunEvent("ended", a, r) : r \in host.agents[a]})

\* It comments, spends, or meets its budget.
Remark(a) == Employed(a) /\ HostDoes(host, {ObservedEvent(a)})

StartRun(a, r) ==
  /\ Employed(a) /\ r \in host.fresh
  /\ HostDoes([host EXCEPT !.agents[a] = @ \cup {r}, !.fresh = @ \ {r}], {RunEvent("started", a, r)})

EndRun(a, r) ==
  /\ Employed(a) /\ r \in host.agents[a]
  /\ HostDoes([host EXCEPT !.agents[a] = @ \ {r}], {RunEvent("ended", a, r)})

\* The fields that an update speaks of: those it changes, and all of a new issue.
Changed(from, to) == {f \in IssueFields : from = None \/ from[f] # to[f]}

UpdateIssue(i, to) ==
  /\ host.issues[i] # to
  /\ to.assignee # None => Employed(to.assignee)
  /\ HostDoes([host EXCEPT !.issues[i] = to],
              {[id |-> activity, kind |-> "issue", issue |-> i, to |-> to, said |-> Changed(host.issues[i], to)]})

RequestApproval(p, a) ==
  /\ host.approvals[p] = None
  /\ a # None => Employed(a)
  /\ HostDoes([host EXCEPT !.approvals[p] = "pending"],
              {[id |-> activity, kind |-> "requested", approval |-> p, agent |-> a]})

DecideApproval(p, a) ==
  /\ host.approvals[p] = "pending"
  /\ HostDoes([host EXCEPT !.approvals[p] = "decided"],
              {[id |-> activity, kind |-> "decided", approval |-> p, agent |-> a]})

-----------------------------------------------------------------------------
(* Events. *)

\* BUG: the dedupe table is not consulted.
DuplicateUnnoticed(e) == FALSE

Duplicate(e) == e \in seen

\* applyPaperclipEvent.
ApplyEvent(e) ==
  \/ e.kind = "observed"  /\ (\/ StatusChanged(e.agent) \/ CommentCreated(e.agent)
                             \/ BudgetIncident(e.agent) \/ CostCreated(e.agent))
  \/ e.kind = "started"   /\ RunStarted(e.agent, e.run)
  \/ e.kind = "ended"     /\ RunEnded(e.agent, e.run)
  \/ e.kind = "issue"     /\ IssueUpdated(e.issue, e.to, e.said)
  \/ e.kind = "requested" /\ ApprovalCreated(e.approval, e.agent)
  \/ e.kind = "decided"   /\ ApprovalDecided(e.approval, e.agent)

CountedAfter(e) == IF e.kind = "started" THEN [counted EXCEPT ![e.run] = @ + 1] ELSE counted

Subscribed == \A s \in Slots : tasks[s].kind # "boot"

Free(s) == tasks[s].kind = "idle" /\ \A t \in Slots : t < s => tasks[t].kind # "idle"

StartTask(task) == \E s \in Slots : Free(s) /\ tasks' = [tasks EXCEPT ![s] = task]

\* An id that can no longer arrive need not be remembered; in the code ids are kept
\* for an hour, and a redelivery is assumed to come sooner.
Remember(e) == seen' = {f \in seen \cup {e} : f \in inflight' \/ \E s \in Slots : tasks'[s].event = f}

\* applyPaperclipEvent, behind the dedupe table.
ApplyOnce(e) ==
  /\ IF Duplicate(e)
     THEN UNCHANGED <<storeVars, counted>>
     ELSE ApplyEvent(e) /\ counted' = CountedAfter(e)
  /\ Remember(e)

\* Before the subscription nobody hears an event.  Where there is a runtime the event is
\* applied at once, be the store still empty; otherwise it waits for a setup of its own.
HandleEvent(e) ==
  /\ UNCHANGED <<host, activity, present, abandoned>>
  /\ \/ ~ Subscribed /\ UNCHANGED <<storeVars, seen, counted, tasks>>
     \/ Subscribed /\ present /\ UNCHANGED tasks /\ ApplyOnce(e)
     \/ Subscribed /\ ~ present /\ StartTask(SettingUp(e)) /\ UNCHANGED <<storeVars, seen, counted>>

Deliver(e) ==
  /\ e \in inflight
  /\ inflight' = inflight \ {e}
  /\ UNCHANGED faults
  /\ HandleEvent(e)

Fault == faults > 0 /\ faults' = faults - 1

\* Delivered, and to be delivered again.
DeliverTwice(e) ==
  /\ Fault
  /\ e \in inflight
  /\ UNCHANGED inflight
  /\ HandleEvent(e)

-----------------------------------------------------------------------------
(* setupCompany and the reconcile job. *)

\* The job goes through the companies it knows.
JobTick ==
  /\ Subscribed
  /\ \A s \in Slots : tasks[s].kind # "reconcile"
  /\ IF present THEN StartTask(Reconciling) ELSE UNCHANGED tasks
  /\ UNCHANGED <<storeVars, host, activity, faults, inflight, seen, counted, present, abandoned>>

TaskStep(s, from, to, read) ==
  /\ tasks[s].step = from
  /\ tasks' = [tasks EXCEPT ![s].step = to, ![s].read = read]
  /\ UNCHANGED <<host, activity, faults, inflight, seen, counted, abandoned>>

\* Only now is there a runtime, the same for all who set up the company.
ReadBuckets(s, restored) ==
  /\ TaskStep(s, "buckets", "agents", NothingRead)
  /\ \A a \in Agents : restored[a] # None => restored[a] \subseteq Runs \ host.fresh
  /\ RestoreBuckets(restored)
  /\ present' = TRUE

\* bootstrapSnapshot lists agents and approvals together, then the issues, and
\* reads the active runs with the issues' subtrees.
ReadAgents(s) ==
  /\ TaskStep(s, "agents", "issues",
              [tasks[s].read EXCEPT !.agents = [a \in Agents |-> IF Employed(a) THEN {} ELSE None],
                                    !.approvals = host.approvals])
  /\ UNCHANGED <<storeVars, present>>

ReadIssues(s) ==
  /\ TaskStep(s, "issues", "runs", [tasks[s].read EXCEPT !.issues = host.issues])
  /\ UNCHANGED <<storeVars, present>>

\* BUG: the active runs of the subtrees are not attributed to the listed agents.
RunsReadLeftOut(a) == {}

RunsRead(a) == IF Employed(a) THEN host.agents[a] ELSE {}

ReadRuns(s) ==
  /\ TaskStep(s, "runs", "load",
              [tasks[s].read EXCEPT !.agents = [a \in Agents |-> IF @[a] = None THEN None ELSE RunsRead(a)]])
  /\ UNCHANGED <<storeVars, present>>

\* After a setup the event that asked for it is still to be applied.
Load(s) ==
  /\ tasks[s].step = "load"
  /\ IF tasks[s].kind = "reconcile"
     THEN Reconcile(tasks[s].read) /\ UNCHANGED abandoned
     ELSE Replace(tasks[s].read) /\ abandoned' = FALSE
  /\ tasks' = [tasks EXCEPT ![s] =
                 IF @.kind = "lazy" THEN [@ EXCEPT !.step = "apply", !.read = NothingRead] ELSE Idle]
  /\ UNCHANGED <<host, activity, faults, inflight, seen, counted, present>>

ApplyAwaited(s) ==
  /\ tasks[s].step = "apply"
  /\ tasks' = [tasks EXCEPT ![s] = Idle]
  /\ UNCHANGED <<host, activity, faults, inflight, present, abandoned>>
  /\ ApplyOnce(tasks[s].event)

\* The job waits for its next tick; a setup drops its event, and leaves the runtime.
ReadFails(s) ==
  /\ Fault
  /\ tasks[s].kind \in {"lazy", "reconcile"}
  /\ tasks[s].step \in {"buckets", "agents", "issues", "runs"}
  /\ tasks' = [tasks EXCEPT ![s] = Idle]
  /\ abandoned' = (abandoned \/ (tasks[s].kind = "lazy" /\ tasks[s].step # "buckets"))
  /\ seen' = {f \in seen : f \in inflight \/ \E t \in Slots : tasks'[t].event = f}
  /\ UNCHANGED <<storeVars, host, activity, inflight, counted, present>>

\* Also what a boot whose reads fail comes to.
WorkerRestarts ==
  /\ Fault
  /\ Restart
  /\ seen' = {}
  /\ counted' = [r \in Runs |-> 0]
  /\ present' = FALSE
  /\ tasks' \in Booted
  /\ abandoned' = FALSE
  /\ UNCHANGED <<host, activity, inflight>>

HostNext ==
  \/ \E a \in Agents : Hire(a) \/ Leave(a) \/ Remark(a)
  \/ \E a \in Agents, r \in Runs : StartRun(a, r) \/ EndRun(a, r)
  \/ \E i \in Issues, to \in IssueInputs : UpdateIssue(i, to)
  \/ \E p \in Approvals, a \in Agents \cup {None} : RequestApproval(p, a) \/ DecideApproval(p, a)

TaskNext(s) ==
  \/ \E restored \in Buckets : ReadBuckets(s, restored)
  \/ ReadAgents(s) \/ ReadIssues(s) \/ ReadRuns(s)
  \/ Load(s)
  \/ ApplyAwaited(s)

SyncNext ==
  \/ HostNext
  \/ \E e \in inflight : Deliver(e) \/ DeliverTwice(e)
  \/ JobTick
  \/ \E s \in Slots : TaskNext(s) \/ ReadFails(s)
  \/ WorkerRestarts

(* The worker does not stop while it has something to do: the scheduler     *)
(* calls the job again and again and reads are answered, though perhaps not *)
(* those of every task; and an event on its way arrives.  Nothing obliges   *)
(* the host to act.                                                         *)
Fairness ==
  /\ WF_syncVars(JobTick \/ \E s \in Slots : TaskNext(s))
  /\ WF_syncVars(\E e \in inflight : Deliver(e))

SyncSpec == SyncInit /\ [][SyncNext]_syncVars /\ Fairness

-----------------------------------------------------------------------------
SyncTypeOK ==
  /\ TypeOK
  /\ host \in Hosts
  /\ activity \in 0 .. MaxActivity
  /\ faults \in 0 .. MaxFaults
  /\ inflight \subseteq Events
  /\ seen \subseteq Events
  /\ counted \in [Runs -> Nat]
  /\ present \in BOOLEAN
  /\ tasks \in [Slots -> Tasks]
  /\ abandoned \in BOOLEAN

(* However often an event is delivered, a process counts the start of a run *)
(* in its buckets once.                                                     *)
StartsCountedOnce == \A r \in Runs : counted[r] <= 1

(* "Repairs drift": whatever the state was, once a snapshot is loaded each  *)
(* listed agent has exactly its runs, its issues and the pending approvals, *)
(* and nobody is left who is neither listed nor an assignee.                *)
SnapshotRepairs ==
  [][\A s \in Slots : Load(s) => \A snap \in {tasks[s].read} : Repaired(snap)']_syncVars

(* The tracker that samples concurrency comes to miss a run of the store by *)
(* nothing but a setup that restores its buckets where another has set up   *)
(* the company already: not by runs that end before they start, a reconcile *)
(* that drops an agent and one that finds it again, or a reconcile that     *)
(* leaves the tracker alone, as it does unless the store's own runs were    *)
(* wrong (reconciliation.ts:186).                                           *)
TrackerKept ==
  [][\/ \A a \in Agents : Untracked(a)' \subseteq Untracked(a)
     \/ present /\ \E s \in Slots : tasks[s].step = "buckets" /\ tasks'[s].step = "agents"]_syncVars

(* Two setups may overlap, and the later one restores its buckets over what *)
(* the earlier one loaded: the tracker then misses runs of the store, until *)
(* the later one loads its own snapshot.  If it fails before, no reconcile  *)
(* makes up for it (reconciliation.ts:186); at all other times the tracker  *)
(* misses none.                                                             *)
TrackerCoversRuns ==
  \/ abandoned
  \/ \E s \in Slots : tasks[s].kind \in {"boot", "lazy"} /\ tasks[s].step \in {"agents", "issues", "runs", "load"}
  \/ \A a \in Agents : Untracked(a) = {}

(* Violated by the code: at every time the tracker covers the runs.         *)
TrackerAlwaysCovers == \A a \in Agents : Untracked(a) = {}

(* After any reordering, redelivery, stale snapshot, failed read or restart *)
(* and any overlap of setups, the store of a company that came to be set up *)
(* in the end shows each employed agent exactly with its runs, its issues   *)
(* and the approvals that are pending, although an issue event leaves the   *)
(* projections of other agents as they were.                                *)
StoreConverges ==
  <>[](present => \A a \in Agents : Employed(a) =>
         /\ Known(a)
         /\ agents[a].activeRuns = host.agents[a]
         /\ agents[a].raw = Projection(host.agents[a], host.issues, host.approvals, a))

(* In the end every run the company summary counts is a run of the host.    *)
CountedRunsExist ==
  <>[](\A a \in Agents : Known(a) =>
         agents[a].activeRuns \subseteq (IF Employed(a) THEN host.agents[a] ELSE {}))
=============================================================================
