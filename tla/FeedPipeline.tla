---------------------------- MODULE FeedPipeline ----------------------------
(***************************************************************************)
(* One agent, from the host to its character: the host hires it, runs it   *)
(* and lets it go; the worker hears of it through events and through the   *)
(* snapshots of its reconcile job; what the feed mapper makes of them is   *)
(* queued in the feed sink and posted, batch by batch, to the surface.     *)
(*                                                                         *)
(* The worker is one JavaScript thread, so a step here is the code between *)
(* two awaits.  Events are not ordered and may be duplicated; the job's    *)
(* reads of the host race with them; a batch may be lost and a read may    *)
(* fail; the worker may restart.  The mapper treats agents independently   *)
(* (FeedMapper), so one agent is enough.                                   *)
(***************************************************************************)
EXTENDS FeedMapper, Sequences

LOCAL INSTANCE SequencesExt

CONSTANTS
  HostName,      \* the agent's name
  ResyncEvery,   \* RESYNC_EVERY_N_RECONCILES
  MaxActivity,   \* how often the host still does something with the agent
  MaxRuns,       \* concurrent runs of the agent
  MaxFaults,     \* lost or duplicated events, lost batches, failed reads, restarts
  MaxWire        \* batches waiting in the sink

ASSUME PipelineBounds ==
  /\ HostName \in Names
  /\ {ResyncEvery, MaxRuns} \subseteq Nat \ {0}
  /\ {MaxActivity, MaxFaults} \subseteq Nat
  /\ MaxWire \in Nat /\ MaxWire >= 2

VARIABLES
  host,        \* what Paperclip knows: is the agent employed, its active runs
  activity,    \* what is left of MaxActivity
  faults,      \* what is left of MaxFaults
  events,      \* how many events of each kind are on their way to the worker
  mapper,      \* the agent's AgentFeedState
  appearance,  \* its entry in PluginFeedMapper.appearances
  assigned,    \* its entry in rt.characterAssignments
  persisted,   \* its assignment in ctx.state
  job,         \* what the worker's setup or reconcile job is doing
  wire,        \* the batches of PluginFeedHttpSink not yet posted
  lossless,    \* no batch has been lost since the mapper was created
  office       \* the character on the surface

vars == <<host, activity, faults, events, mapper, appearance, assigned, persisted,
          job, wire, lossless, office>>

hostVars   == <<host, activity>>
charVars   == <<assigned, persisted>>
mapperVars == <<mapper, appearance>>

Employments == {"candidate", "employed", "gone"}
EventKinds == {"created", "checkedOut", "started", "ended", "asked", "offline"}

\* The awaits of the job: resyncCompany, then reconcileCompany; setupCompany at start.
Phases == {"setup", "resync", "reconcile"}
Steps  == {"agents", "runs", "characters", "ingest"}

\* tick counts reconciliations; listed and runs are the snapshot read so far;
\* look is the entry resolvedAppearances gave resyncCompany.
Jobs == [phase : Phases \cup {"idle"}, step : Steps, tick : 0 .. ResyncEvery - 1,
         listed : BOOLEAN, runs : 0 .. MaxRuns, look : Looks \cup {None}]

Init ==
  /\ host = [employment |-> "candidate", runs |-> 0]
  /\ activity = MaxActivity
  /\ faults = MaxFaults
  /\ events = [k \in EventKinds |-> 0]
  /\ mapper = Fresh
  /\ appearance = None
  /\ assigned = None
  /\ persisted = None
  /\ job = [phase |-> "setup", step |-> "agents", tick |-> 0,
            listed |-> FALSE, runs |-> 0, look |-> None]
  /\ wire = <<>>
  /\ lossless = TRUE
  /\ office = None

-----------------------------------------------------------------------------
(* The host. *)

Announce(kinds) == events' = [k \in EventKinds |-> events[k] + IF k \in kinds THEN 1 ELSE 0]

HostDoes(employment, runs, kinds) ==
  /\ activity > 0
  /\ activity' = activity - 1
  /\ host' = [employment |-> employment, runs |-> runs]
  /\ Announce(kinds)
  /\ UNCHANGED <<faults, mapperVars, charVars, job, wire, lossless, office>>

Hire ==
  /\ host.employment = "candidate"
  /\ HostDoes("employed", 0, {"created"})

StartRun ==
  /\ host.employment = "employed"
  /\ host.runs < MaxRuns
  /\ HostDoes("employed", host.runs + 1, {"checkedOut", "started"})

EndRun ==
  /\ host.runs > 0
  /\ HostDoes(host.employment, host.runs - 1, {"ended"})

\* A human question, or a pending approval.
AskHuman ==
  /\ host.employment = "employed"
  /\ HostDoes("employed", host.runs, {"asked"})

LetGo ==
  /\ host.employment = "employed"
  /\ host.runs = 0
  /\ HostDoes("gone", 0, {"offline"})

-----------------------------------------------------------------------------
(* Events. *)

\* The batches a handler pushes; the sink ignores an empty one.
Batches(p) == IF p = NoOps THEN <<>> ELSE <<p>>
Push(batches) == wire' = wire \o batches

Handled(kind) ==
  CASE kind = "created"    -> MapFirstSight(mapper, NameOf(appearance), appearance)
    [] kind = "checkedOut" -> MapCheckedOut(mapper, appearance)
    [] kind = "started"    -> MapRunStarted(mapper, appearance)
    [] kind = "ended"      -> MapRunEnded(mapper)
    [] kind = "asked"      -> MapHumanWait(mapper, appearance)
    [] kind = "offline"    -> MapOffline(mapper)

\* setup() subscribes to events only once every company is set up.
Subscribed == job.phase # "setup"

HandleEvent(kind) ==
  /\ Subscribed
  /\ events[kind] > 0
  /\ Len(wire) < MaxWire
  /\ kind = "started" => mapper.runs < MaxActivity + MaxFaults
  /\ events' = [events EXCEPT ![kind] = @ - 1]
  /\ mapper' = Handled(kind).s
  /\ Push(Batches(Handled(kind).p))
  /\ appearance' = IF Handled(kind).p.remove THEN None ELSE appearance
  /\ UNCHANGED <<hostVars, faults, charVars, job, lossless, office>>

Fault == faults > 0 /\ faults' = faults - 1

LoseEvent(kind) ==
  /\ Fault
  /\ events[kind] > 0
  /\ events' = [events EXCEPT ![kind] = @ - 1]
  /\ UNCHANGED <<hostVars, mapperVars, charVars, job, wire, lossless, office>>

DuplicateEvent(kind) ==
  /\ Fault
  /\ events[kind] > 0
  /\ events' = [events EXCEPT ![kind] = @ + 1]
  /\ UNCHANGED <<hostVars, mapperVars, charVars, job, wire, lossless, office>>

-----------------------------------------------------------------------------
(* The reconcile job, and setupCompany. *)

\* BUG: the modulus is forgotten.
NextTickUnwrapped == job.tick + 1

NextTick == (job.tick + 1) % ResyncEvery

\* BUG: the mapper is not reset, so it goes on diffing against lost pushes.
MapperAtTickKept == mapper

\* mapper.reset() is called before the snapshot is read.
MapperAtTick == IF NextTick = 0 THEN Fresh ELSE mapper

\* Every ResyncEvery-th tick resyncs first, with the appearances as they are
\* now, before the snapshot is read.
JobTick ==
  /\ job.phase = "idle"
  /\ job' = [job EXCEPT !.phase = IF NextTick = 0 THEN "resync" ELSE "reconcile",
                        !.step = "agents", !.tick = NextTick,
                        !.look = IF NextTick = 0 THEN assigned ELSE None]
  /\ mapper' = MapperAtTick
  /\ UNCHANGED <<hostVars, faults, events, appearance, charVars, wire, lossless, office>>

\* bootstrapSnapshot lists the agents first and reads the active runs later.
ReadAgents ==
  /\ job.phase # "idle" /\ job.step = "agents"
  /\ job' = [job EXCEPT !.step = "runs", !.listed = host.employment = "employed"]
  /\ UNCHANGED <<hostVars, faults, events, mapperVars, charVars, wire, lossless, office>>

ReadRuns ==
  /\ job.phase # "idle" /\ job.step = "runs"
  /\ job' = [job EXCEPT !.runs = host.runs,
                        !.step = IF job.phase = "resync" THEN "ingest" ELSE "characters"]
  /\ UNCHANGED <<hostVars, faults, events, mapperVars, charVars, wire, lossless, office>>

\* Both failures are logged and swallowed; reconciling goes on after a failed resync.
NextJob == IF job.phase = "resync"
           THEN [job EXCEPT !.phase = "reconcile", !.step = "agents", !.look = None,
                            !.listed = FALSE, !.runs = 0]
           ELSE [job EXCEPT !.phase = "idle", !.step = "agents", !.look = None,
                            !.listed = FALSE, !.runs = 0]

ReadFails ==
  /\ Fault
  /\ job.phase \in {"resync", "reconcile"} /\ job.step \in {"agents", "runs"}
  /\ job' = NextJob
  /\ UNCHANGED <<hostVars, events, mapperVars, charVars, wire, lossless, office>>

\* ensureCompanyCharacters rebuilds the map from the snapshot's agents; a default
\* for a new agent is persisted and, when reconciling, pushed at once.
AssignCharacters(look) ==
  /\ job.phase \in {"setup", "reconcile"} /\ job.step = "characters"
  /\ Len(wire) < MaxWire
  /\ look.name = HostName
  /\ persisted # None => look = persisted
  /\ assigned' = IF job.listed THEN look ELSE None
  /\ persisted' = IF job.listed THEN look ELSE persisted
  /\ IF job.phase = "reconcile" /\ job.listed /\ persisted = None
     THEN /\ mapper' = MapAppearance(mapper, look).s
          /\ Push(Batches(MapAppearance(mapper, look).p))
          /\ appearance' = look
     ELSE UNCHANGED <<mapper, appearance, wire>>
  /\ job' = [job EXCEPT !.step = "ingest"]
  /\ UNCHANGED <<hostVars, faults, events, lossless, office>>

\* BUG: a resync forgets the appearances.
SyncedLookForgotten == [setup |-> assigned, resync |-> None, reconcile |-> None][job.phase]

\* What syncAppearances is called with right after the snapshot is ingested.
SyncedLook == [setup |-> assigned, resync |-> job.look, reconcile |-> None][job.phase]

Ingest ==
  /\ job.phase # "idle" /\ job.step = "ingest"
  /\ Len(wire) + 2 <= MaxWire
  /\ LET seen == IF job.listed THEN MapSnapshotAgent(mapper, appearance, HostName, job.runs)
                 ELSE Cell(mapper)
         seated == MapAppearance(seen.s, SyncedLook)
     IN  IF SyncedLook = None
         THEN /\ mapper' = seen.s
              /\ Push(Batches(seen.p))
              /\ UNCHANGED appearance
         ELSE /\ mapper' = seated.s
              /\ Push(Batches(seen.p) \o Batches(seated.p))
              /\ appearance' = SyncedLook
  /\ job' = NextJob
  /\ UNCHANGED <<hostVars, faults, events, charVars, lossless, office>>

-----------------------------------------------------------------------------
(* The sink and the worker's process. *)

\* BUG: the newest batch first.
SinkSendNewest ==
  /\ wire # <<>>
  /\ office' = Apply(office, Last(wire))
  /\ wire' = Front(wire)
  /\ UNCHANGED <<hostVars, faults, events, mapperVars, charVars, job, lossless>>

SinkSend ==
  /\ wire # <<>>
  /\ office' = Apply(office, Head(wire))
  /\ wire' = Tail(wire)
  /\ UNCHANGED <<hostVars, faults, events, mapperVars, charVars, job, lossless>>

\* A post that fails is recorded in lastError and not tried again.
SinkFails ==
  /\ Fault
  /\ wire # <<>>
  /\ wire' = Tail(wire)
  /\ lossless' = FALSE
  /\ UNCHANGED <<hostVars, events, mapperVars, charVars, job, office>>

Restart ==
  /\ Fault
  /\ mapper' = Fresh
  /\ appearance' = None
  /\ assigned' = None
  /\ wire' = <<>>
  /\ lossless' = TRUE
  /\ job' = [phase |-> "setup", step |-> "agents", tick |-> 0,
             listed |-> FALSE, runs |-> 0, look |-> None]
  /\ UNCHANGED <<hostVars, events, persisted, office>>

HostNext == Hire \/ StartRun \/ EndRun \/ AskHuman \/ LetGo

JobNext == JobTick \/ ReadAgents \/ ReadRuns \/ (\E look \in Looks : AssignCharacters(look)) \/ Ingest

FaultNext ==
  \/ \E k \in EventKinds : LoseEvent(k) \/ DuplicateEvent(k)
  \/ ReadFails
  \/ SinkFails
  \/ Restart

Next ==
  \/ HostNext
  \/ \E k \in EventKinds : HandleEvent(k)
  \/ JobNext
  \/ SinkSend
  \/ FaultNext

(* The scheduler calls the job every five minutes, reads are answered, the *)
(* queue of the sink is drained and an event that is neither lost nor      *)
(* handled stays deliverable.  Nothing obliges the host to act or a fault  *)
(* to happen.  The bound on the wire is the model's alone and may disable  *)
(* a handler for a while, hence the strong fairness of those that push.    *)
Fairness ==
  /\ WF_vars(JobTick)
  /\ WF_vars(ReadAgents)
  /\ WF_vars(ReadRuns)
  /\ SF_vars(\E look \in Looks : AssignCharacters(look))
  /\ SF_vars(Ingest)
  /\ SF_vars(\E k \in EventKinds : HandleEvent(k))
  /\ WF_vars(SinkSend)

Spec == Init /\ [][Next]_vars /\ Fairness

-----------------------------------------------------------------------------
TypeOK ==
  /\ host \in [employment : Employments, runs : 0 .. MaxRuns]
  /\ activity \in 0 .. MaxActivity
  /\ faults \in 0 .. MaxFaults
  /\ events \in [EventKinds -> 0 .. MaxActivity + MaxFaults]
  /\ mapper \in AgentFeedState
  /\ {appearance, assigned, persisted} \subseteq Looks \cup {None}
  /\ job \in Jobs
  /\ wire \in Seq(Patches) /\ Len(wire) <= MaxWire
  /\ lossless \in BOOLEAN
  /\ office \in Characters \cup {None}

\* What a character becomes once the batches are applied to it, one by one.
Shown(ch, batches) ==
  LET shown[n \in 0 .. Len(batches)] ==
        IF n = 0 THEN ch ELSE Apply(shown[n - 1], batches[n])
  IN  shown[Len(batches)]

(* While no post has failed, the batches still in the sink lead the        *)
(* surface exactly where the mapper believes it to be, however events,     *)
(* snapshots and appearance pushes interleaved when they were queued.      *)
OfficeFollowsMapper ==
  lossless => Agrees(mapper, Shown(office, wire))

(* Self-healing: whatever was lost, duplicated or reordered, in the end an  *)
(* employed agent has a character, shown active exactly if it has a run     *)
(* (the contract of resyncCompany).                                         *)
WorkShown ==
  <>[](host.employment = "employed" =>
         office # None /\ (office.status = "active" <=> host.runs > 0))

(* In the end an employed agent's character wears the assignment kept for   *)
(* it in the plugin state, even if the push that carried it was lost.       *)
CharacterShown ==
  <>[](host.employment = "employed" =>
         /\ persisted # None
         /\ office # None
         /\ office.char = persisted.char
         /\ office.decl.seat = persisted.seat)

(* In the end an idle character shows no task caption. *)
CaptionCleared ==
  <>[](host.employment = "employed" /\ office # None /\ office.status = "waiting" =>
         office.caption = None)

\* Whatever else the host said of the agent was handled before it left, and no snapshot
\* that was begun before then is still to be ingested.
LeavesLast ==
  host.employment = "gone" => ~ job.listed /\ \A k \in EventKinds \ {"offline"} : events[k] = 0

(* In the end the character of an agent that has left is gone, also if a    *)
(* resync was under way when it left: neither a late event nor a snapshot   *)
(* that still lists the agent can declare it again.                         *)
LeaverDespawns == []LeavesLast => <>[](host.employment = "gone" => office = None)
=============================================================================
