--------------------------- MODULE CompanyLifecycle ---------------------------
(***************************************************************************)
(* The worker's life with one company (worker.ts): its setup, started at   *)
(* boot, by an event or by a query that finds no runtime; the reconcile    *)
(* job, the persistence timer and the operator's configuration changes;    *)
(* and what they share - the company's runtime, its relay with the         *)
(* tool-activity poller, its log of communications.                        *)
(*                                                                         *)
(* The worker is one thread: a step is the code between two awaits, so     *)
(* what a task found before an await may be stale when it goes on.         *)
(***************************************************************************)
EXTENDS RelayConfig, CommsLog

CONSTANTS
  Configs,       \* the configurations the operator tries to save
  FirstConfigs,  \* those of them the worker may find when it starts
  Slots,         \* setups that events and queries may have started at a time
  ResyncEvery,   \* RESYNC_EVERY_N_RECONCILES
  MaxChanges,    \* configuration changes
  MaxFaults,     \* failed reads, unresolved secrets, crashes
  MaxRecords     \* communications recorded

ASSUME LifecycleBounds ==
  /\ FirstConfigs # {} /\ FirstConfigs \subseteq Configs /\ Configs \subseteq RawConfigs
  /\ ResyncEvery \in Nat \ {0}
  /\ {MaxChanges, MaxFaults, MaxRecords} \subseteq Nat
  /\ "boot" \notin Slots

\* A configuration that was saved earlier has passed the gate then.
ASSUME SavedAssumption == \A raw \in FirstConfigs : ValidConfig(raw)

VARIABLES
  worker,     \* "boot" until every company is set up, "up", or "down"
  left,       \* what is left of MaxChanges and MaxFaults
  saved,      \* the operator's configuration at the host
  runs,       \* the state of each run at the host
  inbox,      \* run events on their way to the worker, in order
  runtimes,   \* every CompanyRuntime: has its store a snapshot
  present,    \* which of them is runtime.companies' entry (0: none)
  relay,      \* see RelayConfig
  comms,      \* see CommsLog
  disk,       \* the compact log in plugin state
  tasks,      \* what each setup, the job and the configuration change are at
  ticks,      \* reconciliationTickCount modulo ResyncEvery
  overlapped  \* two calls of configure have overlapped

vars == <<worker, left, saved, runs, inbox, runtimes, present, relay, comms, disk,
          tasks, ticks, overlapped>>

hostVars == <<saved, runs, inbox>>

Setups  == {"boot"} \cup Slots
TaskIds == Setups \cup {"job", "change"}

RunStates == {"new", "active", "over"}
RunEvents == [kind : {"started", "ended"}, run : Runs]
NoEvent   == [kind |-> "none", run |-> "none"]
Causes    == {"boot", "event", "query", "none"}

Stages == {"idle", "buckets", "comms", "snapshot", "characters", "token", "api",
           "resync"}

NoCompact == [limit |-> 0, entries |-> <<>>]

\* A task that is not under way.
Idle == [at |-> "idle", why |-> "none", event |-> NoEvent, rt |-> 0, log |-> NoCompact,
         seen |-> {}, raw |-> CHOOSE raw \in Configs : TRUE, saw |-> 0, token |-> NoToken]

Active == {r \in Runs : runs[r] = "active"}

-----------------------------------------------------------------------------
SetupFor(why, event) == [Idle EXCEPT !.at = "buckets", !.why = why, !.event = event]

Boots(listed) ==
  /\ worker = IF listed THEN "boot" ELSE "up"
  /\ tasks = [t \in TaskIds |-> IF t = "boot" /\ listed THEN SetupFor("boot", NoEvent) ELSE Idle]

\* bootstrapAllCompanies lists the companies whose scope the host has granted by then.
LifecycleInit ==
  /\ \E listed \in BOOLEAN : Boots(listed)
  /\ left = [changes |-> MaxChanges, faults |-> MaxFaults]
  /\ saved \in FirstConfigs
  /\ runs = [r \in Runs |-> "new"]
  /\ inbox = <<>>
  /\ runtimes = <<>> /\ present = 0
  /\ relay = NoRelay
  /\ comms = EmptyLog /\ disk = NoCompact
  /\ ticks = 0 /\ overlapped = FALSE

-----------------------------------------------------------------------------
\* The host: runs start and end, the operator saves a configuration that passes the gate.
StartRun(r) ==
  /\ runs[r] = "new"
  /\ runs' = [runs EXCEPT ![r] = "active"]
  /\ inbox' = Append(inbox, [kind |-> "started", run |-> r])
  /\ UNCHANGED <<worker, left, saved, runtimes, present, relay, comms, disk, tasks, ticks,
                 overlapped>>

EndRun(r) ==
  /\ runs[r] = "active"
  /\ runs' = [runs EXCEPT ![r] = "over"]
  /\ inbox' = Append(inbox, [kind |-> "ended", run |-> r])
  /\ UNCHANGED <<worker, left, saved, runtimes, present, relay, comms, disk, tasks, ticks,
                 overlapped>>

-----------------------------------------------------------------------------
\* recordComms: what a batch says is the mapper's affair (FeedMapper); it may be nothing,
\* and it may carry a line of dialog. Nothing is sent, or recorded, without a relay.
Sent(r, log) ==
  {log} \cup (IF r.current = 0 THEN {}
             ELSE {b \in {RecordedBatch(log, lines) : lines \in 0 .. 1} : b.seq <= MaxRecords})

SentTwice(r, log) == UNION {Sent(r, b) : b \in Sent(r, log)}

\* An event of a company that is set up: its run is tracked or no longer tracked, and the
\* event goes through the store and the mapper.
Handled(r, event) ==
  CASE event.kind = "started" -> Tracking(r, {event.run})
    [] event.kind = "ended"   -> Untracking(r, event.run)
    [] OTHER                  -> r

Configuring(t) == tasks[t].at \in {"token", "api"}

\* t enters or leaves an await of configure while another call is inside one.
Overlaps(t) == \E other \in TaskIds \ {t} : Configuring(other)

\* What follows setupCompany, whose last await, of syncAppearances, waits for nothing and is
\* over in the same turn: an event's handler goes on with its event if the company has
\* a runtime, a query is answered, the boot is over.
AfterSetup(t, r, log) ==
  /\ IF tasks[t].why = "event" /\ present # 0
     THEN /\ relay' = Handled(r, tasks[t].event)
          /\ comms' \in Sent(r, log)
     ELSE /\ relay' = r
          /\ comms' = log
  /\ worker' = IF t = "boot" THEN "up" ELSE worker
  /\ tasks' = [tasks EXCEPT ![t] = Idle]

\* What follows configure. The capacity of the log is set, the relay - if there is one now -
\* is fed; the configuration change goes on to read a fresh snapshot for it.
AfterConfigure(t, r, raw) ==
  LET limited == Limited(comms, raw.limit)
  IN IF t = "change"
     THEN /\ relay' = r
          /\ comms' = limited
          /\ tasks' = [tasks EXCEPT ![t] = IF r.current = 0 THEN Idle
                                           ELSE [Idle EXCEPT !.at = "resync"]]
          /\ UNCHANGED <<worker>>
     ELSE \E log \in SentTwice(r, limited) : AfterSetup(t, Tracking(r, tasks[t].seen), log)

\* configure up to its first await.
Configure(t, raw) ==
  /\ overlapped' = (overlapped \/ Overlaps(t))
  /\ CASE EndsAtOnce(raw) ->
            AfterConfigure(t, SwitchedOff(relay, relay.current), raw)
       [] ~EndsAtOnce(raw) /\ FirstAwait(raw) = {} ->
            AfterConfigure(t, Installed(relay, [raw |-> raw, saw |-> relay.current,
                                                token |-> NoToken], NoToken), raw)
       [] ~EndsAtOnce(raw) /\ FirstAwait(raw) # {} ->
            /\ \E await \in FirstAwait(raw) :
                 tasks' = [tasks EXCEPT ![t].at = await, ![t].raw = raw,
                                        ![t].saw = relay.current, ![t].token = NoToken]
            /\ UNCHANGED <<relay, comms, worker>>

\* A secret is resolved. The API token is asked for after the feed's.
SecretResolved(t) ==
  /\ \E value \in Tokens :
       IF tasks[t].at = "token" /\ NextAwait(tasks[t].raw) # {}
       THEN /\ tasks' = [tasks EXCEPT ![t].at = "api", ![t].token = value]
            /\ UNCHANGED <<relay, comms, worker>>
       ELSE LET call == IF tasks[t].at = "token" THEN [tasks[t] EXCEPT !.token = value]
                        ELSE tasks[t]
            IN AfterConfigure(t, Installed(relay, call,
                                 IF tasks[t].at = "api" THEN value ELSE NoToken), call.raw)
  /\ Configuring(t)
  /\ overlapped' = (overlapped \/ Overlaps(t))
  /\ UNCHANGED <<left, hostVars, runtimes, present, disk, ticks>>

Fault == left.faults > 0 /\ left' = [left EXCEPT !.faults = @ - 1]

\* A secret that is not: without the feed's token the entry the call saw is disposed and the
\* company's relay deleted; without the API token there is only no poller.
SecretUnresolved(t) ==
  /\ Configuring(t) /\ Fault
  /\ AfterConfigure(t, IF tasks[t].at = "token" THEN SwitchedOff(relay, tasks[t].saw)
                       ELSE Installed(relay, tasks[t], NoToken), tasks[t].raw)
  /\ overlapped' = (overlapped \/ Overlaps(t))
  /\ UNCHANGED <<hostVars, runtimes, present, disk, ticks>>

-----------------------------------------------------------------------------
\* A setup up to its first await, of its own or for the event or query that needs one.
Begin(t, why, event) ==
  /\ tasks[t] = Idle
  /\ tasks' = [tasks EXCEPT ![t] = SetupFor(why, event)]

Deliver ==
  /\ worker = "up" /\ inbox # <<>>
  /\ inbox' = Tail(inbox)
  /\ \/ /\ present # 0
        /\ relay' = Handled(relay, Head(inbox))
        /\ comms' \in Sent(relay, comms)
        /\ UNCHANGED tasks
     \/ /\ present = 0
        /\ \E t \in Slots : Begin(t, "event", Head(inbox))
        /\ UNCHANGED <<relay, comms>>
  /\ UNCHANGED <<worker, left, saved, runs, runtimes, present, disk, ticks, overlapped>>

\* getOrBootstrapCompany: a query of a company that has no runtime sets it up; a runtime that
\* is there is taken to be bootstrapped and read as it is.
Query ==
  /\ worker = "up" /\ present = 0
  /\ \E t \in Slots : Begin(t, "query", NoEvent)
  /\ UNCHANGED <<worker, left, hostVars, runtimes, present, relay, comms, disk, ticks, overlapped>>

\* The compact buckets are there: the company gets a runtime if it has none, and the log is
\* asked for in the same step.
BucketsLoaded(t) ==
  /\ tasks[t].at = "buckets"
  /\ IF present = 0
     THEN /\ runtimes' = Append(runtimes, [filled |-> FALSE])
          /\ present' = Len(runtimes) + 1
     ELSE UNCHANGED <<runtimes, present>>
  /\ tasks' = [tasks EXCEPT ![t].at = "comms", ![t].rt = present', ![t].log = disk]
  /\ UNCHANGED <<worker, left, hostVars, relay, comms, disk, ticks, overlapped>>

CommsLoaded(t) ==
  /\ tasks[t].at = "comms"
  /\ comms' = IF tasks[t].log = NoCompact THEN comms ELSE Restored(comms, tasks[t].log)
  /\ tasks' = [tasks EXCEPT ![t].at = "snapshot", ![t].log = NoCompact]
  /\ UNCHANGED <<worker, left, hostVars, runtimes, present, relay, disk, ticks, overlapped>>

Bootstrapped(t) ==
  /\ t \in Setups /\ tasks[t].at = "snapshot"
  /\ runtimes' = [runtimes EXCEPT ![tasks[t].rt].filled = TRUE]
  /\ tasks' = [tasks EXCEPT ![t].at = "characters", ![t].seen = Active]
  /\ UNCHANGED <<worker, left, hostVars, present, relay, comms, disk, ticks, overlapped>>

\* ensureCompanyCharacters, whose failure is only logged, and then ctx.config.get: nothing of
\* what is modelled here is touched between the two answers.
ConfigRead(t) ==
  /\ t \in Setups /\ tasks[t].at = "characters"
  /\ Configure(t, saved)
  /\ UNCHANGED <<left, hostVars, runtimes, present, disk, ticks>>

\* ctx.config.get fails: the company is left without a relay of its own making.
ConfigUnread(t) ==
  /\ t \in Setups /\ tasks[t].at = "characters" /\ Fault
  /\ AfterSetup(t, relay, comms)
  /\ UNCHANGED <<hostVars, runtimes, present, disk, ticks, overlapped>>

\* A read of setupCompany fails. The event is dropped, a query rolls the company's runtime
\* back, the boot - and with it the worker - fails.
SetupFails(t) ==
  /\ t \in Setups /\ tasks[t].at \in {"buckets", "comms", "snapshot"} /\ Fault
  /\ present' = IF tasks[t].why = "query" THEN 0 ELSE present
  /\ worker' = IF t = "boot" THEN "down" ELSE worker
  /\ tasks' = [tasks EXCEPT ![t] = Idle]
  /\ UNCHANGED <<hostVars, runtimes, relay, comms, disk, ticks, overlapped>>

-----------------------------------------------------------------------------
\* The operator saves a configuration and the host delivers it.
ChangeConfig(raw) ==
  /\ worker = "up" /\ left.changes > 0 /\ raw # saved
  /\ ValidConfig(raw)
  /\ tasks["change"] = Idle
  /\ saved' = raw
  /\ left' = [left EXCEPT !.changes = @ - 1]
  /\ Configure("change", raw)
  /\ UNCHANGED <<runs, inbox, runtimes, present, disk, ticks>>

\* resyncCompany: the snapshot goes to the relay the company has by then. A failed read is
\* only logged.
Resynced(t) ==
  /\ tasks[t].at = "resync"
  /\ \/ /\ comms' \in SentTwice(relay, comms)
        /\ UNCHANGED left
     \/ /\ Fault
        /\ UNCHANGED comms
  /\ tasks' = [tasks EXCEPT ![t] = IF t = "change" THEN Idle
                                   ELSE [Idle EXCEPT !.at = "snapshot", !.rt = present]]
  /\ UNCHANGED <<worker, hostVars, runtimes, present, relay, disk, ticks, overlapped>>

\* BUG: the counter is not reset.
NextTickUnwrapped(n) == n + 1

NextTick(n) == (n + 1) % ResyncEvery

\* The reconciliation job: every ResyncEvery-th tick it first resyncs the relay.
JobTick ==
  /\ worker = "up" /\ tasks["job"] = Idle /\ present # 0
  /\ ticks' = NextTick(ticks)
  /\ tasks' = [tasks EXCEPT !["job"] =
                 IF ticks' = 0 /\ relay.current # 0 THEN [Idle EXCEPT !.at = "resync"]
                 ELSE [Idle EXCEPT !.at = "snapshot", !.rt = present]]
  /\ UNCHANGED <<worker, left, hostVars, runtimes, present, relay, comms, disk, overlapped>>

\* reconcileCompany's snapshot fills the runtime it found; a runtime deleted meanwhile is
\* found no more when the resync came first.
Reconciled ==
  /\ tasks["job"].at = "snapshot"
  /\ IF tasks["job"].rt = 0 THEN /\ tasks' = [tasks EXCEPT !["job"] = Idle]
                                 /\ UNCHANGED runtimes
     ELSE /\ runtimes' = [runtimes EXCEPT ![tasks["job"].rt].filled = TRUE]
          /\ tasks' = [tasks EXCEPT !["job"].at = "characters", !["job"].seen = Active]
  /\ UNCHANGED <<worker, left, hostVars, present, relay, comms, disk, ticks, overlapped>>

\* BUG: active runs are not tracked again.
ReconcileFedUntracked ==
  /\ tasks["job"].at = "characters"
  /\ comms' \in SentTwice(relay, comms)
  /\ tasks' = [tasks EXCEPT !["job"] = Idle]
  /\ UNCHANGED <<worker, left, hostVars, runtimes, present, relay, disk, ticks, overlapped>>

\* ... and, once the characters of new agents are persisted, the relay and its poller.
ReconcileFed ==
  /\ tasks["job"].at = "characters"
  /\ comms' \in SentTwice(relay, comms)
  /\ relay' = Tracking(relay, tasks["job"].seen)
  /\ tasks' = [tasks EXCEPT !["job"] = Idle]
  /\ UNCHANGED <<worker, left, hostVars, runtimes, present, disk, ticks, overlapped>>

ReconcileFails ==
  /\ tasks["job"].at \in {"snapshot", "characters"} /\ Fault
  /\ tasks' = [tasks EXCEPT !["job"] = Idle]
  /\ UNCHANGED <<worker, hostVars, runtimes, present, relay, comms, disk, ticks, overlapped>>

\* persistAllBuckets on its timer, which runs once the boot is over: only companies that
\* have a runtime.
PersistTick ==
  /\ worker = "up" /\ present # 0
  /\ disk' = Compact(comms)
  /\ UNCHANGED <<worker, left, hostVars, runtimes, present, relay, comms, tasks, ticks,
                 overlapped>>

\* onShutdown, or a crash: nothing is persisted on the way. The process ends with all it held.
Stop ==
  /\ worker # "down" /\ Fault
  /\ worker' = "down"
  /\ relay' = ShutDown(relay)
  /\ tasks' = [t \in TaskIds |-> Idle]
  /\ UNCHANGED <<hostVars, runtimes, present, comms, disk, ticks, overlapped>>

Restart ==
  /\ worker = "down"
  /\ \E listed \in BOOLEAN :
       /\ worker' = IF listed THEN "boot" ELSE "up"
       /\ tasks' = [t \in TaskIds |-> IF t = "boot" /\ listed THEN SetupFor("boot", NoEvent) ELSE Idle]
  /\ runtimes' = <<>> /\ present' = 0
  /\ relay' = NoRelay /\ comms' = EmptyLog
  /\ inbox' = <<>>
  /\ ticks' = 0 /\ overlapped' = FALSE
  /\ UNCHANGED <<left, saved, runs, disk>>

SetupStep(t) ==
  \/ BucketsLoaded(t) \/ CommsLoaded(t) \/ Bootstrapped(t)
  \/ ConfigRead(t) \/ ConfigUnread(t) \/ SetupFails(t)

LifecycleNext ==
  \/ \E r \in Runs : StartRun(r) \/ EndRun(r)
  \/ \E raw \in Configs : ChangeConfig(raw)
  \/ \E t \in Setups : SetupStep(t)
  \/ \E t \in TaskIds : SecretResolved(t) \/ SecretUnresolved(t) \/ Resynced(t)
  \/ Deliver \/ Query
  \/ JobTick \/ Reconciled \/ ReconcileFed \/ ReconcileFails
  \/ PersistTick \/ Stop \/ Restart

LifecycleSpec == LifecycleInit /\ [][LifecycleNext]_vars

-----------------------------------------------------------------------------
Polling == relay.current # 0 /\ relay.entries[relay.current].poller = "running"

TaskRecords ==
  [at : Stages, why : Causes, event : RunEvents \cup {NoEvent}, rt : Nat,
   log : Compacts, seen : SUBSET Runs, raw : Configs, saw : Nat, token : Resolved]

LifecycleTypeOK ==
  /\ worker \in {"boot", "up", "down"}
  /\ left \in [changes : 0 .. MaxChanges, faults : 0 .. MaxFaults]
  /\ saved \in Configs
  /\ runs \in [Runs -> RunStates]
  /\ inbox \in Seq(RunEvents)
  /\ runtimes \in Seq([filled : BOOLEAN])
  /\ present \in 0 .. Len(runtimes)
  /\ relay \in Relays
  /\ comms \in Logs /\ disk \in Compacts
  /\ tasks \in [TaskIds -> TaskRecords]
  /\ ticks \in 0 .. ResyncEvery - 1
  /\ overlapped \in BOOLEAN

\* The company's relay is one whose sink still posts, and whose poller runs exactly when
\* its API token was resolved - also when calls of configure overlap (relay.ts:654-793).
CurrentRelayLive ==
  /\ \A i \in 1 .. Len(relay.entries) : EntryCoherent(relay.entries[i])
  /\ relay.current # 0 =>
       relay.entries[relay.current].sink = "live" /\ relay.entries[relay.current].poller # "stopped"

\* As long as no two calls of configure overlapped, a relay that was replaced or switched
\* off has no open sink and no running poller left (relay.ts:611-613).
NoRelayLeft ==
  ~ overlapped =>
    \A i \in 1 .. Len(relay.entries) : i # relay.current => ~ Live(relay.entries[i])

\* ... and the relay the company has is configured as the operator last saved it, whichever
\* of setup, event, query and configuration change configured it last.
SavedConfigInForce ==
  ~ overlapped /\ relay.current # 0 /\ (\A t \in TaskIds : ~ Configuring(t)) =>
    /\ ~ EndsAtOnce(saved)
    /\ SameSettings(relay.entries[relay.current].raw, saved)

\* A configuration that passed the gate when it was saved is not rejected when the relay is
\* configured with it: the two readings of its fields do not drift (worker.ts:947-956).
SavedConfigsAccepted == ~ Rejected(saved)

\* The log of communications is never longer than its capacity, in the order of recording,
\* and gives no number twice - through restarts, restores and changes of the capacity.
LogOrdered == Bounded(comms) /\ InOrder(comms)

-----------------------------------------------------------------------------
(* Fairness: the reconciliation job is scheduled and the host answers its  *)
(* reads. Nothing is assumed of setups, events, queries, the operator and  *)
(* restarts: the job alone has to make up for what they miss.              *)
JobStep == JobTick \/ Resynced("job") \/ Reconciled \/ ReconcileFed

FairLifecycle == LifecycleSpec /\ WF_vars(JobStep)

\* A run that stays active while the company's relay polls comes to be tracked, whatever
\* configuration change, lost event or restart came in between (worker.ts:501-505).
RunsComeTracked ==
  \A r \in Runs :
    (runs[r] = "active" /\ present # 0 /\ Polling)
      ~> (runs[r] # "active" \/ present = 0 \/ ~ Polling \/ r \in relay.entries[relay.current].tracked)

-----------------------------------------------------------------------------
(* Violated by the code.                                                   *)

\* worker.ts:672-678: a company whose bootstrap failed is not kept as if it were
\* bootstrapped.
PresentIsBootstrapped ==
  worker = "up" /\ present # 0 /\ (\A t \in Setups : tasks[t] = Idle) => runtimes[present].filled

\* worker.ts:583-585: a run is tracked as long as it is active, no longer. Here: once its
\* end has been delivered and no task is under way.
EndedRunsUntracked ==
  inbox = <<>> /\ relay.current # 0 /\ (\A t \in TaskIds : tasks[t] = Idle) =>
    \A r \in relay.entries[relay.current].tracked : runs[r] # "over"

\* relay.ts:622-631: a company whose last configuration was rejected, or switched off, has
\* no relay.
OffStaysOff ==
  EndsAtOnce(saved) /\ (\A t \in TaskIds : tasks[t] = Idle) => relay.current = 0
=============================================================================
