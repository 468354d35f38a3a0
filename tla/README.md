# Paperclip Pixels: a TLA+ verification project

Paperclip Pixels shows the agents of a Paperclip company as characters in a
Pixel Agents office. A *worker* plugin inside Paperclip listens to the host's
events, keeps a derived store for its own UI, and translates what happens into
*feed operations*; an *embedding* plugin inside the Pixel Agents server applies
them to the office. This directory models the parts of that system whose
correctness depends on order, loss, failure and stale state.

Paths below are relative to `plugins/paperclip/src/` unless they start
elsewhere. `PROJECT.json` maps every definition to the lines it models.

## 1. The system

| Component | State | Operations | Talks to |
| --- | --- | --- | --- |
| Feed mapper `feed-mapper.ts` | per agent: last declaration, character, status, caption flag, run count; issue assignees; appearances | `mapEvent`, `mapSnapshot`, `setAppearances`, `mapToolActivity`, `reset` | returns operations to the relay |
| Feed sink `feed-sink.ts` | promise queue, `disposed`, `lastError` | `push`, `dispose` | posts batches to the feed server |
| Relay `relay.ts` | per company: mapper, sink, poller, config | `configure`, `resyncCompany`, `ingest*`, `syncAppearances`, `disposeAll` | worker, sink, host secrets |
| Worker `worker.ts` | runtime per company, tick counter, timers | setup, event handler, reconcile job, data handlers, `onConfigChanged`, `onShutdown` | everything |
| Snapshot bootstrap `snapshot.ts` | none | `bootstrapSnapshot` (many awaits) | host API |
| Bridge store `core/reducer/` | agents with runs, issues, approvals, feedback, dedupe table, publish states | `applyPaperclipEvent`, `reconcile`, `replaceAuthoritativeSnapshot` | windows, UI listeners |
| Temporal windows `core/temporal/` | per agent: ring buffer of 5-minute buckets, tracked runs, timestamps | `record*`, `noteContext`, export, restore | store, persistence |
| Behavioral signals `core/behavior/` | none | pure scores | store |
| Communications log `comms-store.ts` | per company: sequence number, limit, entries | `append`, `setLimit`, `list`, export, restore | relay, UI, persistence |
| Tool activity poller `tool-activity-poller.ts` | cursor per run | `trackRun`, `untrackRun`, `pollOnce` | host log endpoint, mapper |
| Character assignments `core/domain/characters.ts`, `worker.ts` | map in memory, map in host state | `ensureCompanyCharacters`, user assignment | host state, relay |
| Actions and policy `actions.ts`, `core/policy/` | none | company message, reply, appearance, layout | host API, store |
| Persistence `persistence.ts` | the host's key-value state | loads and saves of every record above | host state |
| Character composer `ui/components/character-composer.tsx`, `common/src/composition.ts` | drafts per agent in the page, second record per agent in host state | select, convert, save, validate, fill | actions, worker |
| Feed server and embedding `plugins/pixel-agents/src/` | declared-agent cache, captured sources | `handle`, `register`, `onStart` | Pixel Agents host |
| UI `ui/state.ts`, `ui/use-bridge.ts` | snapshot, loading, error, gap flag | reducer actions | worker data and streams |

All of the worker is one JavaScript thread: a step runs from one `await` to the
next. What interleaves are event handlers, the reconcile job, configuration
changes, actions, timers and posts in flight. The host delivers events at least
once and in no order (`core/reducer/idempotency.ts:4`); a snapshot is read over
many awaits; a failed post is dropped; the process may restart. Section 6 lists
what this makes hard, `PROJECT.json` lists each hazard at its line.

What makes each part correct:

* *Mapper*: its diffing state agrees with what it has pushed, its run edges are
  consistent, nothing is said about a character that does not exist, a human
  wait is not lost.
* *Sink and pipeline*: batches arrive in the order the mapper produced them;
  whatever is lost is repaired by the periodic resync; leavers disappear;
  captions are cleared.
* *Relay*: one live sink and one running poller per company, none without a
  valid configuration.
* *Worker*: a company is either completely set up or not at all.
* *Store*: projections follow the maps they are derived from, runs and tracker
  agree, a reconcile repairs drift, duplicates change nothing.
* *Windows*: the ring is a bounded queue; buckets are in order.
* *Log*: bounded, ordered, paged without gaps or repeats.
* *Assignments*: what the user chose is what is kept and shown; defaults differ.
* *Composer*: a draft is valid and is not lost before it is saved.
* *Poller*: calls are reported in order, each once, as long as polls do not overlap.
* *Actions*: people do not get the host's raw errors, a reply starts no new work.
* *Feed server*: a batch that is refused leaves no trace; a restart declares the
  roster as it was.
* *Page*: it shows the company it is at, and in the end what the worker has.

## 2. Modules

| Module | Models | State and actions |
| --- | --- | --- |
| `FeedMapper` | every handler of `PluginFeedMapper` | no variables: each handler is an operator from one agent's `AgentFeedState` to a *cell*, the next state and the patch of operations returned; also the external surface that applies a patch, and `Agrees` |
| `FeedMirror` | one company's mapper facing any input | `agents`, `appearances`, `issueAssignees` are the private maps of the class, `office` a surface that receives everything; one action per handler |
| `MCFeedMirror` | symmetry for TLC | |
| `FeedMapperProofs`, `FeedMirrorProofs`, `FeedPipelineProofs` | TLAPS proofs about each handler for one agent, and what they give `FeedMirror` and `FeedPipeline` | |
| `FeedPipeline` | one agent from the host to its character | host, events in flight, mapper, reconcile job (one step per await), assignments, the sink's queue, the surface; faults: lost and duplicated events, failed posts, failed reads, restarts |
| `BridgeStore` | one company's derived store in an open environment | `agents`, `issues`, `approvals` are the maps of `BridgeState`, `tracked` the active runs of the window store; one action per kind of event, `Replace` (setup), `Reconcile` (the job), `Restart` (nothing is left in memory) and `RestoreBuckets` (a setup's stored buckets, whatever the store holds by then) |
| `BridgeSync` | the store beside its host; extends `BridgeStore` | `host`, `inflight` events, the dedupe table `seen`, `counted` run starts, whether the company is `present`, and the `tasks`: the setup at boot, those an event starts, which may overlap, and the job, each of which reads buckets, agents and approvals, issues, and runs over awaits; `abandoned` is kept for the properties only; faults: redelivery, failed reads, restarts |
| `BridgeSyncProofs` | TLAPS proofs about `BridgeStore` and `BridgeSync`, and that the second implements the first | |
| `BoundedQueue` | no code: what the ring promises, a bounded queue with a stored copy | `items`, `stored`; `Put`, `Amend`, `Store`, `Recall` |
| `TemporalWindows` | the windows of one agent | `buckets` is the ring with its `buffer`, `head` and `count`, `runStarts` the recent timestamps, `saved` the compact form the host keeps; `history`, `latest` and `inOrder` remember what was recorded, for the properties only |
| `MCTemporalWindows` | checks that `Refilled` is the `clear` and the loop of `push` it stands for | |
| `TemporalWindowsProofs` | TLAPS proofs about `TemporalWindows` | |
| `RelayTransport` | the transport contract: the gate when a configuration is saved, and its reading when the relay is configured | no variables |
| `RelayConfig` | `configure` and what it installs | no variables: a *relay* is every entry ever installed, and which of them is the company's; operators for each synchronous piece of `configure` |
| `CommsLog` | `RelayCommsStore` | no variables: a log is its sequence number, limit and entries; one operator per method |
| `CompanyLifecycle` | the worker with one company; extends `RelayConfig` and `CommsLog` | `runtimes` created so far and which is `present`, the `relay`, the log `comms` and its copy `disk`, and the `tasks`: setups, the job, configuration changes, each at the await it waits at |
| `CompanyLifecycleProofs` | TLAPS proofs about `RelayTransport`, `CompanyLifecycle` and `CommsReader` | |
| `MCCompanyLifecycle` | five configurations for TLC | |
| `ToolActivityPoller` | the poller and one run's log | `cursors` with offset, carried part and last call, the `polls` whose answers are awaited, the calls `told` since the run was last tracked: it may be tracked again after it was untracked, by a late event or a stale snapshot |
| `FeedServer` | the plugin at the Pixel Agents host | `plugin` and `listening`, the `office`, the declared-agent `cache`, the requests whose body is being `reading` |
| `AgentCharacters` | defaults, saves of the picker, appearances passed on | `stored` in plugin state, `held` by the worker, `worn` at the feed, the reconcile `jobs`, the save that is `saving` |
| `CharacterComposer` | drafts, saves, validation, the second record | `drafts`, `shown`, `submitted` in the page; `kept`, `composed`, `filling` in the worker |
| `BehaviorPublish` | when a behavior vector is published | the vector, what was published and when, what is pending, two clocks |
| `CommsReader` | the page that browses the log; extends `CommsLog` | the `log`, the page's entries and cursor, the fetch under way |
| `LeaderIntake` | messages to the leader and replies to feedback | `storedLeader`, `asks` and `replies` at the await they wait at |
| `BridgeView` | `useBridge` and its reducer | `view`, the `fetch` of the data hook, the `events` not yet processed, the `worker`'s answers |
| `MCServices` | the eight service modules, from `ToolActivityPoller` to `BridgeView`, beside one another | `part` |
| `ServicesProofs` | TLAPS proofs about these eight | |
| `Selection` | no state: `Array.prototype.filter`, as a recursive function that can be reasoned about | |
| `SequenceInduction` | lemmas on induction, recursion along a sequence, and selections | |

In `FeedMapper` the pair (status, awaitingInput) is one value with
`"awaiting"` for a waiting agent that awaits input, because `pushStatus`
compares the pair. A caption is `"task"`, `"tool"` or `"clear"`. A patch holds
at most one operation of each kind because a handler emits at most one, always
in the order remove or declare, assign, activity, status. A seat is one value
for the pair (palette, hueShift); the palette a declaration carries is clamped
to the six built-in sheets, which no handler compares, so it is not modelled.

In `BridgeStore` an agent is its run map and its raw projection; a snapshot is
one record of three partial functions. An agent's name, status, costs, projects,
recent events and feedback are data that none of these handlers compares. An
approval event names any agent or none: whom it concerns (the requester, or the
assignee of its issue) is left open. An issue event carries the fields it speaks of
(`said`); the others keep the store's value. The projection counts every pending
approval of the company for every agent, as `recomputeAgentRaw` does.

In `TemporalWindows` a bucket has one counter, run starts; the others are added
to in the same statement list. Timestamps of failures and finishes are kept as
those of starts. `bucketStart` is the number of the interval instead of its
first millisecond. A stored compact form carries the history it was made from,
so that a restore takes the properties' memory back with it. Restoring the
active runs is `RestoreBuckets` of `BridgeStore`.

`MCServices` puts eight modules that share no state into one run: `part` is
chosen at the start, the variables of the others stay as they were initially, so
the run explores the sum of the eight state spaces, and a property that is about
one of them is checked in exactly its behaviors. The unconstrained part of an
initial state (`draw`, `sheetOf`, `status`, `pageOffice`) is fixed where it is
not the part's own.

In `CompanyLifecycle` and the service modules a record of tasks stands for the
JavaScript continuations: a task is at the `await` it waits at and holds the
local variables it will use. A configuration keeps what its readers tell apart,
and a URL is a scheme and a host. In `ToolActivityPoller` a log line is one call
and has a front and a back part, as a page may be cut within a line. In
`AgentCharacters` the seeded generator draws the low or the high half of the
candidates, a hue is a number of degrees. In `LeaderIntake` the words that tell
new work from a reply are one kind of text. In `BehaviorPublish` the vector is one
rounded number that an event raises and time lets fade.

`FeedServer` models the office's side of the wire by itself; `FeedMapper` has the
same host as its external surface. `plugins/pixel-agents/src/feed-mapper.ts` and
`feed-sink.ts` there are copies of the worker's files but for an import, so what
is said of `FeedMapper` and of the sink holds of them.

Definitions whose comment starts with `BUG:` are deliberately wrong variants of the
definition after them. They are used by no specification; substituting one for
the original makes the property named in `PROJECT.json` fail, which shows that
the property depends on that line of the code.

## 3. Runs

| Run | Expectation | Question |
| --- | --- | --- |
| `feed_mirror` | pass | Do the mapper's flags stay consistent and agree with the surface under any order of inputs? |
| `feed_mirror_seat` | violation | Does every seat change reach the surface? |
| `feed_pipeline` | pass | Do the queued batches always lead the surface to where the mapper believes it is, and after any fault, is every employed agent shown, active exactly while it runs, with its character? |
| `feed_pipeline_caption` | violation | Does an idle character in the end show no task caption? |
| `feed_pipeline_leaver` | violation | Does an agent that left in the end disappear? |
| `bridge_sync` | pass | Do projections follow the run maps, does the tracker come to miss a run by nothing but a setup's restore over a company that is set up, does a snapshot repair the store, does it converge to its host, and is no run start counted twice? |
| `bridge_sync_ghost` | violation | In the end, is every run the company summary counts a run of the host? |
| `windows` | pass | Is the ring a bounded queue, and does a window count exactly what happened in it? |
| `windows_series` | violation | Is the series of buckets oldest first? |
| `company_lifecycle` | pass | Through setups, configuration changes, reconciles, failures and restarts that overlap: is the company's relay live and as configured, is none left open behind it, is the log in order, and does every active run come to be tracked? |
| `services` | pass | Do the eight services each keep what they promise, and settle? |
| `services_save` | violation | Can a save of the composer be accepted while the catalog loads? |

*Bounds of the mapper and the pipeline.* `FeedMirror` has two agents, because a
snapshot may list one of them and an issue may move between them, and two runs
per agent, because the edges distinguish none, one and more; all its inputs may
come in any order and any number of times. `FeedMirrorSeat.cfg` needs two seats.
`FeedPipeline` has one agent: the mapper treats agents independently. The host
acts three times (`MaxActivity`: hired, a run, let go, or hired and a run that
starts and ends), there is one fault, a resync every second tick (`ResyncEvery`,
six in the code) and room for two batches in the sink (`MaxWire`); these bounds
are guards and nothing else depends on them.

*Bounds of the store.* `bridge_sync` has two agents (an issue may move between
them, a snapshot may list one of them and have the other as an assignee) and one
run, issue and approval; no step relates two runs, issues or approvals, the maps
are independent in them. It starts beside a company of one agent (`Founders`) with one
issue (`Backlog`) and no runs, lets the host act twice (`MaxActivity`) with one fault
(`MaxFaults`) and two tasks at a time (`MaxTasks`): enough for a start and an end that
are applied in the other order around any read of a task, and for two events of an
unknown company whose setups overlap, the later of which restores its buckets over what
the earlier has loaded, and then loads its own snapshot or fails. `bridge_sync_ghost`
needs one agent, one task and no fault. That the
store's properties hold in an open environment, under any event, any restore and any
snapshot at any time and for any sets, and that `BridgeSync` implements that open
store, is proved, not run.

*Bounds of the windows.* A ring of three buckets, which wraps around with the
fourth of four records (`MaxRecords`), times 0 to 6 over intervals of two, hence
four buckets, and a recent window of three, shorter than the time that passes.
Persist, restore and restart are unbounded. `WindowsExact` speaks of windows
shorter than what the ring holds: the 24-hour window of the code overlaps 289
intervals, one more than the 288 buckets kept, so its first, partial bucket may
be gone; `plugins/paperclip/test/core/windows.test.ts` accepts that.

*Bounds of the lifecycle.* One company, one run, one setup by an event or a query
beside the one at boot, the job and one configuration change: two calls of
`configure` overlap, and a third may follow. Five configurations: one without
secrets, one that differs in settings only, one with both secrets, one switched
off, and one that the gate has to refuse, which sends a secret in cleartext to a
host nobody trusts. One fault (a failed read, an unresolved secret, a crash) and numbers
of communications up to two (`MaxRecords`), with a log of one or two entries: with a
limit of one the second evicts the first; and a relay that is configured while a setup
awaits the stored log records entries before that is restored, so that 1 and 2 in memory
meet a stored 1, of which the merge keeps the stored 1 and the new 2, or cuts them to the
limit of one. The relay is resynced at every reconcile (`ResyncEvery` is 1, six in the
code: the counter's wrap-around is that of `feed_pipeline`).

*Bounds of the services.* Each has what its hazards need and no more: two tool
calls in pages of three half-lines and two polls at a time, one answer dropped, a run
that is tracked up to twice (`MaxTracks`);
nine requests with two being read, one refusal by the host and two stops of the
plugin; three agents of which one is hired later and two characters, so that the third
default is a reuse and its hue is shifted, one reconcile that overlaps, one save, one
failure; three parts in two kinds, two edits, one save,
one save of the other picker or restart; six ticks with publishing intervals of two
and four; five entries read in pages of one and two from logs that hold two or
four; two leaders, three feedbacks of two companies, two messages or replies and
two changes of status; two companies, one agent, two changes, two switches.
`MinShift`, `Stride` and `MaxShift` are those of the code.

*Fairness.* The scheduler calls the job every five minutes and never gives up,
a read of the host is answered or fails (a failure is a counted fault), the
promise queue of the sink runs on, and an event that is not lost is delivered:
weak fairness of the job's steps and of the sink. Handlers that push are bounded
by `MaxWire`, which the code does not have; strong fairness of these keeps the
bound from starving them. `BridgeSync` has weak fairness of delivery and of the
disjunction of the job's tick and the steps of all tasks: something goes on, though not
every setup need come to its end. An event that arrives before the worker subscribed is
heard by nobody. The host and the faults have no fairness. `CompanyLifecycle` has weak
fairness of the job alone: nothing is assumed of setups, events, queries and the
operator, so the job has to make up for what they miss. In the services the job
ticks and what it awaits comes back (`AgentCharacters`), the poller's timer goes on
and answers come (`ToolActivityPoller`), the clock and the 30 s flush go on
(`BehaviorPublish`), and the page polls, is answered and handles what has come
(`BridgeView`): all of these are `setInterval` or jobs of the host that the code
never stops while the component lives. As `part` never changes, one weak fairness
of the disjunction of these steps stands for one condition each.

*Assumptions on the host.* In `FeedPipeline` an agent that has left is no longer
listed. This is the kindest host: `mapSnapshot` does not read an agent's status,
so a host that goes on listing it would only make `LeaverDespawns` worse. In
`BridgeSync` an agent that leaves has its runs cancelled and keeps its issues,
every run belongs to a listed issue (the code reads active runs only in the
subtrees of issues), a redelivery comes within the hour for which ids are
remembered, and the buckets a setup restores may hold any runs that were ever started,
of any of the agents. A boot that fails is a restart. In `BridgeView` the data and
stream hooks of the host's SDK hand out nothing of the company before a switch
(`use-bridge.ts:95-108`). In `RelayConfig` the host grants `http.outbound`, which the
manifest declares, so that the check at `relay.ts:714` passes. Setups by a page's query,
which are rolled back when they fail, are in `CompanyLifecycle`.

## 4. What the violated runs show

* `SeatReachesSurface`: `setAppearances` compares a new appearance with the last
  declaration but does not record its own, so a seat that goes from A to B and
  back to A stays B on the surface until the next resync, although the comment
  at `feed-mapper.ts:149` promises an upsert for every seat that changed.
* `CaptionCleared`: a resync resets the mapper and then awaits the snapshot. If
  the agent's only run ends in between, the falling edge finds nothing to take
  back and the snapshot shows an idle agent of unknown status: the caption stays
  for good. Nothing fails in this behaviour.
* `LeaverDespawns`: the appearance map in memory holds an agent that has left until
  the next reconcile drops it, but a resync captures it before that (`worker.ts:631`)
  and applies it after its snapshot. The removed character is declared again; later
  snapshots do not list it, and only an offline event removes a character. The
  property's antecedent (`LeavesLast`) excludes the other ways back: a late event of
  the agent, or a snapshot that still lists it. Both exist as well; and the agent
  may also leave during the resync's await.
* `CountedRunsExist`: an agent that left but is still the assignee of an issue is
  "seen" by `reconcile`, so it is not dropped, and not listed, so it is not
  repaired. A run whose end was applied before its start, or came before the worker
  subscribed, stays with it, and in the summary's `activeRunCount`, until the issue
  changes hands.
* `SeriesOldestFirst`: `record` looks only at the newest bucket, so a late event
  opens an older interval again, behind the newer one. The sums over a window do
  not mind, but the series given to the UI is not oldest first, an interval may
  occur twice in it, and each such bucket takes one of the 288 places of the ring.

* `SaveCanPass`: `handleSetAgentComposition` (`actions.ts:330`) hands the
  appearance itself to `validateAppearanceAssignmentV2`, which expects the
  assignment that carries it: every save of the composer is answered with
  `INVALID_APPEARANCE` as long as the catalog of parts loads, and accepted
  unvalidated when it does not.

Other statements of the repository that the models contradict. They stand in the
modules as properties, under "Violated by the code", where a run of their own would
find a trace; the project keeps its runs to the findings above.

| Property | Statement | What the code does |
| --- | --- | --- |
| `BridgeSync!TrackerAlwaysCovers` | `core/reducer/reconciliation.ts:187`: a reconcile resyncs "the window store's active-run tracker with authoritative runs" | of two setups that overlap the later restores its buckets over what the earlier has loaded (`worker.ts:387-391`, `core/temporal/windows.ts:518`), and a reconcile resyncs the tracker only where the store's own runs differ: if the later setup fails, the tracker goes on missing runs |
| `CompanyLifecycle!PresentIsBootstrapped` | `worker.ts:672-678`: a failed bootstrap must not stay cached as if it had succeeded | a setup started by an event (`worker.ts:565-572`) is not rolled back |
| `CompanyLifecycle!EndedRunsUntracked` | `worker.ts:583-585` | the end of a run that comes before `configure` has installed the poller, or before a reconcile that read it as active, leaves it tracked |
| `CompanyLifecycle!OffStaysOff` | `relay.ts:622-631`: a rejected configuration switches the relay off | an earlier call that still awaits its secrets installs its relay afterwards |
| `AgentCharacters!ChoiceAlwaysKept` | `worker.ts:720-722`: plugin state is "the single source of truth" for the user's choice | a reconcile that found no record persists its default over a choice saved since |
| `ToolActivityPoller!CallsNeverLost` | `tool-activity-poller.ts:26` | two polls that overlap set the cursor back or skip a part, and a line may be lost |
| `FeedServer!FeedServesAgain` | `workdocs/ai/architecture-handbook.md:121` of the repository | the listener is opened once, by `register`; `onStop` closes it for good |
| `BridgeView!StaleMeansSilence` | `use-bridge.ts:25-31`: stale by the time "since the last successful snapshot" | it goes by the time at which the worker last read its host, minutes ago between reconciles |
| `CharacterComposer!BannerCurrent` | the banner "currently uses the whole sheet" | the second record is filled once and does not follow the other picker |

Smaller ones met on the way: a change that waits for `maxPublishMs` is not
published by then (`store.ts:60-61`; no timer is set for it); a message the worker
refuses with `{ok: false}` is cleared from its field as if it had been sent
(`company-intake.tsx:58-59`); `rt.leadershipAgentId` is read and never assigned;
the field of a layer's hue cannot be reached, as it is shown only while that hue is
above zero; a part that has left the catalog cannot be taken out of a composition;
`RelayCommLog` is mounted by its tests only.

## 5. Proofs

Every invariant and every action property of the passing runs is a theorem, for
every value of the constants that satisfies the assumptions the modules name, and
the two refinements are proved too. But for `ShiftsOfTheCode`, no theorem bounds the
number of agents, runs, faults, restarts or messages other than by the constant a
module declares for it.
Two kinds of argument recur. What is about one agent is shown handler by handler for
one agent and lifted. What is computed along a sequence (a filter, a fold over
the operations of a batch, the splitting of a page) is shown by induction on the prefix:
`SequenceInduction` states induction as a fact about the set of the numbers for which
the claim holds, and recursion as a fact about functions, so both can be cited.

**The feed mapper** (`FeedMapperProofs`, `FeedMirrorProofs`). `TypeCorrect`,
`RunEdgesAlwaysConsistent`, `SurfaceAlwaysAgrees`, `HumanWaitAlwaysKept` and
`OperationsAlwaysAddressed`, for any agents, issues, names, characters and seats, from
the assumptions that `None` is none of the other values and that the bound on runs is
positive. None of the invariants is inductive alone: that a run end leaves the
surface in agreement needs the edges to be consistent (it pushes a clear only if the
caption is open, and then there must be a character), and both need the types. The
inductive invariant is `Sound(agents[a], office[a])` for every agent: types,
`EdgesConsistent` and `Agrees` together. As a handler touches one agent, one lemma per
handler shows that the cell it returns is sound again for any sound agent and
character, and that what its patch addresses is there or is declared by the same patch.

**The pipeline** (`FeedPipelineProofs`). `TypeCorrect` and
`OfficeAlwaysFollowsMapper`, which take the handlers' lemmas over: `Tracks` says that
the surface, after all that waits in the sink, is sound for the mapper's state. A post
that arrives takes the head from the queue and does to the surface what
the fold over the queue did first (so this needs the fold to be split at its head), a
handler appends its patch at the other end. The types of counters need `Underway`: what
is in flight was sent by the host or duplicated by a fault.

**The store** (`BridgeSyncProofs`). `StoreTypeCorrect` and `RunsAlwaysProjected` of the
open store, for any agents, runs, issues and approvals, assuming only that `None` is none
of them; the inductive invariant is `TypeOK /\ RunsProjected`. `SyncImplementsStore`:
each step of the composed system is a step of the open store or leaves it unchanged, so
these hold in it. `SnapshotsAlwaysRepair` is about the two ways `BridgeSync` loads a
snapshot, and needs no invariant beyond types: the state before the load is arbitrary,
which is what "repairs drift" claims.
`TrackerCoversInWorker` says when the tracker may miss a run of the store: between a
setup's restore and its load, and after a setup that failed there. Its invariant
`TrackInv` adds that before the company is present the store is empty (`EmptyBefore`),
which is why the restore of the first setup does no harm. Each other step keeps what is
missed from growing (`TrackStep`): a reconcile leaves the tracker of an agent alone when
the store's runs equal the snapshot's, and then misses what was missed before; an agent
that is dropped has no runs to miss. `TrackerLosesOnlyToRestore` states that of the step,
under all overlaps.
`StartsAlwaysCountedOnce` rests on an invariant that ties three places a run start can
be in: not started yet at the host, on its way, or seen; a counted start is either no
longer on its way, be it in flight or held by the setup it asked for, or in the dedupe
table. `SyncTypeCorrect` covers the host, the tasks and what is in flight.

**The windows** (`TemporalWindowsProofs`), for every capacity, interval, recent window
and bound. `WindowsTypeCorrect` and `WindowsImplementQueue`: the ring with its
wrapped head is a bounded queue whose newest entry may be amended, and export and
restore copy it exactly. The arithmetic is in a few lemmas (`ModOnce`, `Wraps`,
`AtInjective`) about positions that wrap around at most once; `TypeOK` is inductive
because it says that no bucket counts more than was recorded (`CountsBounded`).
`WindowsAlwaysExact` and `RecentAlwaysExact` rest on `Exactness`, which says of
the array that the ring stands for: the buckets strictly rise; each counts as many run
starts as were recorded in its interval (a cardinality); and whatever was
recorded but is in no bucket is older than the oldest bucket of a full ring, which is
why a window shorter than the ring misses nothing. The recent timestamps
are an end of the list of all start times, and what is cut off is older than the
window. The same is kept of what was exported, so that a restore does not lose it. All
of this holds only while events come in order, as the properties say: section 4 shows
what a late event does.

**The company** (`CompanyLifecycleProofs`). `CompanyRelayAlwaysLive`, `RelayNeverLeft`
and `RelayAsSaved`, for any configurations, runs, tokens and slots and without bound on
changes, faults and restarts, and `SavedAlwaysAccepted`. None of the first three is
inductive: what a call of `configure` installs depends on what it saw before its
awaits. `LifecycleInv` adds that to them: as long as no two calls have overlapped, at
most one is under way, and it holds the current relay and the configuration that is
saved (`Alone`, `UpToDate`); when none is under way, what is in force is what is saved.
That the relay is live needs none of this (`Sound`): even a call that saw an entry long
replaced disposes only of that entry and installs a live one. `SavedAlwaysAccepted`
rests on `ValidNeverRejected`, that whatever passes `onValidateConfig` passes
`parseRelayConfig`, for any hosts; the one assumption is that what the worker finds at
its start passed the gate when it was saved (`SavedAssumption`).
`LifecycleTypeCorrect` and `LogAlwaysOrdered` share an invariant: the log in memory and
its stored form are both bounded and strictly rising (`LogSound`, `CompactSound`), so
that what `restoreCompact` appends, the entries of memory above the last restored
number, continues the order. `ReaderAlwaysComplete` needs what the page
knows between two fetches (`Covered`): every entry the log still holds that is between
the cursor and the newest of the first page has been shown. That evictions only ever
take the oldest, below the cursor, keeps it true.

**The services** (`ServicesProofs`).

* `RosterAlwaysCached` and `RefusedLeaveNoTrace` (`FeedServer`): one operation that is
  well-formed leaves the cache with what the office shows; by induction along the
  batch so does every prefix of it, which is why a batch that the host cuts short keeps
  the invariant too.
* `CallsAlwaysToldInOrder` (`ToolActivityPoller`): as long as no poll overtakes
  another since the run was last tracked, the offset of the last cursor, its carried part
  and what has been told are functions of one another (`UpToDate`), for logs and pages of
  any length and however often the run was tracked before (`FollowedBy`). The work is in the
  splitting of a page: `PageFollows` says which calls a page yields that starts in the
  middle of a line and ends in another.
* `RawErrorsAlwaysByTurns` and `RepliesAlwaysInContext` (`LeaderIntake`): a message past
  the check of its leader has a leader who can run or has turned meanwhile
  (`AskSound`); a reply that waits already has the issue of its feedback.
* `DraftsAlwaysSaved` and `DraftsAlwaysValid` (`CharacterComposer`): an awaited save holds
  the draft as it is now (`Awaited`), because the page takes no edit until the answer
  is there; every draft, and every record it may be started from, is a
  composition of known parts, at most one of each exclusive kind, for any catalog.
* `ChoicesAlwaysKept` (`AgentCharacters`): once an agent has a record and no reconcile
  under way has found it without one (`Safe`), nothing but a save replaces the record,
  and that stays so. A job persists a default only where it has found no record, and it
  can come to have found none only by reading that there is none; `RecordKept`, shown
  action by action, says so of one agent, from the types of the jobs alone (`Staffed`).
  The race itself, a choice saved
  while a reconcile that has found no record is under way, is outside `Safe`: there the
  code replaces the choice by the default (`ChoiceAlwaysKept` in section 4).
* `DefaultsAlwaysDiffer` (`AgentCharacters`): while the user chooses nothing and no
  reconciles overlap (`Calm`, the condition of the property), one job runs at a time;
  while it reads, what it found is what plugin state has; when it writes, every prefix
  of what it has left leaves the map *ranked* (`Ranked`, `Upcoming`): each agent's hue
  is that of a round before the next of its character, and no two agents look the
  same. As a failed write ends the job after any prefix, ranks have to hold after each.
  The one hypothesis is that the hues of different rounds differ (`ShiftsDiffer`).
  `ShiftsOfTheCode` discharges it for the constants of the code, 45, 47 and 360, and
  companies of up to 316 agents: 47 is invertible modulo 315. Beyond that the hues do
  repeat, as the comment in `characters.ts:211-212` says.
* `PageAlwaysOwn` (`BridgeView`) follows a snapshot through the three places it can be
  in: the worker's answer for a company, the fetch of the data hook, which a switch
  abandons, and the view.
* `ServicesTypeCorrect`: the types of all eight, each from the invariant above where it
  has one. Those of `CommsReader` say that a page that merges what was read before and
  after a restart never shows a number that no entry was given; those of `BridgeView`
  that no snapshot is of a time to come; those of `BehaviorPublish` that what is
  published keeps to its range as it fades.

*Model-checked only*: the liveness properties `WorkShown`, `CharacterShown`,
`StoreConverges`, `RunsComeTracked` and `ServicesSettle`, because the prover has no rules
for fairness and `ENABLED`; and the violated properties of section 4, which TLC refutes.
That `Refilled` is the loop of `push` it stands for is checked on small rings
(`MCTemporalWindows`).

## 6. What is hard here

* *Pictures taken over awaits.* A snapshot is read in three or more steps while
  events are handled between them; ingesting it undoes them until the next tick
  (`WorkShown`, `StoreConverges`), and some of it is never undone
  (`LeaverDespawns`, `CaptionCleared`).
* *Diffing against what was queued.* The mapper suppresses what it believes
  shown; a lost or overtaken batch makes a suppressed change permanent
  (`OfficeFollowsMapper`, `SurfaceAgrees`).
* *Unordered, repeated events.* A run may end before it starts; a repeated event
  is dropped by the store but not by the mapper (`RunEdgesConsistent`,
  `StartsCountedOnce`, `CountedRunsExist`, `SeriesOldestFirst`).
* *Derived state beside its source.* Projections, tracker and buckets are
  updated by different handlers, and restored by setups that overlap (`RunsProjected`,
  `TrackerCoversRuns`, `TrackerKept`, `SnapshotRepairs`).
* *Wrapping and restoring.* `QueueSpec`, `WindowsExact`, `RecentExact`.
* *Overlapping setups and configurations* (`CurrentRelayLive`, `NoRelayLeft`,
  `SavedConfigInForce`): what a call saw before it awaited its secrets is what it
  replaces.
* *Read, await, write* (`ChoiceKept`, `DefaultsDiffer`, `RawErrorsOnlyByTurns`,
  `CallsToldInOrder`): a reconcile, a message, a poll act on what they read.
* *Half-done work* (`NoTraceOfRefused`, `RosterCached`, `DraftsSaved`,
  `SaveCanPass`): a batch that is cut short, a save that is refused.
* *Restoring over newer memory* (`LogOrdered`, `ReaderComplete`).
* *What must come in the end without a timer of its own* (`RunsComeTracked`,
  `ServicesSettle`).

## 7. Plan

Done: the feed from the mapper to the surface, the store and the windows, the
company's lifecycle with its relay and log, the services, and a proof of every
invariant and action property that a passing run checks. What is left:

1. `OfficeLayout`: the editor of `ui/components/office-layout-editor.tsx`, its
   validation and its save, the one operation of the worker that keeps state and is
   not modelled.
2. `FeedServer` in the place of the external surface of `FeedPipeline`, with its
   restarts and the batches it cuts short.
3. That the poller, as long as its polls do not overlap, implements a reader that
   takes the calls from the log one by one; and that the log implements a bounded
   queue, as the ring does.

## 8. Not modelled

* Rendering (`ui/*.tsx` but for the components named above), packaging, deployment
  and end-to-end tests keep no state over time; the types of `src/common` that are
  no validation neither.
* The floating-point scores of `core/behavior` and the rates of
  `core/temporal/rates.ts` compute from their arguments alone, with real numbers,
  which TLC does not have.
* Texts: captions, dialog lines (also their cutting, `core/domain/dialog.ts` and
  `plugins/pixel-agents/src/dialog.ts`), log messages, and the words that
  `core/policy/intake.ts` looks for are members of small sets.
* Projects, costs and recent events of the store are data no handler compares.
* The office layout, see the plan. `AgentWindowStore.gc` is called by no source file.

`PROJECT.json` names every component with its state, and for each hazard that no
property covers, why.
