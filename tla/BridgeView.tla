----------------------------- MODULE BridgeView -----------------------------
(***************************************************************************)
(* What the page shows of a company (ui/state.ts, ui/use-bridge.ts):       *)
(* snapshots that are fetched from the worker on mount, on a switch of the *)
(* company, on a gap, on a reconnect and by a poll, and deltas from the    *)
(* stream of the company in between, which may be down at any time.        *)
(***************************************************************************)
EXTENDS Integers, Sequences, FiniteSets

CONSTANTS
  Offices,     \* companies
  Clerks,      \* agents
  StaleAfter,  \* STALE_AFTER_MS
  MaxClock,    \* bound of the clock
  MaxChanges,  \* changes in the worker
  MaxSwitches  \* switches of the company, and of the stream

ASSUME ViewBounds == {StaleAfter, MaxClock, MaxChanges, MaxSwitches} \subseteq Nat

VARIABLES
  clock,
  worker,    \* what the worker would answer for each company
  pageOffice,    \* the company of the page
  view,      \* BridgeUiState: snapshot, gapDetected and lastSyncedAt
  fetch,     \* what the data hook awaits: asked, then answered
  connected, \* the stream is connected
  events,    \* deltas that the page has not processed
  arrived,   \* when a snapshot arrived last
  changes, switches \* what is left of MaxChanges and MaxSwitches

viewVars == <<clock, worker, pageOffice, view, fetch, connected, events, arrived, changes,
              switches>>

NoView == [office |-> "none"]
Never == -1
Blank == [snapshot |-> NoView, gap |-> FALSE, synced |-> Never]
NoFetch == [at |-> "idle", snapshot |-> NoView]
Asked == [at |-> "asked", snapshot |-> NoView]

\* isBridgeStale.
Stale(v) ==
  /\ v.snapshot # NoView /\ ~ connected
  /\ v.synced = Never \/ clock - v.synced > StaleAfter

-----------------------------------------------------------------------------
(* The reducer of the page.                                                 *)

\* applySnapshot.
WithSnapshot(v, s) == [snapshot |-> s, gap |-> FALSE, synced |-> s.observedAt]

\* applyDelta: what cannot be applied is a gap.
WithDelta(v, e) ==
  IF v.snapshot = NoView THEN [v EXCEPT !.gap = TRUE]
  ELSE IF e.type = "summary" THEN [v EXCEPT !.snapshot.summary = e.value]
  ELSE IF e.agent \in DOMAIN v.snapshot.agents
       THEN [v EXCEPT !.snapshot.agents[e.agent] = e.value]
       ELSE [v EXCEPT !.gap = TRUE]

\* BUG: nothing is reset.
AfterSwitchKept(v) == v

\* The reset on a switch.
AfterSwitch(v) == Blank

-----------------------------------------------------------------------------
ViewInit ==
  /\ clock = 0
  /\ worker = [o \in Offices |-> [office |-> o, agents |-> [a \in {} |-> 0], summary |-> 0,
                                  observedAt |-> 0]]
  /\ pageOffice \in Offices
  /\ view = Blank /\ fetch = Asked
  /\ connected = FALSE /\ events = <<>> /\ arrived = Never
  /\ changes = MaxChanges /\ switches = MaxSwitches

ClockTicks ==
  /\ clock < MaxClock /\ clock' = clock + 1
  /\ UNCHANGED <<worker, pageOffice, view, fetch, connected, events, arrived, changes, switches>>

\* The worker emits a delta: it reaches the page that has the stream of the company open.
Emitted(o, e) == events' = IF connected /\ o = pageOffice THEN Append(events, e) ELSE events

Changes(o, next, e) ==
  /\ changes > 0 /\ changes' = changes - 1
  /\ worker' = [worker EXCEPT ![o] = next]
  /\ Emitted(o, e)
  /\ UNCHANGED <<clock, pageOffice, view, fetch, connected, arrived, switches>>

SummaryDelta(o) == [type |-> "summary", value |-> worker[o].summary + 1]
AgentDelta(a, n) == [type |-> "agent", agent |-> a, value |-> n]

SummaryChanges(o) ==
  Changes(o, [worker[o] EXCEPT !.summary = @ + 1], SummaryDelta(o))

\* The behavior of an agent changes, or an agent is new: either way there is a delta for it.
AgentChanges(o, a) ==
  LET known == a \in DOMAIN worker[o].agents
      n     == IF known THEN worker[o].agents[a] + 1 ELSE 1
  IN Changes(o, [worker[o] EXCEPT !.agents = [b \in DOMAIN @ \cup {a} |->
                                                IF b = a THEN n ELSE @[b]]], AgentDelta(a, n))

\* A reconcile observes the company anew; that nothing has changed is not emitted.
Observes(o) ==
  /\ worker[o].observedAt < clock
  /\ worker' = [worker EXCEPT ![o].observedAt = clock]
  /\ UNCHANGED <<clock, pageOffice, view, fetch, connected, events, arrived, changes, switches>>

-----------------------------------------------------------------------------
\* refresh: by the poll, and by the button.
Refreshes ==
  /\ fetch = NoFetch /\ fetch' = Asked
  /\ UNCHANGED <<clock, worker, pageOffice, view, connected, events, arrived, changes, switches>>

WorkerAnswers ==
  /\ fetch.at = "asked"
  /\ fetch' = [at |-> "answered", snapshot |-> worker[pageOffice]]
  /\ UNCHANGED <<clock, worker, pageOffice, view, connected, events, arrived, changes, switches>>

\* The answer is lost or is an error: the snapshot that is shown stays.
FetchFails ==
  /\ fetch.at = "answered" /\ switches > 0 /\ switches' = switches - 1
  /\ fetch' = NoFetch
  /\ UNCHANGED <<clock, worker, pageOffice, view, connected, events, arrived, changes>>

SnapshotArrives ==
  /\ fetch.at = "answered"
  /\ view' = WithSnapshot(view, fetch.snapshot)
  /\ fetch' = NoFetch /\ arrived' = clock
  /\ UNCHANGED <<clock, worker, pageOffice, connected, events, changes, switches>>

\* A gap is answered by a refresh at once.
DeltaArrives ==
  /\ events # <<>> /\ events' = Tail(events)
  /\ LET next == WithDelta(view, Head(events))
     IN view' = [next EXCEPT !.gap = FALSE] /\ fetch' = IF next.gap THEN Asked ELSE fetch
  /\ UNCHANGED <<clock, worker, pageOffice, connected, arrived, changes, switches>>

\* Another company: the view is reset, and the hooks are those of the other company. That they
\* hand out nothing of the one before from then on is what the code relies on of the host's SDK.
SwitchesOffice ==
  /\ switches > 0 /\ switches' = switches - 1
  /\ pageOffice' \in Offices \ {pageOffice}
  /\ view' = AfterSwitch(view)
  /\ fetch' = Asked /\ events' = <<>> /\ arrived' = Never
  /\ UNCHANGED <<clock, worker, connected, changes>>

\* The stream goes down, with what was on the way, or comes up: a reconnect refreshes.
StreamTurns ==
  /\ switches > 0 /\ switches' = switches - 1
  /\ connected' = ~ connected
  /\ events' = <<>>
  /\ fetch' = IF connected' /\ switches < MaxSwitches THEN Asked ELSE fetch
  /\ UNCHANGED <<clock, worker, pageOffice, view, arrived, changes>>

ViewNext ==
  \/ ClockTicks
  \/ \E o \in Offices : \/ SummaryChanges(o) \/ Observes(o)
                        \/ \E a \in Clerks : AgentChanges(o, a)
  \/ Refreshes \/ WorkerAnswers \/ FetchFails \/ SnapshotArrives \/ DeltaArrives
  \/ SwitchesOffice \/ StreamTurns

(* The poll goes on, the worker answers, and what has come is handled.      *)
ViewStep == Refreshes \/ WorkerAnswers \/ SnapshotArrives \/ DeltaArrives

ViewSpec == ViewInit /\ [][ViewNext]_viewVars /\ WF_viewVars(ViewStep)

-----------------------------------------------------------------------------
ViewTypeOK ==
  /\ clock \in 0 .. MaxClock /\ pageOffice \in Offices
  /\ \A o \in Offices : worker[o].office = o /\ DOMAIN worker[o].agents \subseteq Clerks
  /\ view.gap = FALSE /\ view.synced \in Never .. clock
  /\ fetch.at \in {"idle", "asked", "answered"}
  /\ connected \in BOOLEAN /\ arrived \in Never .. clock
  /\ changes \in 0 .. MaxChanges /\ switches \in 0 .. MaxSwitches

\* What the page shows, and acts on, is the company it is at (use-bridge.ts:93-101).
OwnOffice == view.snapshot # NoView => view.snapshot.office = pageOffice

\* Whatever is lost, late or overtaken by an older answer, in the end the page shows what the
\* worker has (use-bridge.ts:103-108, 162-174, state.ts:14-15).
ViewAgrees ==
  /\ view.snapshot # NoView
  /\ view.snapshot.agents = worker[pageOffice].agents
  /\ view.snapshot.summary = worker[pageOffice].summary

ViewSettles == <>[]ViewAgrees

\* Violated by the code: the page is flagged stale only when no snapshot has arrived for long
\* (use-bridge.ts:25-31, "compute `stale` from how long it's actually been since the last
\* successful snapshot"). The time it goes by is when the worker last read the host, which is
\* minutes ago between reconciles.
StaleMeansSilence == Stale(view) => arrived = Never \/ clock - arrived > StaleAfter
=============================================================================
