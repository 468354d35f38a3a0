----------------------- MODULE CompanyLifecycleProofs -----------------------
(***************************************************************************)
(* That the relay a company has is live, that no other one is left open    *)
(* behind it as long as calls of configure do not overlap, and that what   *)
(* was saved is not rejected; that its log of communications is kept in    *)
(* order and that whoever pages through it misses nothing: for every set   *)
(* of configurations, runs and tokens, with any number of setups, changes, *)
(* faults and restarts.                                                    *)
(***************************************************************************)
EXTENDS CompanyLifecycle, CommsReader, SequenceInduction, SequenceTheorems, TLAPS

-----------------------------------------------------------------------------
(* The gate of the operator configuration and its reading by the relay     *)
(* agree, for every set of hosts and every configuration.                  *)

\* What the gate lets pass as a URL that carries a secret may carry one when it is read.
LEMMA GateCoversCarrying ==
  ASSUME NEW ref \in Refs, NEW url \in Urls, NEW trusted,
         HttpUrl(url.scheme), TokenUrlOk(ref, url, trusted), HasRef(ref)
  PROVE  MayCarryToken(url, trusted)
  BY DEF HttpUrl, TokenUrlOk, HasRef, MayCarryToken, Unset

\* A configuration that onValidateConfig lets pass is not rejected by parseRelayConfig
\* (worker.ts:947-956, relay.ts:249-381), whatever hosts are trusted.
THEOREM ValidNeverRejected ==
  \A raw \in RawConfigs : ValidConfig(raw) => ~ Rejected(raw)
<1> SUFFICES ASSUME NEW raw \in RawConfigs, ValidConfig(raw) PROVE ~ Rejected(raw)
  OBVIOUS
<1>1. /\ raw.tokenRef \in Refs /\ raw.apiRef \in Refs
      /\ raw.url \in Urls /\ raw.apiUrl \in Urls
  BY DEF RawConfigs
<1>2. HasRef(raw.tokenRef) => MayCarryToken(raw.url, raw.trusted)
  BY <1>1, GateCoversCarrying DEF ValidConfig
<1>3. HasRef(raw.apiRef) => MayCarryToken(raw.apiUrl, raw.trusted)
  BY <1>1, GateCoversCarrying DEF ValidConfig
<1>4. EmbedsUi(raw.uiScheme)
  BY DEF ValidConfig, HttpUrl, EmbedsUi, Unset
<1> QED
  BY <1>2, <1>3, <1>4 DEF Rejected

-----------------------------------------------------------------------------
(* What is needed of the shape of an entry and of a relay; what the other   *)
(* fields hold does not matter.                                             *)
IsEntry(e) ==
  e \in [raw : {e.raw}, token : {e.token}, api : {e.api}, sink : Sinks, poller : Pollers,
         tracked : {e.tracked}]

Entry(e) == IsEntry(e) /\ EntryCoherent(e)
InUse(e) == e.sink = "live" /\ e.poller # "stopped"

EntriesOf(r) == 1 .. Len(r.entries)

\* A relay whose entries are coherent, and whose current one, if any, is in use.
Sound(r) ==
  /\ \E S : r \in [entries : Seq(S), current : Nat]
  /\ \A i \in EntriesOf(r) : Entry(r.entries[i])
  /\ r.current # 0 => r.current \in EntriesOf(r) /\ InUse(r.entries[r.current])

\* No entry but the current one is left open.
Clean(r) == \A i \in EntriesOf(r) : i # r.current => ~ Live(r.entries[i])

\* The company has no relay, or one with the settings of raw, which asks for one.
InForce(r, raw) ==
  r.current # 0 => ~ EndsAtOnce(raw) /\ SameSettings(r.entries[r.current].raw, raw)

\* The same entries are open: only what the current one tracks may differ.
Keeps(r, n) ==
  /\ n.current = r.current /\ Len(n.entries) = Len(r.entries)
  /\ \A i \in EntriesOf(r) : i # r.current => n.entries[i] = r.entries[i]
  /\ r.current # 0 => n.entries[r.current].raw = r.entries[r.current].raw

-----------------------------------------------------------------------------
(* Entries.                                                                 *)

LEMMA ClosedIsEntry ==
  ASSUME NEW e, Entry(e)
  PROVE  Entry(Closed(e)) /\ ~ Live(Closed(e))
<1> DEFINE p == IF e.poller = "running" THEN "stopped" ELSE e.poller
           c == [e EXCEPT !.sink = "disposed", !.poller = p]
<1>1. Closed(e) = c
  BY DEF Closed
<1>2. p \in Pollers /\ p # "running" /\ (p = "none") = (e.poller = "none")
  BY DEF Entry, IsEntry, Pollers
<1> HIDE DEF p
<1>3. /\ c.raw = e.raw /\ c.token = e.token /\ c.api = e.api /\ c.tracked = e.tracked
      /\ c.sink = "disposed" /\ c.poller = p
      /\ c \in [raw : {e.raw}, token : {e.token}, api : {e.api}, sink : Sinks, poller : Pollers,
                tracked : {e.tracked}]
  BY <1>2 DEF Entry, IsEntry, Sinks
<1> HIDE DEF c
<1>4. IsEntry(c)
  BY <1>3 DEF IsEntry
<1>5. EntryCoherent(c)
  BY <1>2, <1>3 DEF Entry, EntryCoherent
<1>6. ~ Live(c)
  BY <1>2, <1>3 DEF Live
<1> QED
  BY <1>1, <1>4, <1>5, <1>6 DEF Entry

LEMMA NewIsEntry ==
  ASSUME NEW raw, NEW token, NEW api
  PROVE  Entry(NewEntry(raw, token, api)) /\ InUse(NewEntry(raw, token, api))
  BY DEF Entry, IsEntry, EntryCoherent, InUse, NewEntry, Sinks, Pollers

LEMMA TrackedIsEntry ==
  ASSUME NEW e, Entry(e), NEW runsOf, e.poller # "none" \/ runsOf = {}
  PROVE  Entry([e EXCEPT !.tracked = runsOf]) /\ (InUse(e) => InUse([e EXCEPT !.tracked = runsOf]))
<1> DEFINE c == [e EXCEPT !.tracked = runsOf]
<1>1. /\ c.raw = e.raw /\ c.token = e.token /\ c.api = e.api /\ c.tracked = runsOf
      /\ c.sink = e.sink /\ c.poller = e.poller
      /\ c \in [raw : {e.raw}, token : {e.token}, api : {e.api}, sink : Sinks, poller : Pollers,
                tracked : {runsOf}]
  BY DEF Entry, IsEntry
<1> HIDE DEF c
<1> QED
  BY <1>1 DEF Entry, IsEntry, EntryCoherent, InUse

-----------------------------------------------------------------------------
(* Relays.                                                                  *)

LEMMA DisposedEntries ==
  ASSUME NEW r, Sound(r), NEW i
  PROVE  LET d == Disposed(r.entries, i)
         IN /\ \E S : d \in Seq(S)
            /\ Len(d) = Len(r.entries)
            /\ \A j \in EntriesOf(r) : /\ Entry(d[j])
                                       /\ j # i => d[j] = r.entries[j]
                                       /\ j = i => ~ Live(d[j])
<1> DEFINE s == r.entries  d == Disposed(s, i)
<1>1. PICK S : r \in [entries : Seq(S), current : Nat]
  BY DEF Sound
<1>2. s \in Seq(S)
  BY <1>1
<1>3. \A j \in 1 .. Len(s) : Entry(s[j])
  BY DEF Sound, EntriesOf
<1>4. CASE i = 0
  BY <1>2, <1>3, <1>4 DEF Disposed, EntriesOf
<1>5. CASE i # 0 /\ i \notin 1 .. Len(s)
  <2>1. d = s
    BY <1>2, <1>5 DEF Disposed
  <2> QED
    BY <1>2, <1>3, <1>5, <2>1 DEF EntriesOf
<1>6. CASE i # 0 /\ i \in 1 .. Len(s)
  <2> DEFINE c == Closed(s[i])
  <2>1. d = [s EXCEPT ![i] = c]
    BY <1>6 DEF Disposed
  <2>2. Entry(c) /\ ~ Live(c)
    BY <1>3, <1>6, ClosedIsEntry
  <2> HIDE DEF c
  <2>3. d \in Seq(S \cup {c}) /\ Len(d) = Len(s)
    BY <1>2, <1>6, <2>1
  <2>4. \A j \in 1 .. Len(s) : d[j] = IF j = i THEN c ELSE s[j]
    BY <1>2, <1>6, <2>1
  <2> HIDE DEF d
  <2>5. \A j \in EntriesOf(r) : /\ Entry(d[j])
                                /\ j # i => d[j] = s[j]
                                /\ j = i => ~ Live(d[j])
    BY <1>3, <2>2, <2>4 DEF EntriesOf
  <2> QED
    BY <2>3, <2>5 DEF d
<1> QED
  BY <1>4, <1>5, <1>6

LEMMA SwitchedOffSound ==
  ASSUME NEW r, Sound(r), NEW i
  PROVE  /\ Sound(SwitchedOff(r, i))
         /\ Clean(r) /\ i = r.current => Clean(SwitchedOff(r, i))
<1> DEFINE d == Disposed(r.entries, i)
<1>1. /\ \E S : d \in Seq(S)
      /\ Len(d) = Len(r.entries)
      /\ \A j \in 1 .. Len(r.entries) : Entry(d[j])
  BY DisposedEntries DEF EntriesOf
<1>2. \A j \in 1 .. Len(r.entries) : IF j = i THEN ~ Live(d[j]) ELSE d[j] = r.entries[j]
  BY DisposedEntries DEF EntriesOf
<1>3. SwitchedOff(r, i) = [entries |-> d, current |-> 0]
  BY DEF SwitchedOff
<1> HIDE DEF d
<1>4. Sound(SwitchedOff(r, i))
  BY <1>1, <1>3 DEF Sound, EntriesOf
<1>5. ASSUME Clean(r), i = r.current
      PROVE  Clean(SwitchedOff(r, i))
  BY <1>1, <1>2, <1>3, <1>5 DEF Clean, EntriesOf, Live
<1> QED
  BY <1>4, <1>5

LEMMA InstalledSound ==
  ASSUME NEW r, Sound(r), NEW call, NEW api
  PROVE  /\ Sound(Installed(r, call, api))
         /\ Clean(r) /\ call.saw = r.current => Clean(Installed(r, call, api))
<1> DEFINE d == Disposed(r.entries, call.saw)
           e == NewEntry(call.raw, call.token, api)
           i == [entries |-> Append(d, e), current |-> Len(r.entries) + 1]
<1>1. Installed(r, call, api) = r \/ Installed(r, call, api) = i
  BY DEF Installed
<1>2. /\ \E S : d \in Seq(S)
      /\ Len(d) = Len(r.entries)
      /\ \A j \in 1 .. Len(r.entries) : Entry(d[j])
  BY DisposedEntries DEF EntriesOf
<1>3. \A j \in 1 .. Len(r.entries) :
        IF j = call.saw THEN ~ Live(d[j]) ELSE d[j] = r.entries[j]
  BY DisposedEntries DEF EntriesOf
<1>4. Entry(e) /\ InUse(e)
  BY NewIsEntry
<1> HIDE DEF d, e
<1>5. PICK S : d \in Seq(S)
  BY <1>2
<1>6. /\ Append(d, e) \in Seq(S \cup {e})
      /\ Len(Append(d, e)) = Len(d) + 1
      /\ \A j \in 1 .. Len(d) : Append(d, e)[j] = d[j]
      /\ Append(d, e)[Len(d) + 1] = e
      /\ Len(d) \in Nat
  BY <1>5
<1>7. Sound(i)
  BY <1>2, <1>4, <1>6 DEF Sound, EntriesOf
<1>8. ASSUME Clean(r), call.saw = r.current
      PROVE  Clean(i)
  BY <1>2, <1>3, <1>6, <1>8 DEF Clean, EntriesOf, Live
<1> QED
  BY <1>1, <1>7, <1>8

\* Only the runs of the current entry's poller change.
LEMMA TrackedSound ==
  ASSUME NEW r, Sound(r), r.current # 0, NEW runsOf,
         r.entries[r.current].poller # "none" \/ runsOf = {}
  PROVE  /\ Sound([r EXCEPT !.entries[r.current].tracked = runsOf])
         /\ Keeps(r, [r EXCEPT !.entries[r.current].tracked = runsOf])
<1> DEFINE k == r.current
           e == [r.entries[k] EXCEPT !.tracked = runsOf]
           s == [r.entries EXCEPT ![k] = e]
           n == [r EXCEPT !.entries[k].tracked = runsOf]
<1>1. PICK S : r \in [entries : Seq(S), current : Nat]
  BY DEF Sound
<1>2. k \in 1 .. Len(r.entries) /\ r.entries \in Seq(S) /\ InUse(r.entries[k])
  BY <1>1 DEF Sound, EntriesOf
<1>3. Entry(e) /\ InUse(e) /\ e.raw = r.entries[k].raw
  BY <1>2, TrackedIsEntry DEF Sound, EntriesOf, Entry, IsEntry
<1>4. n.entries = s /\ n.current = k /\ n = [r EXCEPT !.entries = s]
  BY <1>1
<1> HIDE DEF e
<1>5. s \in Seq(S \cup {e}) /\ Len(s) = Len(r.entries)
  BY <1>2
<1>6. \A j \in 1 .. Len(r.entries) : s[j] = IF j = k THEN e ELSE r.entries[j]
  BY <1>2
<1> HIDE DEF s
<1>7. n \in [entries : Seq(S \cup {e}), current : Nat]
  BY <1>1, <1>4, <1>5
<1> HIDE DEF n
<1>8. \A j \in EntriesOf(n) : Entry(n.entries[j])
  BY <1>3, <1>4, <1>5, <1>6 DEF Sound, EntriesOf
<1>9. n.current \in EntriesOf(n) /\ InUse(n.entries[n.current])
  BY <1>2, <1>3, <1>4, <1>5, <1>6 DEF EntriesOf
<1>10. Sound(n)
  BY <1>7, <1>8, <1>9 DEF Sound
<1>11. Keeps(r, n)
  BY <1>2, <1>3, <1>4, <1>5, <1>6 DEF Keeps, EntriesOf
<1> QED
  BY <1>10, <1>11 DEF n

LEMMA TrackingSound ==
  ASSUME NEW r, Sound(r), NEW active
  PROVE  Sound(Tracking(r, active)) /\ Keeps(r, Tracking(r, active))
<1>1. CASE r.current = 0 \/ r.entries[r.current].poller = "none"
  BY <1>1 DEF Tracking, Keeps
<1>2. CASE r.current # 0 /\ r.entries[r.current].poller # "none"
  <2> DEFINE runsOf == r.entries[r.current].tracked \cup active
  <2>1. /\ Sound([r EXCEPT !.entries[r.current].tracked = runsOf])
       /\ Keeps(r, [r EXCEPT !.entries[r.current].tracked = runsOf])
    <3> HIDE DEF runsOf
    <3> QED
      BY <1>2, TrackedSound
  <2>2. Tracking(r, active) = [r EXCEPT !.entries[r.current].tracked = runsOf]
    BY <1>2, Zenon DEF Tracking
  <2> QED
    BY <2>1, <2>2
<1> QED
  BY <1>1, <1>2

\* An entry without a poller tracks nothing to begin with.
LEMMA UntrackingSound ==
  ASSUME NEW r, Sound(r), NEW run
  PROVE  Sound(Untracking(r, run)) /\ Keeps(r, Untracking(r, run))
<1>1. CASE r.current = 0
  BY <1>1 DEF Untracking, Keeps
<1>2. CASE r.current # 0
  <2> DEFINE runsOf == r.entries[r.current].tracked \ {run}
  <2>1. r.entries[r.current].poller # "none" \/ r.entries[r.current].tracked = {}
    BY <1>2 DEF Sound, Entry, EntryCoherent
  <2>2. r.entries[r.current].poller # "none" \/ runsOf = {}
    BY <2>1
  <2>3. /\ Sound([r EXCEPT !.entries[r.current].tracked = runsOf])
       /\ Keeps(r, [r EXCEPT !.entries[r.current].tracked = runsOf])
    <3> HIDE DEF runsOf
    <3> QED
      BY <1>2, <2>2, TrackedSound
  <2>4. Untracking(r, run) = [r EXCEPT !.entries[r.current].tracked = runsOf]
    BY <1>2, Zenon DEF Untracking
  <2> QED
    BY <2>3, <2>4
<1> QED
  BY <1>1, <1>2

LEMMA HandledSound ==
  ASSUME NEW r, Sound(r), NEW event
  PROVE  Sound(Handled(r, event)) /\ Keeps(r, Handled(r, event))
<1>1. CASE event.kind = "started"
  BY <1>1, TrackingSound DEF Handled
<1>2. CASE event.kind = "ended"
  BY <1>2, UntrackingSound DEF Handled
<1>3. CASE event.kind \notin {"started", "ended"}
  BY <1>3 DEF Handled, Keeps
<1> QED
  BY <1>1, <1>2, <1>3

LEMMA InstalledInForce ==
  ASSUME NEW r, Sound(r), NEW call, NEW api, call.saw = r.current, ~ EndsAtOnce(call.raw)
  PROVE  InForce(Installed(r, call, api), call.raw)
<1> DEFINE d == Disposed(r.entries, call.saw)
           e == NewEntry(call.raw, call.token, api)
           i == [entries |-> Append(d, e), current |-> Len(r.entries) + 1]
<1>1. CASE Installed(r, call, api) = r /\ call.saw # 0
             /\ Unchanged(r.entries[call.saw], call.raw, call.token, api)
  BY <1>1 DEF InForce, Unchanged
<1>2. CASE Installed(r, call, api) = i
  <2>1. (\E S : d \in Seq(S)) /\ Len(d) = Len(r.entries)
    BY DisposedEntries DEF EntriesOf
  <2>2. SameSettings(e.raw, call.raw)
    BY DEF NewEntry, SameSettings, SameUrl
  <2> HIDE DEF d, e
  <2>3. Append(d, e)[Len(r.entries) + 1] = e
    BY <2>1
  <2>4. i.entries[i.current] = e
    BY <2>3
  <2> HIDE DEF i
  <2>5. SameSettings(i.entries[i.current].raw, call.raw)
    BY <2>2, <2>4
  <2> QED
    BY <1>2, <2>5 DEF InForce
<1> QED
  BY <1>1, <1>2 DEF Installed

LEMMA NoRelaySound == Sound(NoRelay) /\ Clean(NoRelay)
<1>1. NoRelay \in [entries : Seq({}), current : Nat] /\ Len(NoRelay.entries) = 0
  BY DEF NoRelay
<1> QED
  BY <1>1 DEF Sound, Clean, EntriesOf, NoRelay

-----------------------------------------------------------------------------
(* Tasks.                                                                   *)

IsTask(c) ==
  c \in [at : {c.at}, why : {c.why}, event : {c.event}, rt : {c.rt}, log : {c.log},
         seen : {c.seen}, raw : {c.raw}, saw : {c.saw}, token : {c.token}]

Shaped ==
  /\ tasks = [t \in TaskIds |-> tasks[t]]
  /\ \A t \in TaskIds : IsTask(tasks[t])

\* A call that saw the relay r, with the configuration raw.
UpToDate(c, r, raw) == c.saw = r.current /\ c.raw = raw /\ ~ EndsAtOnce(raw)

\* At most one call of configure is under way, and what it saw is still the company's.
Alone ==
  \A t \in TaskIds : Configuring(t) =>
    UpToDate(tasks[t], relay, saved) /\ \A o \in TaskIds \ {t} : ~ Configuring(o)

NoneConfiguring == \A t \in TaskIds : ~ Configuring(t)

Tidy ==
  ~ overlapped => Clean(relay) /\ Alone /\ (NoneConfiguring => InForce(relay, saved))

LifecycleInv == Sound(relay) /\ Shaped /\ Tidy

\* What a step does to the tasks: t goes on to c, the others stay where they are.
GoesOn(t, c) ==
  /\ Shaped'
  /\ tasks'[t] = c
  /\ \A o \in TaskIds \ {t} : tasks'[o] = tasks[o]

LEMMA IdleTask ==
  IsTask(Idle) /\ Idle.at = "idle"
  BY DEF IsTask, Idle

LEMMA ResyncTask ==
  LET c == [Idle EXCEPT !.at = "resync"] IN IsTask(c) /\ c.at = "resync"
  BY IdleTask DEF IsTask

LEMMA SnapshotTask ==
  ASSUME NEW rt
  PROVE  LET c == [Idle EXCEPT !.at = "snapshot", !.rt = rt]
         IN IsTask(c) /\ c.at = "snapshot"
  BY IdleTask DEF IsTask

LEMMA SetupTask ==
  ASSUME NEW why, NEW event
  PROVE  IsTask(SetupFor(why, event)) /\ SetupFor(why, event).at = "buckets"
  BY IdleTask DEF IsTask, SetupFor

LEMMA TaskGoesOn ==
  ASSUME Shaped, NEW t \in TaskIds, NEW c, IsTask(c), tasks' = [tasks EXCEPT ![t] = c]
  PROVE  GoesOn(t, c)
<1>1. tasks' = [o \in TaskIds |-> IF o = t THEN c ELSE tasks[o]]
  BY DEF Shaped
<1>2. Shaped'
  BY <1>1 DEF Shaped
<1> QED
  BY <1>1, <1>2 DEF GoesOn

-----------------------------------------------------------------------------
(* Configuring. What a call saw matters for Clean only: for a sound relay   *)
(* it may be gone.                                                          *)

LEMMA KeepsAll ==
  ASSUME NEW r, NEW n, Keeps(r, n)
  PROVE  /\ Clean(r) => Clean(n)
         /\ \A raw : InForce(r, raw) => InForce(n, raw)
         /\ \A m : Keeps(n, m) => Keeps(r, m)
<1>1. Clean(r) => Clean(n)
  BY DEF Keeps, Clean, EntriesOf
<1>2. \A raw : InForce(r, raw) => InForce(n, raw)
  BY DEF Keeps, InForce, SameSettings, SameUrl, Unset
<1>3. \A m : Keeps(n, m) => Keeps(r, m)
  BY DEF Keeps, EntriesOf
<1> QED
  BY <1>1, <1>2, <1>3

LEMMA AfterSetupOutcome ==
  ASSUME Shaped, NEW t \in TaskIds, NEW r, Sound(r), NEW book, AfterSetup(t, r, book)
  PROVE  Sound(relay') /\ Keeps(r, relay') /\ GoesOn(t, Idle)
<1>1. GoesOn(t, Idle)
  BY IdleTask, TaskGoesOn DEF AfterSetup
<1>2. relay' = r \/ relay' = Handled(r, tasks[t].event)
  BY DEF AfterSetup
<1>3. Keeps(r, r)
  BY DEF Keeps
<1> QED
  BY <1>1, <1>2, <1>3, HandledSound

\* t is done with configure.
Done(t) == \E c : GoesOn(t, c) /\ c.at \in {"idle", "resync"}

LEMMA AfterConfigureOutcome ==
  ASSUME Shaped, NEW t \in TaskIds, NEW r, Sound(r), NEW raw, AfterConfigure(t, r, raw)
  PROVE  Sound(relay') /\ Keeps(r, relay') /\ Done(t)
<1>1. CASE t = "change"
  <2> DEFINE resync == [Idle EXCEPT !.at = "resync"]
  <2>1. relay' = r /\ tasks' = [tasks EXCEPT ![t] = IF r.current = 0 THEN Idle ELSE resync]
    BY <1>1 DEF AfterConfigure
  <2>2. IsTask(resync) /\ resync.at = "resync"
    BY ResyncTask
  <2> HIDE DEF resync
  <2>3. GoesOn(t, Idle) \/ GoesOn(t, resync)
    BY <2>1, <2>2, IdleTask, TaskGoesOn
  <2>4. Keeps(r, r)
    BY DEF Keeps
  <2> QED
    BY <2>1, <2>2, <2>3, <2>4, IdleTask DEF Done
<1>2. CASE t # "change"
  <2> DEFINE n == Tracking(r, tasks[t].seen)
  <2>1. PICK book : AfterSetup(t, n, book)
    BY <1>2, Zenon DEF AfterConfigure
  <2>2. Sound(n) /\ Keeps(r, n)
    BY TrackingSound
  <2> HIDE DEF n
  <2>3. Sound(relay') /\ Keeps(n, relay') /\ GoesOn(t, Idle)
    BY <2>1, <2>2, AfterSetupOutcome
  <2> QED
    BY <2>2, <2>3, KeepsAll, IdleTask DEF Done
<1> QED
  BY <1>1, <1>2

\* t awaits a secret of a call that is up to date.
Awaits(t, raw) ==
  \E c : GoesOn(t, c) /\ c.at \in {"token", "api"} /\ UpToDate(c, relay', raw)

\* What becomes of a call that was up to date.
Proper(t, raw) ==
  /\ Clean(relay) => Clean(relay')
  /\ (Done(t) /\ InForce(relay', raw)) \/ Awaits(t, raw)

LEMMA AfterConfigureProper ==
  ASSUME Shaped, NEW t \in TaskIds, NEW r, Sound(r), NEW raw, AfterConfigure(t, r, raw),
         Clean(relay) => Clean(r), InForce(r, raw)
  PROVE  Sound(relay') /\ Proper(t, raw)
  BY AfterConfigureOutcome, KeepsAll DEF Proper

LEMMA SwitchedOffInForce ==
  ASSUME NEW r, NEW i, NEW raw
  PROVE  InForce(SwitchedOff(r, i), raw)
  BY DEF SwitchedOff, InForce

LEMMA ConfigureOutcome ==
  ASSUME Sound(relay), Shaped, NEW t \in TaskIds, NEW raw, Configure(t, raw)
  PROVE  Sound(relay') /\ Proper(t, raw)
<1> DEFINE call == [raw |-> raw, saw |-> relay.current, token |-> NoToken]
<1>1. CASE EndsAtOnce(raw)
  <2> DEFINE n == SwitchedOff(relay, relay.current)
  <2>1. AfterConfigure(t, n, raw)
    BY <1>1 DEF Configure
  <2>2. Sound(n) /\ (Clean(relay) => Clean(n)) /\ InForce(n, raw)
    BY SwitchedOffSound, SwitchedOffInForce
  <2> HIDE DEF n
  <2> QED
    BY <2>1, <2>2, AfterConfigureProper
<1>2. CASE ~ EndsAtOnce(raw) /\ FirstAwait(raw) = {}
  <2> DEFINE n == Installed(relay, call, NoToken)
  <2>1. AfterConfigure(t, n, raw)
    BY <1>2 DEF Configure
  <2>2. call.saw = relay.current /\ call.raw = raw
    OBVIOUS
  <2> HIDE DEF call
  <2>3. Sound(n) /\ (Clean(relay) => Clean(n)) /\ InForce(n, raw)
    BY <1>2, <2>2, InstalledSound, InstalledInForce
  <2> HIDE DEF n
  <2> QED
    BY <2>1, <2>3, AfterConfigureProper
<1>3. CASE ~ EndsAtOnce(raw) /\ FirstAwait(raw) # {}
  <2>1. PICK await \in FirstAwait(raw) :
          /\ tasks' = [tasks EXCEPT ![t].at = await, ![t].raw = raw,
                                    ![t].saw = relay.current, ![t].token = NoToken]
          /\ UNCHANGED relay
    BY <1>3 DEF Configure
  <2>2. await \in {"token", "api"}
    BY DEF FirstAwait, NextAwait
  <2> DEFINE k == relay.current
             c == [tasks[t] EXCEPT !.at = await, !.raw = raw, !.saw = k, !.token = NoToken]
  <2>3. tasks' = [tasks EXCEPT ![t] = c]
    BY <2>1 DEF Shaped, IsTask
  <2>4. IsTask(c) /\ c.at = await /\ c.saw = k /\ c.raw = raw
    BY DEF Shaped, IsTask
  <2> HIDE DEF c
  <2>5. GoesOn(t, c)
    BY <2>3, <2>4, TaskGoesOn
  <2>6. relay' = relay
    BY <2>1
  <2>7. Awaits(t, raw)
    BY <1>3, <2>2, <2>4, <2>5, <2>6 DEF Awaits, UpToDate
  <2> QED
    BY <2>6, <2>7 DEF Proper
<1> QED
  BY <1>1, <1>2, <1>3

LEMMA ResolvedOutcome ==
  ASSUME Sound(relay), Shaped, NEW t \in TaskIds, SecretResolved(t), NEW raw
  PROVE  /\ Sound(relay') /\ \E c : GoesOn(t, c)
         /\ UpToDate(tasks[t], relay, raw) => Proper(t, raw)
<1> DEFINE k == tasks[t].saw  w == tasks[t].raw
<1>1. PICK value \in Tokens :
        IF tasks[t].at = "token" /\ NextAwait(tasks[t].raw) # {}
        THEN /\ tasks' = [tasks EXCEPT ![t].at = "api", ![t].token = value]
             /\ UNCHANGED <<relay, comms, worker>>
        ELSE LET call == IF tasks[t].at = "token" THEN [tasks[t] EXCEPT !.token = value]
                         ELSE tasks[t]
             IN AfterConfigure(t, Installed(relay, call,
                                  IF tasks[t].at = "api" THEN value ELSE NoToken), call.raw)
  BY DEF SecretResolved
<1>2. CASE tasks[t].at = "token" /\ NextAwait(tasks[t].raw) # {}
  <2> DEFINE c == [tasks[t] EXCEPT !.at = "api", !.token = value]
  <2>1. tasks' = [tasks EXCEPT ![t] = c] /\ relay' = relay
    BY <1>1, <1>2 DEF Shaped, IsTask
  <2>2. IsTask(c) /\ c.at = "api" /\ c.saw = k /\ c.raw = w
    BY DEF Shaped, IsTask
  <2> HIDE DEF c
  <2>3. GoesOn(t, c)
    BY <2>1, <2>2, TaskGoesOn
  <2>4. ASSUME UpToDate(tasks[t], relay, raw)
        PROVE  Awaits(t, raw)
    BY <2>1, <2>2, <2>3, <2>4 DEF Awaits, UpToDate
  <2> QED
    BY <2>1, <2>3, <2>4 DEF Proper
<1>3. CASE ~ (tasks[t].at = "token" /\ NextAwait(tasks[t].raw) # {})
  <2> DEFINE c == [tasks[t] EXCEPT !.token = value]
  <2>1. c.saw = k /\ c.raw = w
    BY DEF Shaped, IsTask
  <2> HIDE DEF c
  <2>2. PICK call, api : /\ call = c \/ call = tasks[t]
                         /\ AfterConfigure(t, Installed(relay, call, api), call.raw)
    BY <1>1, <1>3, Zenon DEF c
  <2>3. call.saw = k /\ call.raw = w
    BY <2>1, <2>2
  <2> DEFINE n == Installed(relay, call, api)
  <2>4. Sound(n)
    BY InstalledSound
  <2>5. ASSUME UpToDate(tasks[t], relay, raw)
        PROVE  w = raw /\ (Clean(relay) => Clean(n)) /\ InForce(n, w)
    BY <2>3, <2>5, InstalledSound, InstalledInForce DEF UpToDate
  <2>6. AfterConfigure(t, n, w)
    BY <2>2, <2>3
  <2> HIDE DEF n
  <2>7. ASSUME UpToDate(tasks[t], relay, raw)
        PROVE  Proper(t, raw)
    BY <2>4, <2>5, <2>6, <2>7, AfterConfigureProper
  <2> QED
    BY <2>4, <2>6, <2>7, AfterConfigureOutcome DEF Done
<1> QED
  BY <1>2, <1>3

LEMMA UnresolvedOutcome ==
  ASSUME Sound(relay), Shaped, NEW t \in TaskIds, SecretUnresolved(t), NEW raw
  PROVE  /\ Sound(relay') /\ \E c : GoesOn(t, c)
         /\ UpToDate(tasks[t], relay, raw) => Proper(t, raw)
<1>1. PICK r : /\ \/ r = SwitchedOff(relay, tasks[t].saw)
                  \/ r = Installed(relay, tasks[t], NoToken)
               /\ AfterConfigure(t, r, tasks[t].raw)
  BY Zenon DEF SecretUnresolved
<1>2. Sound(r)
  BY <1>1, SwitchedOffSound, InstalledSound
<1>3. ASSUME UpToDate(tasks[t], relay, raw)
      PROVE  tasks[t].raw = raw /\ (Clean(relay) => Clean(r)) /\ InForce(r, raw)
  BY <1>1, <1>3, SwitchedOffSound, SwitchedOffInForce, InstalledSound, InstalledInForce
     DEF UpToDate
<1>4. ASSUME UpToDate(tasks[t], relay, raw)
      PROVE  Proper(t, raw)
  BY <1>1, <1>2, <1>3, <1>4, AfterConfigureProper
<1> QED
  BY <1>1, <1>2, <1>4, AfterConfigureOutcome DEF Done

-----------------------------------------------------------------------------
(* Steps.                                                                   *)

\* A step of a task that is not inside configure, or of no task.
Aside ==
  /\ Shaped' /\ UNCHANGED <<overlapped, saved>>
  /\ Sound(relay') /\ Keeps(relay, relay')
  /\ \A t \in TaskIds : Configuring(t) \/ Configuring(t)' => tasks'[t] = tasks[t]

LEMMA AsidePreserves ==
  ASSUME LifecycleInv, Aside
  PROVE  LifecycleInv'
<1>1. Clean(relay) => Clean(relay')
  BY KeepsAll DEF Aside
<1>2. relay'.current = relay.current /\ saved' = saved /\ overlapped' = overlapped
  BY DEF Aside, Keeps
<1>3. \A t \in TaskIds : /\ Configuring(t)' <=> Configuring(t)
                         /\ Configuring(t) => tasks'[t] = tasks[t]
  BY DEF Aside, Configuring
<1>4. Alone => Alone'
  BY <1>2, <1>3 DEF Alone, UpToDate, EndsAtOnce, Rejected
<1>5. NoneConfiguring' => NoneConfiguring
  BY <1>3 DEF NoneConfiguring
<1>6. InForce(relay, saved) => InForce(relay, saved)'
  BY <1>2, KeepsAll DEF Aside
<1>7. Tidy'
  BY <1>1, <1>2, <1>4, <1>5, <1>6 DEF LifecycleInv, Tidy
<1> QED
  BY <1>7 DEF LifecycleInv, Aside

LEMMA RelayKept ==
  ASSUME Sound(relay), UNCHANGED relay
  PROVE  Sound(relay') /\ Keeps(relay, relay')
  BY DEF Sound, EntriesOf, Keeps

LEMMA TasksKept ==
  ASSUME Shaped, UNCHANGED tasks
  PROVE  Shaped' /\ \A t \in TaskIds : tasks'[t] = tasks[t]
  BY DEF Shaped

\* t, which is not inside configure, goes on to c, which is not either.
LEMMA TaskAside ==
  ASSUME LifecycleInv, NEW t \in TaskIds, ~ Configuring(t), NEW c, GoesOn(t, c),
         c.at \notin {"token", "api"}, UNCHANGED <<overlapped, saved>>,
         Sound(relay'), Keeps(relay, relay')
  PROVE  LifecycleInv'
<1>1. Aside
  BY DEF GoesOn, Aside, Configuring
<1> QED
  BY <1>1, AsidePreserves

\* A call of configure with what is saved by then begins, goes on or ends.
LEMMA ConfiguringPreserves ==
  ASSUME LifecycleInv, NEW t \in TaskIds, Sound(relay'), NEW c, GoesOn(t, c),
         overlapped' = (overlapped \/ Overlaps(t)),
         ~ overlapped' => Proper(t, saved')
  PROVE  LifecycleInv'
<1>1. ASSUME ~ overlapped'
      PROVE  Clean(relay') /\ Alone' /\ (NoneConfiguring' => InForce(relay', saved'))
  <2>1. \A o \in TaskIds \ {t} : ~ Configuring(o)
    BY <1>1 DEF Overlaps
  <2>2. \A o \in TaskIds \ {t} : ~ Configuring(o)'
    BY <2>1 DEF GoesOn, Configuring
  <2>3. Clean(relay')
    BY <1>1 DEF LifecycleInv, Tidy, Proper
  <2>4. CASE Done(t) /\ InForce(relay', saved')
    <3>1. ~ Configuring(t)'
      BY <2>4 DEF Done, GoesOn, Configuring
    <3>2. Alone'
      BY <2>2, <3>1 DEF Alone
    <3> QED
      BY <2>3, <2>4, <3>2
  <2>5. CASE Awaits(t, saved')
    <3>1. PICK d : GoesOn(t, d) /\ d.at \in {"token", "api"} /\ UpToDate(d, relay', saved')
      BY <2>5 DEF Awaits
    <3>2. Configuring(t)' /\ UpToDate(tasks[t], relay, saved)'
      BY <3>1 DEF GoesOn, Configuring
    <3>3. Alone'
      BY <2>2, <3>2 DEF Alone
    <3>4. ~ NoneConfiguring'
      BY <3>2 DEF NoneConfiguring
    <3> QED
      BY <2>3, <3>3, <3>4
  <2> QED
    BY <1>1, <2>4, <2>5 DEF Proper
<1>2. Tidy'
  BY <1>1 DEF Tidy
<1> QED
  BY <1>2 DEF LifecycleInv, GoesOn

LEMMA ConfigurePreserves ==
  ASSUME LifecycleInv, NEW t \in TaskIds, NEW raw, Configure(t, raw), saved' = raw
  PROVE  LifecycleInv'
<1>1. Sound(relay') /\ Proper(t, saved')
  BY ConfigureOutcome DEF LifecycleInv
<1>2. overlapped' = (overlapped \/ Overlaps(t))
  BY DEF Configure
<1>3. PICK c : GoesOn(t, c)
  BY <1>1 DEF Proper, Done, Awaits
<1> QED
  BY <1>1, <1>2, <1>3, ConfiguringPreserves

LEMMA SecretPreserves ==
  ASSUME LifecycleInv, NEW t \in TaskIds, SecretResolved(t) \/ SecretUnresolved(t)
  PROVE  LifecycleInv'
<1>1. Configuring(t) /\ overlapped' = (overlapped \/ Overlaps(t)) /\ saved' = saved
  BY DEF SecretResolved, SecretUnresolved, hostVars
<1>2. ~ overlapped' => UpToDate(tasks[t], relay, saved)
  BY <1>1 DEF LifecycleInv, Tidy, Alone
<1>3. /\ Sound(relay') /\ \E c : GoesOn(t, c)
      /\ UpToDate(tasks[t], relay, saved) => Proper(t, saved)
  BY ResolvedOutcome, UnresolvedOutcome DEF LifecycleInv
<1>4. ~ overlapped' => Proper(t, saved')
  BY <1>1, <1>2, <1>3
<1> QED
  BY <1>1, <1>3, <1>4, ConfiguringPreserves

LEMMA BeginPreserves ==
  ASSUME LifecycleInv, NEW t \in TaskIds, NEW why, NEW event, Begin(t, why, event),
         UNCHANGED <<relay, overlapped, saved>>
  PROVE  LifecycleInv'
<1> DEFINE c == SetupFor(why, event)
<1>1. tasks' = [tasks EXCEPT ![t] = c]
  BY DEF Begin
<1>2. ~ Configuring(t)
  BY IdleTask DEF Begin, Configuring
<1>3. IsTask(c) /\ c.at = "buckets"
  BY SetupTask
<1> HIDE DEF c
<1>4. GoesOn(t, c)
  BY <1>1, <1>3, TaskGoesOn DEF LifecycleInv
<1> QED
  BY <1>2, <1>3, <1>4, RelayKept, TaskAside DEF LifecycleInv

\* The awaits of a setup before configure.
LEMMA LoadPreserves ==
  ASSUME LifecycleInv, NEW t \in TaskIds, BucketsLoaded(t) \/ CommsLoaded(t) \/ Bootstrapped(t)
  PROVE  LifecycleInv'
<1> DEFINE c(at, rt, book, seen) ==
             [tasks[t] EXCEPT !.at = at, !.rt = rt, !.log = book, !.seen = seen]
<1>1. UNCHANGED <<relay, overlapped, saved>> /\ ~ Configuring(t)
  BY DEF BucketsLoaded, CommsLoaded, Bootstrapped, hostVars, Configuring
<1>2. ASSUME NEW at \in {"comms", "snapshot", "characters"}, NEW rt, NEW book, NEW seen,
             tasks' = [tasks EXCEPT ![t] = c(at, rt, book, seen)]
      PROVE  LifecycleInv'
  <2> DEFINE d == c(at, rt, book, seen)
  <2>1. IsTask(d) /\ d.at = at
    BY DEF LifecycleInv, Shaped, IsTask
  <2>2. tasks' = [tasks EXCEPT ![t] = d]
    BY <1>2
  <2> HIDE DEF d
  <2>3. GoesOn(t, d)
    BY <2>1, <2>2, TaskGoesOn DEF LifecycleInv
  <2> QED
    BY <1>1, <2>1, <2>3, RelayKept, TaskAside DEF LifecycleInv
<1>3. CASE BucketsLoaded(t)
  <2>1. tasks' = [tasks EXCEPT ![t] = c("comms", present', disk, tasks[t].seen)]
    BY <1>3 DEF BucketsLoaded, LifecycleInv, Shaped, IsTask
  <2> HIDE DEF c
  <2> QED
    BY <1>2, <2>1
<1>4. CASE CommsLoaded(t)
  <2>1. tasks' = [tasks EXCEPT ![t] = c("snapshot", tasks[t].rt, NoCompact, tasks[t].seen)]
    BY <1>4 DEF CommsLoaded, LifecycleInv, Shaped, IsTask
  <2> HIDE DEF c
  <2> QED
    BY <1>2, <2>1
<1>5. CASE Bootstrapped(t)
  <2>1. tasks' = [tasks EXCEPT ![t] = c("characters", tasks[t].rt, tasks[t].log, Active)]
    BY <1>5 DEF Bootstrapped, LifecycleInv, Shaped, IsTask
  <2> HIDE DEF c
  <2> QED
    BY <1>2, <2>1
<1> QED
  BY <1>3, <1>4, <1>5

\* t ends, or goes on to a resync or to the snapshot after it.
Ends(t, rt) ==
  tasks' \in {[tasks EXCEPT ![t] = Idle],
              [tasks EXCEPT ![t] = [Idle EXCEPT !.at = "resync"]],
              [tasks EXCEPT ![t] = [Idle EXCEPT !.at = "snapshot", !.rt = rt]]}

LEMMA EndPreserves ==
  ASSUME LifecycleInv, NEW t \in TaskIds, NEW rt, Ends(t, rt),
         ~ Configuring(t), UNCHANGED <<overlapped, saved>>, Sound(relay'), Keeps(relay, relay')
  PROVE  LifecycleInv'
<1>1. PICK c : /\ IsTask(c) /\ c.at \in {"idle", "resync", "snapshot"}
               /\ tasks' = [tasks EXCEPT ![t] = c]
  BY IdleTask, ResyncTask, SnapshotTask, Zenon DEF Ends
<1>2. GoesOn(t, c)
  BY <1>1, TaskGoesOn DEF LifecycleInv
<1> QED
  BY <1>1, <1>2, TaskAside

LEMMA ReconciledPreserves ==
  ASSUME LifecycleInv, Reconciled
  PROVE  LifecycleInv'
<1> DEFINE c == [tasks["job"] EXCEPT !.at = "characters", !.seen = Active]
<1>1. "job" \in TaskIds /\ UNCHANGED <<relay, overlapped, saved>> /\ ~ Configuring("job")
  BY DEF TaskIds, Reconciled, hostVars, Configuring
<1>2. Sound(relay') /\ Keeps(relay, relay')
  BY <1>1, RelayKept DEF LifecycleInv
<1>3. CASE tasks' = [tasks EXCEPT !["job"] = Idle]
  <2>1. Ends("job", 0)
    BY <1>3 DEF Ends
  <2> QED
    BY <1>1, <1>2, <2>1, EndPreserves
<1>4. CASE tasks' = [tasks EXCEPT !["job"] = c]
  <2>1. IsTask(c) /\ c.at = "characters"
    BY <1>1 DEF LifecycleInv, Shaped, IsTask
  <2> HIDE DEF c
  <2>2. GoesOn("job", c)
    BY <1>1, <1>4, <2>1, TaskGoesOn DEF LifecycleInv
  <2> QED
    BY <1>1, <1>2, <2>1, <2>2, TaskAside
<1>5. tasks' = [tasks EXCEPT !["job"] = Idle] \/ tasks' = [tasks EXCEPT !["job"] = c]
  BY <1>1 DEF Reconciled, LifecycleInv, Shaped, IsTask
<1> QED
  BY <1>3, <1>4, <1>5

\* No task is inside configure when the worker starts or has ended.
LEMMA FreshPreserves ==
  ASSUME Sound(relay'), ~ overlapped' => Clean(relay'), relay'.current = 0,
         \/ tasks' = [t \in TaskIds |-> Idle]
         \/ \E listed \in BOOLEAN : tasks' =
              [t \in TaskIds |-> IF t = "boot" /\ listed THEN SetupFor("boot", NoEvent) ELSE Idle]
  PROVE  LifecycleInv'
<1>1. /\ tasks' = [t \in TaskIds |-> tasks'[t]]
      /\ \A t \in TaskIds : tasks'[t] = Idle \/ tasks'[t] = SetupFor("boot", NoEvent)
  OBVIOUS
<1>2. \A t \in TaskIds : IsTask(tasks'[t]) /\ tasks'[t].at \in {"idle", "buckets"}
  BY <1>1, IdleTask, SetupTask
<1>3. Shaped'
  BY <1>1, <1>2 DEF Shaped
<1>4. Alone'
  BY <1>2 DEF Alone, Configuring
<1>5. InForce(relay, saved)'
  BY DEF InForce
<1> QED
  BY <1>3, <1>4, <1>5 DEF LifecycleInv, Tidy

LEMMA JobPreserves ==
  ASSUME LifecycleInv, JobTick \/ ReconcileFed \/ ReconcileFails
  PROVE  LifecycleInv'
<1>1. "job" \in TaskIds /\ UNCHANGED <<overlapped, saved>>
  BY DEF TaskIds, JobTick, ReconcileFed, ReconcileFails, hostVars
<1>2. ~ Configuring("job")
  BY IdleTask DEF JobTick, ReconcileFed, ReconcileFails, Configuring
<1>3. relay' = relay \/ relay' = Tracking(relay, tasks["job"].seen)
  BY DEF JobTick, ReconcileFed, ReconcileFails
<1>4. Sound(relay') /\ Keeps(relay, relay')
  BY <1>3, RelayKept, TrackingSound DEF LifecycleInv
<1>5. Ends("job", present)
  BY DEF JobTick, ReconcileFed, ReconcileFails, Ends
<1> QED
  BY <1>1, <1>2, <1>4, <1>5, EndPreserves

LEMMA TaskEndPreserves ==
  ASSUME LifecycleInv, NEW t \in TaskIds, ConfigUnread(t) \/ SetupFails(t) \/ Resynced(t)
  PROVE  LifecycleInv'
<1>1. CASE ConfigUnread(t)
  <2>1. /\ AfterSetup(t, relay, comms) /\ UNCHANGED <<overlapped, saved>>
        /\ ~ Configuring(t)
    BY <1>1 DEF ConfigUnread, hostVars, Configuring
  <2>2. Sound(relay') /\ Keeps(relay, relay') /\ GoesOn(t, Idle)
    BY <2>1, AfterSetupOutcome DEF LifecycleInv
  <2> QED
    BY <2>1, <2>2, IdleTask, TaskAside
<1>2. CASE SetupFails(t) \/ Resynced(t)
  <2>1. UNCHANGED <<relay, overlapped, saved>> /\ ~ Configuring(t)
    BY <1>2 DEF SetupFails, Resynced, hostVars, Configuring
  <2>2. Ends(t, present)
    BY <1>2 DEF SetupFails, Resynced, Ends
  <2>3. Sound(relay') /\ Keeps(relay, relay')
    BY <2>1, RelayKept DEF LifecycleInv
  <2> QED
    BY <2>1, <2>2, <2>3, EndPreserves
<1> QED
  BY <1>1, <1>2

LEMMA DeliverPreserves ==
  ASSUME LifecycleInv, Deliver \/ Query
  PROVE  LifecycleInv'
<1>1. CASE \E t \in Slots : \E why, event :
             Begin(t, why, event) /\ UNCHANGED <<relay, overlapped, saved>>
  BY <1>1, BeginPreserves DEF TaskIds, Setups
<1>2. CASE relay' = Handled(relay, Head(inbox)) /\ UNCHANGED <<tasks, overlapped, saved>>
  <2>1. Aside
    BY <1>2, HandledSound, TasksKept DEF Aside, LifecycleInv
  <2> QED
    BY <2>1, AsidePreserves
<1>3. CASE Deliver
  <2>1. \/ relay' = Handled(relay, Head(inbox)) /\ UNCHANGED tasks
        \/ \E t \in Slots : Begin(t, "event", Head(inbox)) /\ UNCHANGED relay
    BY <1>3, Zenon DEF Deliver
  <2>2. UNCHANGED <<overlapped, saved>>
    BY <1>3 DEF Deliver
  <2> QED
    BY <1>1, <1>2, <2>1, <2>2
<1>4. CASE Query
  <2>1. \E t \in Slots : Begin(t, "query", NoEvent)
    BY <1>4 DEF Query
  <2>2. UNCHANGED <<relay, overlapped, saved>>
    BY <1>4 DEF Query, hostVars
  <2> QED
    BY <1>1, <2>1, <2>2
<1> QED
  BY <1>3, <1>4

LEMMA WorkerPreserves ==
  ASSUME LifecycleInv, Stop \/ Restart
  PROVE  LifecycleInv'
<1>1. CASE Stop
  <2>1. /\ relay' = SwitchedOff(relay, relay.current) /\ UNCHANGED overlapped
        /\ tasks' = [t \in TaskIds |-> Idle]
    BY <1>1 DEF Stop, ShutDown
  <2>2. Sound(relay') /\ (Clean(relay) => Clean(relay'))
    BY <2>1, SwitchedOffSound DEF LifecycleInv
  <2>3. relay'.current = 0
    BY <2>1 DEF SwitchedOff
  <2> QED
    BY <2>1, <2>2, <2>3, FreshPreserves DEF LifecycleInv, Tidy
<1>2. CASE Restart
  <2>1. relay' = NoRelay
    BY <1>2 DEF Restart
  <2>2. \E listed \in BOOLEAN : tasks' =
          [t \in TaskIds |-> IF t = "boot" /\ listed THEN SetupFor("boot", NoEvent) ELSE Idle]
    BY <1>2 DEF Restart
  <2>3. Sound(relay') /\ Clean(relay') /\ relay'.current = 0
    BY <2>1, NoRelaySound DEF NoRelay
  <2> QED
    BY <2>2, <2>3, FreshPreserves
<1> QED
  BY <1>1, <1>2

LEMMA RestPreserves ==
  ASSUME LifecycleInv, UNCHANGED <<relay, tasks, overlapped, saved>>
  PROVE  LifecycleInv'
<1>1. Aside
  BY RelayKept, TasksKept DEF Aside, LifecycleInv
<1> QED
  BY <1>1, AsidePreserves

LEMMA StepPreserves ==
  ASSUME LifecycleInv, [LifecycleNext]_vars
  PROVE  LifecycleInv'
<1>1. CASE \E r \in Runs : StartRun(r) \/ EndRun(r)
  BY <1>1, RestPreserves DEF StartRun, EndRun
<1>2. CASE \E raw \in Configs : ChangeConfig(raw)
  BY <1>2, ConfigurePreserves DEF ChangeConfig, TaskIds
<1>3. ASSUME NEW t \in Setups, SetupStep(t)
      PROVE  LifecycleInv'
  <2>1. t \in TaskIds
    BY DEF TaskIds
  <2>2. CASE BucketsLoaded(t) \/ CommsLoaded(t) \/ Bootstrapped(t)
    BY <2>1, <2>2, LoadPreserves
  <2>3. CASE ConfigRead(t)
    BY <2>1, <2>3, ConfigurePreserves DEF ConfigRead, hostVars
  <2>4. CASE ConfigUnread(t) \/ SetupFails(t)
    BY <2>1, <2>4, TaskEndPreserves
  <2> QED
    BY <1>3, <2>2, <2>3, <2>4 DEF SetupStep
<1>4. CASE \E t \in TaskIds : SecretResolved(t) \/ SecretUnresolved(t)
  BY <1>4, SecretPreserves
<1>5. CASE \E t \in TaskIds : Resynced(t)
  BY <1>5, TaskEndPreserves
<1>6. CASE Deliver \/ Query
  BY <1>6, DeliverPreserves
<1>7. CASE JobTick \/ ReconcileFed \/ ReconcileFails
  BY <1>7, JobPreserves
<1>8. CASE Reconciled
  BY <1>8, ReconciledPreserves
<1>9. CASE Stop \/ Restart
  BY <1>9, WorkerPreserves
<1>10. CASE PersistTick \/ UNCHANGED vars
  BY <1>10, RestPreserves DEF PersistTick, hostVars, vars
<1> QED
  BY <1>1, <1>2, <1>3, <1>4, <1>5, <1>6, <1>7, <1>8, <1>9, <1>10 DEF LifecycleNext

LEMMA InitSound ==
  ASSUME LifecycleInit
  PROVE  LifecycleInv
<1>1. Sound(relay) /\ Clean(relay) /\ relay.current = 0
  <2>1. relay = NoRelay
    BY DEF LifecycleInit
  <2> QED
    BY <2>1, NoRelaySound DEF NoRelay
<1>2. /\ tasks = [t \in TaskIds |-> tasks[t]]
      /\ \A t \in TaskIds : tasks[t] = Idle \/ tasks[t] = SetupFor("boot", NoEvent)
  BY DEF LifecycleInit, Boots
<1>3. \A t \in TaskIds : IsTask(tasks[t]) /\ tasks[t].at \in {"idle", "buckets"}
  BY <1>2, IdleTask, SetupTask
<1> QED
  BY <1>1, <1>2, <1>3 DEF LifecycleInv, Shaped, Tidy, Alone, InForce, Configuring

-----------------------------------------------------------------------------
LEMMA AlwaysInv == LifecycleSpec => []LifecycleInv
  BY InitSound, StepPreserves, PTL DEF LifecycleSpec

(* The relay the company has posts, and its poller is the one its token     *)
(* asks for, whatever setups, events, queries, configuration changes,       *)
(* faults and restarts interleave (relay.ts:654-793) - for any number of    *)
(* them, and any configurations, runs and tokens.                           *)
THEOREM CompanyRelayAlwaysLive == LifecycleSpec => []CurrentRelayLive
<1>1. LifecycleInv => CurrentRelayLive
  BY DEF LifecycleInv, Sound, EntriesOf, Entry, InUse, CurrentRelayLive
<1> QED
  BY <1>1, AlwaysInv, PTL

(* As long as no two calls of configure overlap, none leaves a sink open or *)
(* a poller running behind it: what a call saw before it awaited its        *)
(* secrets is still the relay it replaces (relay.ts:611-613).               *)
THEOREM RelayNeverLeft == LifecycleSpec => []NoRelayLeft
<1>1. LifecycleInv => NoRelayLeft
  BY DEF LifecycleInv, Tidy, Clean, EntriesOf, NoRelayLeft
<1> QED
  BY <1>1, AlwaysInv, PTL

(* ... and the relay the company has is configured as the operator last      *)
(* saved it, whichever of setup, event, query and change configured it.     *)
THEOREM RelayAsSaved == LifecycleSpec => []SavedConfigInForce
<1>1. LifecycleInv => SavedConfigInForce
  BY DEF LifecycleInv, Tidy, NoneConfiguring, InForce, SavedConfigInForce
<1> QED
  BY <1>1, AlwaysInv, PTL

(* What the operator may have saved is never rejected when the relay is     *)
(* configured with it (worker.ts:947-956, relay.ts:249-381), whatever hosts *)
(* there are and whichever are trusted.                                     *)
THEOREM SavedAlwaysAccepted == LifecycleSpec => []SavedConfigsAccepted
<1> DEFINE Gated == saved \in RawConfigs /\ ValidConfig(saved)
<1>1. LifecycleInit => Gated
  BY LifecycleBounds, SavedAssumption DEF LifecycleInit
<1>2. Gated /\ [LifecycleNext]_vars => Gated'
  <2>1. [LifecycleNext]_vars =>
          UNCHANGED saved \/ \E raw \in Configs : ValidConfig(raw) /\ saved' = raw
    BY DEF LifecycleNext, SetupStep, StartRun, EndRun, ChangeConfig, BucketsLoaded, CommsLoaded,
           Bootstrapped, ConfigRead, ConfigUnread, SetupFails, SecretResolved, SecretUnresolved,
           Resynced, Deliver, Query, JobTick, Reconciled, ReconcileFed, ReconcileFails,
           PersistTick, Stop, Restart, hostVars, vars
  <2> HIDE DEF Gated
  <2>2. ASSUME UNCHANGED saved, Gated PROVE Gated'
    BY <2>2 DEF Gated, ValidConfig
  <2>3. ASSUME NEW raw \in Configs, ValidConfig(raw), saved' = raw PROVE Gated'
    BY <2>3, LifecycleBounds DEF Gated
  <2> QED
    BY <2>1, <2>2, <2>3
<1>3. Gated => SavedConfigsAccepted
  BY ValidNeverRejected DEF SavedConfigsAccepted
<1> QED
  BY <1>1, <1>2, <1>3, PTL DEF LifecycleSpec

-----------------------------------------------------------------------------
(* The log of communications: whatever is recorded, bounded and restored,  *)
(* it is no longer than its limit and in the order of its numbers.         *)

Numbered(s) == Increasing(s) /\ \A i \in 1 .. Len(s) : s[i].seq >= 1

LogSound(b) == b \in Logs /\ b.limit >= 1 /\ Bounded(b) /\ InOrder(b)

CompactSound(c) == c \in Compacts /\ Numbered(c.entries)

LEMMA Clamped ==
  ASSUME NEW n \in Int
  PROVE  ClampLimit(n) \in Nat /\ ClampLimit(n) >= 1
  BY LogAssumption DEF ClampLimit

\* The newest n are the last ones.
LEMMA NewestLast ==
  ASSUME NEW S, NEW s \in Seq(S), NEW n \in Nat
  PROVE  /\ Newest(s, n) \in Seq(S) /\ Len(Newest(s, n)) <= n
         /\ Len(Newest(s, n)) \in 0 .. Len(s)
         /\ \A i \in 1 .. Len(Newest(s, n)) :
              /\ Len(s) - Len(Newest(s, n)) + i \in 1 .. Len(s)
              /\ Newest(s, n)[i] = s[Len(s) - Len(Newest(s, n)) + i]
<1>0. PICK L \in Nat : L = Len(s)
  BY LenProperties
<1>1. CASE L > n
  <2>1. \A i \in L - n + 1 .. L : s[i] \in S
    BY <1>0, <1>1, ElementOfSeq
  <2>2. /\ SubSeq(s, L - n + 1, L) \in Seq(S)
        /\ Len(SubSeq(s, L - n + 1, L)) = IF L - n + 1 <= L THEN L - (L - n + 1) + 1 ELSE 0
        /\ \A i \in 1 .. L - (L - n + 1) + 1 :
             SubSeq(s, L - n + 1, L)[i] = s[(L - n + 1) + i - 1]
    <3>1. PICK from \in 1 .. L + 1 : from = L - n + 1
      BY <1>1
    <3>2. \A i \in from .. L : s[i] \in S
      BY <2>1, <3>1
    <3>3. /\ SubSeq(s, from, L) \in Seq(S)
          /\ Len(SubSeq(s, from, L)) = IF from <= L THEN L - from + 1 ELSE 0
          /\ \A i \in 1 .. L - from + 1 : SubSeq(s, from, L)[i] = s[from + i - 1]
      BY <1>0, <3>1, <3>2, SubSeqProperties
    <3> QED
      BY <3>1, <3>3
  <2>3. Len(SubSeq(s, L - n + 1, L)) = n
    <3>1. (L - n + 1 <= L \/ n = 0) /\ L - (L - n + 1) + 1 = n
      BY <1>1
    <3>2. L - n + 1 <= L => Len(SubSeq(s, L - n + 1, L)) = L - (L - n + 1) + 1
      BY <2>2
    <3>3. ~ (L - n + 1 <= L) => Len(SubSeq(s, L - n + 1, L)) = 0
      BY <2>2
    <3> QED
      BY <1>1, <3>1, <3>2, <3>3
  <2>4. \A i \in 1 .. n : SubSeq(s, L - n + 1, L)[i] = s[L - n + i]
    <3> TAKE i \in 1 .. n
    <3>1. i \in 1 .. L - (L - n + 1) + 1 /\ (L - n + 1) + i - 1 = L - n + i
      BY <1>1
    <3> QED
      BY <2>2, <3>1
  <2> DEFINE t == Newest(s, n)
  <2>5. t = SubSeq(s, L - n + 1, L)
    BY <1>0, <1>1 DEF Newest
  <2> HIDE DEF t
  <2>6. t \in Seq(S) /\ Len(t) = n /\ \A i \in 1 .. n : t[i] = s[L - n + i]
    BY <2>2, <2>3, <2>4, <2>5
  <2>7. \A i \in 1 .. n : L - n + i \in 1 .. L
    BY <1>1
  <2>8. n \in 0 .. L /\ n <= n
    BY <1>1
  <2>9. /\ t \in Seq(S) /\ Len(t) <= n /\ Len(t) \in 0 .. L
        /\ \A i \in 1 .. Len(t) : L - Len(t) + i \in 1 .. L /\ t[i] = s[L - Len(t) + i]
    BY <2>6, <2>7, <2>8
  <2> QED
    BY <1>0, <2>9 DEF t
<1>2. CASE L <= n
  <2>1. Newest(s, n) = s
    BY <1>0, <1>2 DEF Newest
  <2> QED
    BY <1>0, <1>2, <2>1
<1> QED
  BY <1>1, <1>2

LEMMA NewestNumbered ==
  ASSUME NEW s \in Seq(Entries), Numbered(s), NEW n \in Nat
  PROVE  Newest(s, n) \in Seq(Entries) /\ Numbered(Newest(s, n))
<1> DEFINE t == Newest(s, n)
<1>0. PICK L \in Nat : L = Len(s)
  BY LenProperties
<1>1. /\ t \in Seq(Entries) /\ Len(t) \in 0 .. L
      /\ \A i \in 1 .. Len(t) : L - Len(t) + i \in 1 .. L /\ t[i] = s[L - Len(t) + i]
  BY <1>0, NewestLast
<1>2. PICK K \in Nat : K = Len(t)
  BY <1>1
<1> HIDE DEF t
<1>3. \A i, j \in 1 .. K : i < j => L - K + i < L - K + j
  BY <1>0
<1>4. Increasing(t)
  BY <1>0, <1>1, <1>2, <1>3 DEF Increasing, Numbered
<1>5. \A i \in 1 .. Len(t) : t[i].seq >= 1
  BY <1>0, <1>1, <1>2 DEF Numbered
<1> QED
  BY <1>1, <1>4, <1>5 DEF Numbered, t

LEMMA EntryNumber ==
  ASSUME NEW s \in Seq(Entries), NEW i \in 1 .. Len(s)
  PROVE  s[i] \in Entries /\ s[i].seq \in Nat
<1>1. s[i] \in Entries
  BY ElementOfSeq
<1> QED
  BY <1>1 DEF Entries

LEMMA EmptySound == LogSound(EmptyLog) /\ CompactSound(Compact(EmptyLog))
<1>1. EmptyLog.entries = <<>> /\ EmptyLog.seq = 0 /\ EmptyLog.limit = DefaultLimit
  BY DEF EmptyLog
<1>2. DefaultLimit \in Nat /\ DefaultLimit >= 1
  BY LogAssumption
<1>3. EmptyLog \in Logs
  BY <1>2 DEF EmptyLog, Logs
<1>4. Compact(EmptyLog) \in Compacts /\ Compact(EmptyLog).entries = <<>>
  BY <1>1, <1>2 DEF Compact, Compacts
<1> QED
  BY <1>1, <1>2, <1>3, <1>4 DEF LogSound, CompactSound, Numbered, Bounded, InOrder, Increasing

\* What is persisted of a sound log is sound.
LEMMA CompactOfSound ==
  ASSUME NEW b, LogSound(b)
  PROVE  CompactSound(Compact(b))
<1>1. b.limit \in Nat /\ b.entries \in Seq(Entries) /\ b.seq \in Nat
  BY DEF LogSound, Logs
<1>2. Compact(b) \in Compacts /\ Compact(b).entries = b.entries
  BY <1>1 DEF Compact, Compacts
<1> QED
  BY <1>1, <1>2 DEF LogSound, CompactSound, InOrder, Numbered

LEMMA TwoReplaced ==
  ASSUME NEW A, NEW B, NEW C, NEW b \in [seq : A, limit : B, entries : C], NEW u, NEW v,
         NEW c, c = [b EXCEPT !.seq = u, !.entries = v],
         NEW d, d = [b EXCEPT !.limit = u, !.entries = v]
  PROVE  /\ c = [seq |-> u, limit |-> b.limit, entries |-> v]
         /\ d = [seq |-> b.seq, limit |-> u, entries |-> v]
<1>1. /\ c = [seq |-> c.seq, limit |-> c.limit, entries |-> c.entries]
      /\ c.seq = u /\ c.limit = b.limit /\ c.entries = v
  OBVIOUS
<1>2. /\ d = [seq |-> d.seq, limit |-> d.limit, entries |-> d.entries]
      /\ d.seq = b.seq /\ d.limit = u /\ d.entries = v
  OBVIOUS
<1>3. c = [seq |-> u, limit |-> b.limit, entries |-> v]
  BY ONLY <1>1
<1>4. d = [seq |-> b.seq, limit |-> u, entries |-> v]
  BY ONLY <1>2
<1> QED
  BY <1>3, <1>4

LEMMA LogFields ==
  ASSUME NEW b \in Logs, NEW u, NEW v
  PROVE  /\ [b EXCEPT !.seq = u, !.entries = v] = [seq |-> u, limit |-> b.limit, entries |-> v]
         /\ [b EXCEPT !.limit = u, !.entries = v] = [seq |-> b.seq, limit |-> u, entries |-> v]
<1>1. PICK c : c = [b EXCEPT !.seq = u, !.entries = v]
  OBVIOUS
<1>2. PICK d : d = [b EXCEPT !.limit = u, !.entries = v]
  OBVIOUS
<1>3. b \in [seq : Nat, limit : Nat, entries : Seq(Entries)]
  BY DEF Logs
<1>4. /\ c = [seq |-> u, limit |-> b.limit, entries |-> v]
      /\ d = [seq |-> b.seq, limit |-> u, entries |-> v]
  BY ONLY <1>1, <1>2, <1>3, TwoReplaced
<1> QED
  BY ONLY <1>1, <1>2, <1>4

LEMMA RecordedSound ==
  ASSUME NEW b, LogSound(b)
  PROVE  LogSound(Recorded(b)) /\ Recorded(b).seq = b.seq + 1
<1>0. /\ b = [seq |-> b.seq, limit |-> b.limit, entries |-> b.entries]
      /\ b.seq \in Nat /\ b.limit \in Nat /\ b.entries \in Seq(Entries)
  BY DEF LogSound, Logs
<1> DEFINE s == b.entries
           e == [seq |-> b.seq + 1]
           g == Append(s, e)
           t == IF Len(g) > b.limit THEN Tail(g) ELSE g
           r == Recorded(b)
<1>1. r = [seq |-> b.seq + 1, limit |-> b.limit, entries |-> t]
  <2>1. r = [b EXCEPT !.seq = b.seq + 1, !.entries = t]
    BY DEF Recorded
  <2> HIDE DEF t, r
  <2> QED
    BY <2>1, LogFields DEF LogSound
<1>2. e \in Entries /\ e.seq = b.seq + 1
  BY <1>0 DEF Entries
<1>3. PICK L \in Nat : L = Len(s)
  BY <1>0, LenProperties
<1>4. /\ g \in Seq(Entries) /\ Len(g) = L + 1 /\ g[L + 1] = e
      /\ \A i \in 1 .. L : g[i] = s[i]
  <2> HIDE DEF s, e
  <2> QED
    BY <1>0, <1>2, <1>3 DEF s
<1>5. /\ \A i, j \in 1 .. L : i < j => s[i].seq < s[j].seq
      /\ \A i \in 1 .. L : s[i].seq \in 1 .. b.seq
      /\ L <= b.limit /\ b.limit >= 1
  BY <1>3 DEF LogSound, InOrder, Increasing, Bounded
<1> HIDE DEF s, e, g
<1>6. \A i, j \in 1 .. L + 1 : i < j => g[i].seq < g[j].seq
  <2> SUFFICES ASSUME NEW i \in 1 .. L + 1, NEW j \in 1 .. L + 1, i < j PROVE g[i].seq < g[j].seq
    OBVIOUS
  <2>1. i \in 1 .. L /\ g[i] = s[i] /\ s[i].seq \in 1 .. b.seq
    BY <1>4, <1>5
  <2>2. CASE j = L + 1
    BY <1>0, <1>2, <1>4, <2>1, <2>2
  <2>3. CASE j # L + 1
    <3>1. j \in 1 .. L
      BY <2>3
    <3> QED
      BY <1>4, <1>5, <2>1, <3>1
  <2> QED
    BY <2>2, <2>3
<1>7. \A i \in 1 .. L + 1 : g[i].seq \in 1 .. b.seq + 1
  <2> TAKE i \in 1 .. L + 1
  <2>1. CASE i = L + 1
    BY <1>0, <1>2, <1>4, <2>1
  <2>2. CASE i # L + 1
    <3>1. i \in 1 .. L
      BY <2>2
    <3>2. g[i].seq \in 1 .. b.seq
      BY <1>4, <1>5, <3>1
    <3> QED
      BY <1>0, <3>2
  <2> QED
    BY <2>1, <2>2
<1>8. /\ t \in Seq(Entries) /\ Len(t) \in Nat /\ Len(t) <= b.limit
      /\ \A i, j \in 1 .. Len(t) : i < j => t[i].seq < t[j].seq
      /\ \A i \in 1 .. Len(t) : t[i].seq \in 1 .. b.seq + 1
  <2>1. CASE Len(g) > b.limit
    <3>1. g # <<>>
      BY <1>3, <1>4
    <3>2. /\ Tail(g) \in Seq(Entries) /\ Len(Tail(g)) = L
          /\ \A i \in 1 .. L : Tail(g)[i] = g[i + 1]
      <4>1. /\ Tail(g) \in Seq(Entries) /\ Len(Tail(g)) = Len(g) - 1
            /\ \A i \in 1 .. Len(Tail(g)) : Tail(g)[i] = g[i + 1]
        BY <1>4, <3>1, HeadTailProperties
      <4> QED
        BY <1>3, <1>4, <4>1
    <3>3. t = Tail(g)
      BY <2>1
    <3> HIDE DEF t
    <3>4. t \in Seq(Entries) /\ Len(t) = L /\ L \in Nat /\ L <= b.limit
      BY <1>3, <1>5, <3>2, <3>3
    <3>5. \A i \in 1 .. L : t[i] = g[i + 1] /\ i + 1 \in 1 .. L + 1
      BY <1>3, <3>2, <3>3
    <3>6. \A i, j \in 1 .. L : i < j => t[i].seq < t[j].seq
      BY <1>3, <1>6, <3>5
    <3>7. \A i \in 1 .. L : t[i].seq \in 1 .. b.seq + 1
      BY <1>3, <1>7, <3>5
    <3> QED
      BY <3>4, <3>6, <3>7
  <2>2. CASE ~ (Len(g) > b.limit)
    <3>1. t = g
      BY <2>2
    <3> HIDE DEF t
    <3> QED
      BY <1>0, <1>3, <1>4, <1>6, <1>7, <2>2, <3>1
  <2> QED
    BY <2>1, <2>2
<1> HIDE DEF t, r
<1>9. r \in Logs
  BY <1>0, <1>1, <1>8 DEF Logs
<1>10. Bounded(r) /\ InOrder(r) /\ r.limit >= 1 /\ r.seq = b.seq + 1
  BY <1>1, <1>5, <1>8 DEF Bounded, InOrder, Increasing
<1> QED
  BY <1>9, <1>10 DEF LogSound, r

LEMMA RecordedBatchSound ==
  ASSUME NEW b, LogSound(b), NEW lines \in Nat
  PROVE  LogSound(RecordedBatch(b, lines))
<1> DEFINE V == {c \in Logs : LogSound(c)}
           Rec(g) == g = [n \in 0 .. lines |->
                            IF n = 0 THEN Recorded(b) ELSE Recorded(g[n - 1])]
           f == CHOOSE g : Rec(g)
           F == [n \in 1 .. lines |-> [c \in V |-> Recorded(c)]]
           c0 == Recorded(b)
<1>1. RecordedBatch(b, lines) = f[lines]
  BY DEF RecordedBatch
<1>2. \A c \in V : Recorded(c) \in V
  BY RecordedSound DEF LogSound
<1>3. c0 \in V
  BY RecordedSound DEF LogSound
<1>4. F \in [1 .. lines -> [V -> V]]
  BY <1>2
<1> HIDE DEF V
<1>5. PICK g : Unrolls(g, V, lines, c0, F)
  <2> HIDE DEF F, c0
  <2> QED
    BY <1>3, <1>4, RecursionExists
<1>6. g \in [0 .. lines -> V] /\ g[0] = c0
  BY <1>5 DEF Unrolls
<1>7. ASSUME NEW n \in 1 .. lines
      PROVE  g[n] = Recorded(g[n - 1])
  <2>1. g[n] = F[n][g[n - 1]]
    BY <1>5 DEF Unrolls
  <2>2. g[n - 1] \in V
    BY <1>6
  <2> QED
    BY <2>1, <2>2
<1>8. Rec(g)
  <2>1. ASSUME NEW n \in 0 .. lines
        PROVE  g[n] = IF n = 0 THEN Recorded(b) ELSE Recorded(g[n - 1])
    <3>1. CASE n = 0
      BY <1>6, <3>1
    <3>2. CASE n # 0
      <4>1. n \in 1 .. lines
        BY <3>2
      <4> QED
        BY <1>7, <3>2, <4>1
    <3> QED
      BY <3>1, <3>2
  <2> QED
    BY <1>6, <2>1
<1>9. Rec(f)
  BY <1>8
<1> HIDE DEF f
<1>10. f[0] = c0 /\ \A n \in 1 .. lines : f[n] = Recorded(f[n - 1])
  <2>1. f[0] = c0
    BY <1>9
  <2>2. ASSUME NEW n \in 1 .. lines PROVE f[n] = Recorded(f[n - 1])
    <3>1. n \in 0 .. lines /\ n # 0
      OBVIOUS
    <3> QED
      BY <1>9, <3>1
  <2> QED
    BY <2>1, <2>2
<1> DEFINE P == {n \in 0 .. lines : f[n] \in V}
<1>11. 0 \in P
  BY <1>3, <1>10
<1>12. ASSUME NEW n \in 0 .. lines - 1, n \in P
       PROVE  n + 1 \in P
  <2>1. n + 1 \in 1 .. lines /\ (n + 1) - 1 = n
    OBVIOUS
  <2>2. f[n + 1] = Recorded(f[n])
    BY <1>10, <2>1
  <2> QED
    BY <1>2, <1>12, <2>1, <2>2
<1>13. lines \in P
  <2> HIDE DEF P
  <2>1. \A n \in 0 .. lines : n \in P
    BY <1>11, <1>12, Induction
  <2> QED
    BY <2>1
<1> QED
  BY <1>1, <1>13 DEF V

LEMMA LimitedSound ==
  ASSUME NEW b, LogSound(b), NEW n \in Int
  PROVE  LogSound(Limited(b, n)) /\ Limited(b, n).seq = b.seq
<1>0. /\ b = [seq |-> b.seq, limit |-> b.limit, entries |-> b.entries]
      /\ b.seq \in Nat /\ b.limit \in Nat /\ b.entries \in Seq(Entries)
  BY DEF LogSound, Logs
<1> DEFINE k == ClampLimit(n)  t == Newest(b.entries, k)  r == Limited(b, n)
<1>1. k \in Nat /\ k >= 1
  BY Clamped
<1>2. r = [seq |-> b.seq, limit |-> k, entries |-> t]
  <2>1. r = [b EXCEPT !.limit = k, !.entries = t]
    BY DEF Limited
  <2> HIDE DEF k, t, r
  <2> QED
    BY <2>1, LogFields DEF LogSound
<1>3. PICK s \in Seq(Entries) : s = b.entries
  BY <1>0
<1> HIDE DEF k
<1>4. /\ t \in Seq(Entries) /\ Len(t) <= k
      /\ \A i \in 1 .. Len(t) : Len(s) - Len(t) + i \in 1 .. Len(s) /\ t[i] = s[Len(s) - Len(t) + i]
  BY <1>1, <1>3, NewestLast
<1>5. Numbered(s)
  BY <1>0, <1>3 DEF LogSound, InOrder, Numbered
<1>6. Increasing(t)
  BY <1>1, <1>3, <1>5, NewestNumbered DEF Numbered
<1>7. \A i \in 1 .. Len(s) : s[i].seq \in 1 .. b.seq
  BY <1>3 DEF LogSound, InOrder
<1> HIDE DEF t, r
<1>8. \A i \in 1 .. Len(t) : t[i].seq \in 1 .. b.seq
  BY <1>4, <1>7
<1>9. r \in Logs
  BY <1>0, <1>1, <1>2, <1>4 DEF Logs
<1>10. Bounded(r) /\ InOrder(r) /\ r.limit >= 1 /\ r.seq = b.seq
  BY <1>1, <1>2, <1>4, <1>6, <1>8 DEF Bounded, InOrder
<1> QED
  BY <1>9, <1>10 DEF LogSound, r

\* The last of what is restored has the highest number.
LEMMA LastHighest ==
  ASSUME NEW s \in Seq(Entries), Numbered(s), NEW i \in 1 .. Len(s)
  PROVE  s[i].seq <= Tail0(s) /\ s # <<>>
<1>0. PICK L \in Nat : L = Len(s)
  BY LenProperties
<1>1. s # <<>> /\ L >= 1 /\ L \in 1 .. L
  BY <1>0
<1>2. Tail0(s) = s[L].seq
  BY <1>0, <1>1 DEF Tail0
<1>3. s[i].seq \in Nat
  BY EntryNumber
<1>4. CASE i = L
  BY <1>1, <1>2, <1>3, <1>4
<1>5. CASE i # L
  <2>1. i < L
    BY <1>0, <1>5
  <2>2. s[i].seq < s[L].seq
    BY <1>0, <1>1, <2>1 DEF Numbered, Increasing
  <2>3. s[L].seq \in Nat
    BY <1>0, <1>1, EntryNumber
  <2> QED
    BY <1>1, <1>2, <1>3, <2>2, <2>3
<1> QED
  BY <1>4, <1>5

\* What is kept beside it is newer, and in order.
LEMMA KeptNumbered ==
  ASSUME NEW u \in Seq(Entries), Numbered(u), NEW s \in Seq(Entries), Numbered(s)
  PROVE  /\ KeptBeside(u, s) \in Seq(Entries) /\ Numbered(KeptBeside(u, s))
         /\ \A i \in 1 .. Len(KeptBeside(u, s)) : KeptBeside(u, s)[i].seq > Tail0(u)
<1> DEFINE S == {e \in Range(s) : e.seq > Tail0(u)}
           t == KeptBeside(u, s)
<1>0. PICK L \in Nat : L = Len(s)
  BY LenProperties
<1>1. t = Selected(s, S)
  BY DEF KeptBeside
<1>2. S \subseteq Entries
  <2>1. \A e \in Range(s) : e \in Entries
    BY ElementOfSeq, LenProperties DEF Range
  <2> QED
    BY <2>1
<1> HIDE DEF S
<1>3. PICK h : Embeds(h, t, s, L, S)
  <2>1. Len(s) \in Nat
    BY <1>0
  <2>2. \E h : Embeds(h, Selected(s, S), s, Len(s), S)
    BY <2>1, SelectedEmbeds
  <2> QED
    BY <1>0, <1>1, <2>2
<1>4. t \in Seq(S)
  BY <1>0, <1>1, SelectedType
<1>5. t \in Seq(Entries)
  BY <1>2, <1>4, SeqMonotonic
<1>6. PICK K \in Nat : K = Len(t)
  BY <1>5, LenProperties
<1>7. /\ \A i \in 1 .. K : h[i] \in 1 .. L /\ t[i] = s[h[i]] /\ t[i] \in S
      /\ \A i, j \in 1 .. K : i < j => h[i] < h[j]
  BY <1>3, <1>6 DEF Embeds
<1> HIDE DEF t
<1>8. Increasing(t)
  BY <1>0, <1>6, <1>7 DEF Numbered, Increasing
<1>9. \A i \in 1 .. Len(t) : t[i].seq >= 1
  BY <1>0, <1>6, <1>7 DEF Numbered
<1>10. \A i \in 1 .. Len(t) : t[i].seq > Tail0(u)
  BY <1>6, <1>7 DEF S
<1> QED
  BY <1>5, <1>8, <1>9, <1>10 DEF Numbered, t

\* Two runs of numbers, the second above the first, are one.
LEMMA JoinedNumbered ==
  ASSUME NEW u \in Seq(Entries), Numbered(u), NEW t \in Seq(Entries), Numbered(t),
         \A i \in 1 .. Len(t) : t[i].seq > Tail0(u)
  PROVE  u \o t \in Seq(Entries) /\ Numbered(u \o t)
<1> DEFINE m == u \o t
<1>0. PICK A \in Nat, B \in Nat : A = Len(u) /\ B = Len(t)
  BY LenProperties
<1>1. /\ m \in Seq(Entries) /\ Len(m) = A + B
      /\ \A i \in 1 .. A + B : m[i] = IF i <= A THEN u[i] ELSE t[i - A]
  BY <1>0, ConcatProperties
<1> HIDE DEF m
<1>2. \A i, j \in 1 .. A : i < j => u[i].seq < u[j].seq
  BY <1>0 DEF Numbered, Increasing
<1>3. \A i, j \in 1 .. B : i < j => t[i].seq < t[j].seq
  BY <1>0 DEF Numbered, Increasing
<1>4. \A i \in 1 .. A, j \in 1 .. B : u[i].seq < t[j].seq
  <2> TAKE i \in 1 .. A, j \in 1 .. B
  <2>1. u[i].seq <= Tail0(u) /\ u # <<>>
    BY <1>0, LastHighest
  <2>2. u[i].seq \in Nat /\ t[j].seq \in Nat /\ t[j].seq > Tail0(u)
    BY <1>0, EntryNumber
  <2>3. Tail0(u) \in Nat
    <3>1. Tail0(u) = u[A].seq /\ A \in 1 .. Len(u)
      BY <1>0, <2>1 DEF Tail0
    <3> QED
      BY <3>1, EntryNumber
  <2> QED
    BY <2>1, <2>2, <2>3
<1>5. ASSUME NEW i \in 1 .. A + B, NEW j \in 1 .. A + B, i < j
      PROVE  m[i].seq < m[j].seq
  <2>1. CASE j <= A
    <3>1. i \in 1 .. A /\ j \in 1 .. A
      BY <1>5, <2>1
    <3> QED
      BY <1>1, <1>2, <1>5, <3>1
  <2>2. CASE i <= A /\ j > A
    <3>1. i \in 1 .. A /\ j - A \in 1 .. B
      BY <2>2
    <3>2. m[i] = u[i] /\ m[j] = t[j - A]
      BY <1>1, <2>2
    <3> QED
      BY <1>4, <3>1, <3>2
  <2>3. CASE i > A
    <3>1. i - A \in 1 .. B /\ j - A \in 1 .. B /\ i - A < j - A
      BY <1>5, <2>3
    <3>2. m[i] = t[i - A] /\ m[j] = t[j - A]
      BY <1>1, <1>5, <2>3
    <3> QED
      BY <1>3, <3>1, <3>2
  <2> QED
    BY <1>5, <2>1, <2>2, <2>3
<1>6. ASSUME NEW i \in 1 .. A + B
      PROVE  m[i].seq >= 1
  <2>1. CASE i <= A
    BY <1>0, <1>1, <2>1 DEF Numbered
  <2>2. CASE i > A
    <3>1. i - A \in 1 .. B /\ m[i] = t[i - A]
      BY <1>1, <2>2
    <3> QED
      BY <1>0, <3>1 DEF Numbered
  <2> QED
    BY <2>1, <2>2
<1> QED
  BY <1>1, <1>5, <1>6 DEF Numbered, Increasing, m

LEMMA RestoredSound ==
  ASSUME NEW b, LogSound(b), NEW c, CompactSound(c)
  PROVE  LogSound(Restored(b, c))
<1>0. /\ b.seq \in Nat /\ b.entries \in Seq(Entries) /\ Numbered(b.entries)
      /\ c.limit \in Nat /\ c.entries \in Seq(Entries) /\ Numbered(c.entries)
  BY DEF LogSound, CompactSound, Logs, Compacts, InOrder, Numbered
<1> DEFINE k == ClampLimit(c.limit)
           u == Newest(c.entries, k)
           m == u \o KeptBeside(u, b.entries)
           q == HighestSeq(b, m)
           t == Newest(m, k)
           r == Restored(b, c)
<1>1. r = [seq |-> q, limit |-> k, entries |-> t]
  BY DEF Restored
<1>2. k \in Nat /\ k >= 1
  <2>1. c.limit \in Int
    BY <1>0
  <2> QED
    BY <2>1, Clamped
<1> HIDE DEF k, r
<1>3. u \in Seq(Entries) /\ Numbered(u)
  BY <1>0, <1>2, NewestNumbered
<1> HIDE DEF u
<1>4. m \in Seq(Entries) /\ Numbered(m)
  BY <1>0, <1>3, KeptNumbered, JoinedNumbered
<1> HIDE DEF m
<1>5. q \in Nat /\ \A i \in 1 .. Len(m) : m[i].seq <= q
  <2>1. CASE m = <<>>
    <3>1. q = b.seq
      BY <2>1 DEF HighestSeq
    <3>2. Len(m) = 0
      BY <2>1
    <3> QED
      BY <1>0, <3>1, <3>2
  <2>2. CASE m # <<>>
    <3>1. PICK L \in Nat : L = Len(m) /\ L \in 1 .. Len(m)
      BY <1>4, <2>2, EmptySeq
    <3>2. Tail0(m) = m[L].seq /\ m[L].seq \in Nat
      BY <1>4, <2>2, <3>1, EntryNumber DEF Tail0
    <3>3. \A i \in 1 .. Len(m) : m[i].seq <= m[L].seq /\ m[i].seq \in Nat
      BY <1>4, <3>2, LastHighest, EntryNumber
    <3>4. q = IF m[L].seq <= b.seq THEN b.seq ELSE m[L].seq
      BY <2>2, <3>1 DEF HighestSeq
    <3> HIDE DEF q
    <3> QED
      BY <1>0, <3>2, <3>3, <3>4
  <2> QED
    BY <2>1, <2>2
<1> HIDE DEF q
<1>6. /\ t \in Seq(Entries) /\ Len(t) <= k
      /\ \A i \in 1 .. Len(t) : Len(m) - Len(t) + i \in 1 .. Len(m) /\ t[i] = m[Len(m) - Len(t) + i]
  BY <1>2, <1>4, NewestLast
<1>7. Numbered(t)
  BY <1>2, <1>4, NewestNumbered
<1> HIDE DEF t
<1>8. \A i \in 1 .. Len(t) : t[i].seq \in 1 .. q
  <2> TAKE i \in 1 .. Len(t)
  <2>1. t[i].seq >= 1 /\ t[i].seq \in Nat
    BY <1>6, <1>7, EntryNumber DEF Numbered
  <2>2. t[i].seq <= q
    BY <1>5, <1>6
  <2> QED
    BY <1>5, <2>1, <2>2
<1>9. r \in Logs
  BY <1>1, <1>2, <1>5, <1>6 DEF Logs
<1>10. Bounded(r) /\ InOrder(r) /\ r.limit >= 1
  BY <1>1, <1>2, <1>6, <1>7, <1>8 DEF Bounded, InOrder, Numbered
<1> QED
  BY <1>9, <1>10 DEF LogSound, r

-----------------------------------------------------------------------------
(* The types, and the log of communications.                               *)

\* What configure, tracking and shutting down make of a relay is one.
LEMMA ClosedTyped ==
  ASSUME NEW e \in RelayEntries
  PROVE  Closed(e) \in RelayEntries
<1> DEFINE p == IF e.poller = "running" THEN "stopped" ELSE e.poller
<1>1. Closed(e) = [e EXCEPT !.sink = "disposed", !.poller = p]
  BY DEF Closed
<1>2. p \in Pollers
  BY DEF RelayEntries, Pollers
<1> HIDE DEF p
<1> QED
  BY <1>1, <1>2 DEF RelayEntries, Sinks

LEMMA DisposedTyped ==
  ASSUME NEW s \in Seq(RelayEntries), NEW i \in Nat
  PROVE  Disposed(s, i) \in Seq(RelayEntries) /\ Len(Disposed(s, i)) = Len(s)
<1>1. CASE i = 0
  BY <1>1 DEF Disposed
<1>2. CASE i \in 1 .. Len(s)
  <2>1. Closed(s[i]) \in RelayEntries
    BY <1>2, ElementOfSeq, ClosedTyped
  <2>2. Disposed(s, i) = [s EXCEPT ![i] = Closed(s[i])]
    BY <1>2 DEF Disposed
  <2> QED
    BY <1>2, <2>1, <2>2, ExceptSeq
<1>3. CASE i # 0 /\ i \notin 1 .. Len(s)
  <2>1. DOMAIN s = 1 .. Len(s)
    BY LenProperties
  <2>2. [s EXCEPT ![i] = Closed(s[i])] = s
    BY <1>3, <2>1
  <2>3. Disposed(s, i) = [s EXCEPT ![i] = Closed(s[i])]
    BY <1>3 DEF Disposed
  <2> QED
    BY <2>2, <2>3
<1> QED
  BY <1>1, <1>2, <1>3

LEMMA RelayFields ==
  ASSUME NEW r \in Relays
  PROVE  /\ r = [entries |-> r.entries, current |-> r.current]
         /\ r.entries \in Seq(RelayEntries) /\ Len(r.entries) \in Nat
         /\ r.current \in Nat /\ r.current <= Len(r.entries)
<1>1. r \in [entries : Seq(RelayEntries), current : Nat] /\ r.current <= Len(r.entries)
  BY DEF Relays
<1>2. r.entries \in Seq(RelayEntries)
  BY <1>1
<1> QED
  BY <1>1, <1>2, LenProperties

LEMMA RelayMade ==
  ASSUME NEW s \in Seq(RelayEntries), NEW k \in Nat, k <= Len(s)
  PROVE  [entries |-> s, current |-> k] \in Relays
  BY DEF Relays

LEMMA SwitchedOffTyped ==
  ASSUME NEW r \in Relays, NEW i \in Nat
  PROVE  SwitchedOff(r, i) \in Relays
<1> DEFINE d == Disposed(r.entries, i)
<1>1. d \in Seq(RelayEntries) /\ Len(d) \in Nat
  BY RelayFields, DisposedTyped
<1>2. SwitchedOff(r, i) = [entries |-> d, current |-> 0]
  BY DEF SwitchedOff
<1> HIDE DEF d
<1>3. 0 \in Nat /\ 0 <= Len(d)
  BY <1>1
<1> QED
  BY <1>1, <1>2, <1>3, RelayMade

LEMMA InstalledTyped ==
  ASSUME NEW r \in Relays, NEW call, NEW api \in Resolved,
         call.raw \in RawConfigs, call.token \in Resolved, call.saw \in Nat
  PROVE  Installed(r, call, api) \in Relays
<1> DEFINE d == Disposed(r.entries, call.saw)
           e == NewEntry(call.raw, call.token, api)
           k == Len(r.entries) + 1
<1>1. d \in Seq(RelayEntries) /\ Len(d) = Len(r.entries) /\ Len(d) \in Nat
  BY RelayFields, DisposedTyped
<1>2. e \in RelayEntries
  BY DEF NewEntry, RelayEntries, Sinks, Pollers
<1>3. Installed(r, call, api) = r
      \/ Installed(r, call, api) = [entries |-> Append(d, e), current |-> k]
  BY DEF Installed
<1> HIDE DEF d, e
<1>4. Append(d, e) \in Seq(RelayEntries) /\ Len(Append(d, e)) = Len(d) + 1
  BY <1>1, <1>2, AppendProperties
<1>5. k \in Nat /\ k <= Len(Append(d, e))
  BY <1>1, <1>4
<1> HIDE DEF k
<1>6. [entries |-> Append(d, e), current |-> k] \in Relays
  BY <1>4, <1>5, RelayMade
<1> QED
  BY <1>3, <1>6

LEMMA TrackedTyped ==
  ASSUME NEW r \in Relays, r.current # 0, NEW runsOf \in SUBSET Runs
  PROVE  [r EXCEPT !.entries[r.current].tracked = runsOf] \in Relays
<1> DEFINE k == r.current
           e == [r.entries[k] EXCEPT !.tracked = runsOf]
           s == [r.entries EXCEPT ![k] = e]
           n == [r EXCEPT !.entries[k].tracked = runsOf]
<1>1. r.entries \in Seq(RelayEntries) /\ k \in 1 .. Len(r.entries)
  BY RelayFields
<1>2. e \in RelayEntries
  <2>1. r.entries[k] \in RelayEntries
    BY <1>1, ElementOfSeq
  <2> QED
    BY <2>1 DEF RelayEntries
<1>3. n = [entries |-> s, current |-> k]
  <2>1. r = [entries |-> r.entries, current |-> r.current]
    BY RelayFields
  <2> QED
    BY <2>1
<1> HIDE DEF e
<1>4. s \in Seq(RelayEntries) /\ Len(s) = Len(r.entries)
  BY <1>1, <1>2, ExceptSeq
<1> HIDE DEF s, n
<1>5. n \in Relays
  BY <1>1, <1>3, <1>4, RelayFields, RelayMade
<1> QED
  BY <1>5 DEF n

LEMMA TrackingTyped ==
  ASSUME NEW r \in Relays, NEW active \in SUBSET Runs
  PROVE  Tracking(r, active) \in Relays
<1>1. CASE r.current = 0 \/ r.entries[r.current].poller = "none"
  BY <1>1 DEF Tracking
<1>2. CASE ~ (r.current = 0 \/ r.entries[r.current].poller = "none")
  <2> DEFINE runsOf == r.entries[r.current].tracked \cup active
  <2>1. Tracking(r, active) = [r EXCEPT !.entries[r.current].tracked = runsOf]
    BY <1>2 DEF Tracking
  <2>2. runsOf \in SUBSET Runs
    <3>1. r.entries[r.current] \in RelayEntries
      BY <1>2, RelayFields, ElementOfSeq
    <3> QED
      BY <3>1 DEF RelayEntries
  <2> HIDE DEF runsOf
  <2> QED
    BY <1>2, <2>1, <2>2, TrackedTyped
<1> QED
  BY <1>1, <1>2

LEMMA UntrackingTyped ==
  ASSUME NEW r \in Relays, NEW run
  PROVE  Untracking(r, run) \in Relays
<1>1. CASE r.current = 0
  BY <1>1 DEF Untracking
<1>2. CASE r.current # 0
  <2> DEFINE runsOf == r.entries[r.current].tracked \ {run}
  <2>1. Untracking(r, run) = [r EXCEPT !.entries[r.current].tracked = runsOf]
    BY <1>2 DEF Untracking
  <2>2. runsOf \in SUBSET Runs
    <3>1. r.entries[r.current] \in RelayEntries
      BY <1>2, RelayFields, ElementOfSeq
    <3> QED
      BY <3>1 DEF RelayEntries
  <2> HIDE DEF runsOf
  <2> QED
    BY <1>2, <2>1, <2>2, TrackedTyped
<1> QED
  BY <1>1, <1>2

LEMMA HandledTyped ==
  ASSUME NEW r \in Relays, NEW event \in RunEvents \cup {NoEvent}
  PROVE  Handled(r, event) \in Relays
<1>1. event.kind = "started" => {event.run} \in SUBSET Runs
  BY DEF RunEvents, NoEvent
<1>2. \/ event.kind = "started" /\ Handled(r, event) = Tracking(r, {event.run})
      \/ Handled(r, event) = Untracking(r, event.run)
      \/ Handled(r, event) = r
  BY DEF Handled
<1> QED
  BY <1>1, <1>2, TrackingTyped, UntrackingTyped

LEMMA SentSound ==
  ASSUME NEW r, NEW b, LogSound(b)
  PROVE  /\ \A c \in Sent(r, b) : LogSound(c)
         /\ \A c \in SentTwice(r, b) : LogSound(c)
<1>1. ASSUME NEW d, LogSound(d), NEW c \in Sent(r, d)
      PROVE  LogSound(c)
  <2>1. c = d \/ \E lines \in 0 .. 1 : c = RecordedBatch(d, lines)
    BY <1>1 DEF Sent
  <2> QED
    BY <1>1, <2>1, RecordedBatchSound
<1>2. ASSUME NEW c \in SentTwice(r, b)
      PROVE  LogSound(c)
  <2>1. PICK d \in Sent(r, b) : c \in Sent(r, d)
    BY <1>2 DEF SentTwice
  <2> QED
    BY <1>1, <2>1
<1> QED
  BY <1>1, <1>2

-----------------------------------------------------------------------------
(* Tasks.                                                                   *)

TaskTyped(c) == c \in TaskRecords /\ CompactSound(c.log)

TasksTyped(ts) == ts \in [TaskIds -> TaskRecords] /\ \A t \in TaskIds : CompactSound(ts[t].log)

LEMMA NoCompactSound == CompactSound(NoCompact)
<1>1. NoCompact.entries = <<>> /\ NoCompact \in Compacts
  BY DEF NoCompact, Compacts
<1> QED
  BY <1>1 DEF CompactSound, Numbered, Increasing

LEMMA IdleTyped == TaskTyped(Idle)
<1> DEFINE raw0 == CHOOSE raw \in Configs : TRUE
<1>1. raw0 \in Configs
  BY LifecycleBounds
<1> HIDE DEF raw0
<1>2. NoCompact \in Compacts
  BY NoCompactSound DEF CompactSound
<1>3. Idle \in TaskRecords /\ Idle.log = NoCompact
  BY <1>1, <1>2 DEF Idle, TaskRecords, Stages, Causes, Resolved, raw0
<1> QED
  BY <1>3, NoCompactSound DEF TaskTyped

LEMMA IdleMoved ==
  ASSUME NEW at \in Stages, NEW rt \in Nat
  PROVE  TaskTyped([Idle EXCEPT !.at = at]) /\ TaskTyped([Idle EXCEPT !.at = at, !.rt = rt])
  BY IdleTyped DEF TaskTyped, TaskRecords

LEMMA SetupTyped ==
  ASSUME NEW why \in Causes, NEW event \in RunEvents \cup {NoEvent}
  PROVE  TaskTyped(SetupFor(why, event))
  BY IdleTyped DEF TaskTyped, TaskRecords, SetupFor, Stages

LEMMA OneTask ==
  ASSUME NEW ts, TasksTyped(ts), NEW t \in TaskIds, NEW c, TaskTyped(c)
  PROVE  TasksTyped([ts EXCEPT ![t] = c])
  BY DEF TasksTyped, TaskTyped

-----------------------------------------------------------------------------
Ambient ==
  /\ worker \in {"boot", "up", "down"}
  /\ left \in [changes : 0 .. MaxChanges, faults : 0 .. MaxFaults]
  /\ saved \in Configs
  /\ runs \in [Runs -> RunStates]
  /\ inbox \in Seq(RunEvents)
  /\ ticks \in 0 .. ResyncEvery - 1
  /\ overlapped \in BOOLEAN

Held ==
  /\ runtimes \in Seq([filled : BOOLEAN])
  /\ present \in 0 .. Len(runtimes)

Logged == LogSound(comms) /\ CompactSound(disk)

Typed == Ambient /\ Held /\ Logged /\ relay \in Relays /\ TasksTyped(tasks)

\* What a step that ends, or goes on with, a task leaves behind.
Goes == /\ relay' \in Relays /\ LogSound(comms') /\ TasksTyped(tasks')
        /\ worker' \in {"boot", "up", "down"}

LEMMA TaskFields ==
  ASSUME Typed, NEW t \in TaskIds
  PROVE  /\ tasks[t] \in TaskRecords /\ TaskTyped(tasks[t]) /\ CompactSound(tasks[t].log)
         /\ tasks[t].event \in RunEvents \cup {NoEvent}
         /\ tasks[t].seen \in SUBSET Runs
         /\ tasks[t].saw \in Nat /\ tasks[t].token \in Resolved /\ tasks[t].rt \in Nat
         /\ tasks[t].raw \in Configs /\ tasks[t].raw \in RawConfigs
         /\ tasks[t].raw.limit \in Int
<1>1. tasks[t] \in TaskRecords /\ CompactSound(tasks[t].log)
  BY DEF Typed, TasksTyped
<1>2. /\ tasks[t].event \in RunEvents \cup {NoEvent}
      /\ tasks[t].seen \in SUBSET Runs
      /\ tasks[t].saw \in Nat /\ tasks[t].token \in Resolved /\ tasks[t].rt \in Nat
      /\ tasks[t].raw \in Configs
  BY <1>1 DEF TaskRecords
<1>3. tasks[t].raw \in RawConfigs
  BY <1>2, LifecycleBounds
<1>4. tasks[t].raw.limit \in Int
  BY <1>3 DEF RawConfigs
<1> QED
  BY <1>1, <1>2, <1>3, <1>4 DEF TaskTyped

LEMMA ConfigFields ==
  ASSUME NEW raw \in Configs
  PROVE  raw \in RawConfigs /\ raw.limit \in Int
  BY LifecycleBounds DEF RawConfigs

LEMMA AfterSetupTyped ==
  ASSUME Typed, NEW t \in TaskIds, NEW r \in Relays, NEW b, LogSound(b), AfterSetup(t, r, b)
  PROVE  Goes
<1>1. relay' = r \/ relay' = Handled(r, tasks[t].event)
  BY DEF AfterSetup
<1>2. relay' \in Relays
  BY <1>1, TaskFields, HandledTyped
<1>3. comms' = b \/ comms' \in Sent(r, b)
  BY DEF AfterSetup
<1>4. LogSound(comms')
  BY <1>3, SentSound
<1>5. worker' \in {"boot", "up", "down"}
  BY DEF AfterSetup, Typed, Ambient
<1>6. tasks' = [tasks EXCEPT ![t] = Idle]
  BY DEF AfterSetup
<1>7. TasksTyped(tasks')
  BY <1>6, IdleTyped, OneTask DEF Typed
<1> QED
  BY <1>2, <1>4, <1>5, <1>7 DEF Goes

LEMMA AfterConfigureTyped ==
  ASSUME Typed, NEW t \in TaskIds, NEW r \in Relays, NEW raw \in Configs,
         AfterConfigure(t, r, raw)
  PROVE  Goes
<1> DEFINE limited == Limited(comms, raw.limit)
<1>1. LogSound(limited)
  BY ConfigFields, LimitedSound DEF Typed, Logged
<1>2. CASE t = "change"
  <2> DEFINE resync == [Idle EXCEPT !.at = "resync"]
  <2>1. /\ relay' = r /\ comms' = limited /\ worker' = worker
        /\ tasks' = [tasks EXCEPT ![t] = IF r.current = 0 THEN Idle ELSE resync]
    BY <1>2 DEF AfterConfigure
  <2>2. TaskTyped(Idle) /\ TaskTyped(resync)
    <3>1. "resync" \in Stages /\ 0 \in Nat
      BY DEF Stages
    <3> QED
      BY <3>1, IdleTyped, IdleMoved
  <2> HIDE DEF resync, limited
  <2>3. TasksTyped(tasks')
    <3>1. PICK c : TaskTyped(c) /\ tasks' = [tasks EXCEPT ![t] = c]
      BY <2>1, <2>2
    <3> QED
      BY <3>1, OneTask DEF Typed
  <2> QED
    BY <1>1, <2>1, <2>3 DEF Goes, Typed, Ambient
<1>3. CASE t # "change"
  <2> DEFINE n == Tracking(r, tasks[t].seen)
  <2>1. PICK b \in SentTwice(r, limited) : AfterSetup(t, n, b)
    BY <1>3, Zenon DEF AfterConfigure
  <2>2. n \in Relays
    BY TaskFields, TrackingTyped
  <2> HIDE DEF n, limited
  <2>3. LogSound(b)
    BY <1>1, <2>1, SentSound
  <2> QED
    BY <2>1, <2>2, <2>3, AfterSetupTyped
<1> QED
  BY <1>2, <1>3

LEMMA ConfigureTyped ==
  ASSUME Typed, NEW t \in TaskIds, NEW raw \in Configs, Configure(t, raw)
  PROVE  Goes /\ overlapped' \in BOOLEAN
<1> DEFINE call == [raw |-> raw, saw |-> relay.current, token |-> NoToken]
<1>0. relay.current \in Nat /\ relay \in Relays /\ NoToken \in Resolved
  BY RelayFields DEF Typed, Resolved
<1>1. overlapped' \in BOOLEAN
  BY DEF Configure, Typed, Ambient, Overlaps, Configuring
<1>2. CASE EndsAtOnce(raw)
  <2>1. AfterConfigure(t, SwitchedOff(relay, relay.current), raw)
    BY <1>2 DEF Configure
  <2> QED
    BY <1>0, <1>1, <2>1, SwitchedOffTyped, AfterConfigureTyped
<1>3. CASE ~ EndsAtOnce(raw) /\ FirstAwait(raw) = {}
  <2>1. AfterConfigure(t, Installed(relay, call, NoToken), raw)
    BY <1>3 DEF Configure
  <2>2. call.raw \in RawConfigs /\ call.token \in Resolved /\ call.saw \in Nat
    BY <1>0, ConfigFields
  <2> HIDE DEF call
  <2>3. Installed(relay, call, NoToken) \in Relays
    BY <1>0, <2>2, InstalledTyped
  <2> QED
    BY <1>1, <2>1, <2>3, AfterConfigureTyped
<1>4. CASE ~ EndsAtOnce(raw) /\ FirstAwait(raw) # {}
  <2>1. PICK await \in FirstAwait(raw) :
          tasks' = [tasks EXCEPT ![t].at = await, ![t].raw = raw,
                                 ![t].saw = relay.current, ![t].token = NoToken]
    BY <1>4 DEF Configure
  <2>2. UNCHANGED <<relay, comms, worker>>
    BY <1>4 DEF Configure
  <2>3. await \in Stages
    BY DEF FirstAwait, NextAwait, Stages
  <2>4. PICK k \in Nat : k = relay.current
    BY <1>0
  <2> DEFINE c == [tasks[t] EXCEPT !.at = await, !.raw = raw, !.saw = k, !.token = NoToken]
  <2>5. tasks' = [tasks EXCEPT ![t] = c]
    BY <2>1, <2>4 DEF Typed, TasksTyped
  <2>6. TaskTyped(c)
    BY <1>0, <2>3, TaskFields DEF TaskTyped, TaskRecords
  <2> HIDE DEF c
  <2>7. TasksTyped(tasks')
    BY <2>5, <2>6, OneTask DEF Typed
  <2> QED
    BY <1>0, <1>1, <2>2, <2>7 DEF Goes, Typed, Ambient, Logged
<1> QED
  BY <1>2, <1>3, <1>4

\* The steps that only touch what Goes and these are about.
LEMMA GoesTyped ==
  ASSUME Typed, Goes, left' \in [changes : 0 .. MaxChanges, faults : 0 .. MaxFaults],
         saved' \in Configs, overlapped' \in BOOLEAN,
         UNCHANGED <<runs, inbox, runtimes, present, disk, ticks>>
  PROVE  Typed'
  BY DEF Typed, Goes, Ambient, Held, Logged

LEMMA FaultTyped ==
  ASSUME Typed, Fault
  PROVE  left' \in [changes : 0 .. MaxChanges, faults : 0 .. MaxFaults]
  BY LifecycleBounds DEF Typed, Ambient, Fault

LEMMA ChangeTyped ==
  ASSUME Typed, NEW raw \in Configs, ChangeConfig(raw)
  PROVE  Typed'
<1>1. "change" \in TaskIds
  BY DEF TaskIds
<1>2. Goes /\ overlapped' \in BOOLEAN
  BY <1>1, ConfigureTyped DEF ChangeConfig
<1>3. left' \in [changes : 0 .. MaxChanges, faults : 0 .. MaxFaults]
  BY LifecycleBounds DEF Typed, Ambient, ChangeConfig
<1> QED
  BY <1>2, <1>3, GoesTyped DEF ChangeConfig

LEMMA SecretTyped ==
  ASSUME Typed, NEW t \in TaskIds, SecretResolved(t) \/ SecretUnresolved(t)
  PROVE  Typed'
<1>0. relay \in Relays /\ NoToken \in Resolved
  BY DEF Typed, Resolved
<1>1. ASSUME NEW call, NEW api \in Resolved,
             call.raw = tasks[t].raw, call.token \in Resolved, call.saw = tasks[t].saw
      PROVE  Installed(relay, call, api) \in Relays
  BY <1>0, <1>1, TaskFields, InstalledTyped
<1>2. CASE SecretUnresolved(t)
  <2>1. PICK r : /\ \/ r = SwitchedOff(relay, tasks[t].saw)
                    \/ r = Installed(relay, tasks[t], NoToken)
                 /\ AfterConfigure(t, r, tasks[t].raw)
    BY <1>2, Zenon DEF SecretUnresolved
  <2>2. r \in Relays
    <3>1. SwitchedOff(relay, tasks[t].saw) \in Relays
      BY <1>0, TaskFields, SwitchedOffTyped
    <3>2. Installed(relay, tasks[t], NoToken) \in Relays
      BY <1>0, <1>1, TaskFields
    <3> QED
      BY <2>1, <3>1, <3>2
  <2>3. Goes
    BY <2>1, <2>2, TaskFields, AfterConfigureTyped
  <2>4. overlapped' \in BOOLEAN
    BY <1>2 DEF SecretUnresolved, Typed, Ambient, Overlaps, Configuring
  <2>5. Fault /\ UNCHANGED <<hostVars, runtimes, present, disk, ticks>>
    BY <1>2 DEF SecretUnresolved
  <2> QED
    BY <2>3, <2>4, <2>5, FaultTyped, GoesTyped DEF hostVars, Typed, Ambient
<1>3. CASE SecretResolved(t)
  <2>1. PICK value \in Tokens :
          IF tasks[t].at = "token" /\ NextAwait(tasks[t].raw) # {}
          THEN /\ tasks' = [tasks EXCEPT ![t].at = "api", ![t].token = value]
               /\ UNCHANGED <<relay, comms, worker>>
          ELSE LET call == IF tasks[t].at = "token" THEN [tasks[t] EXCEPT !.token = value]
                           ELSE tasks[t]
               IN AfterConfigure(t, Installed(relay, call,
                                    IF tasks[t].at = "api" THEN value ELSE NoToken), call.raw)
    BY <1>3 DEF SecretResolved
  <2>2. value \in Resolved
    BY DEF Resolved
  <2> DEFINE c == [tasks[t] EXCEPT !.at = "api", !.token = value]
             d == [tasks[t] EXCEPT !.token = value]
  <2>3. TaskTyped(c)
    BY <2>2, TaskFields DEF TaskTyped, TaskRecords, Stages
  <2>4. d.raw = tasks[t].raw /\ d.token \in Resolved /\ d.saw = tasks[t].saw
    BY <2>2, TaskFields DEF TaskRecords
  <2>5. Goes
    <3>1. CASE tasks[t].at = "token" /\ NextAwait(tasks[t].raw) # {}
      <4>1. tasks' = [tasks EXCEPT ![t] = c] /\ UNCHANGED <<relay, comms, worker>>
        BY <2>1, <3>1 DEF Typed, TasksTyped
      <4> HIDE DEF c
      <4>2. TasksTyped(tasks')
        BY <2>3, <4>1, OneTask DEF Typed
      <4> QED
        BY <4>1, <4>2 DEF Goes, Typed, Ambient, Logged
    <3>2. CASE ~ (tasks[t].at = "token" /\ NextAwait(tasks[t].raw) # {})
      <4>1. PICK call, api : /\ call = d \/ call = tasks[t]
                             /\ api = value \/ api = NoToken
                             /\ AfterConfigure(t, Installed(relay, call, api), call.raw)
        BY <2>1, <3>2, Zenon
      <4> HIDE DEF d
      <4>2. call.raw = tasks[t].raw /\ call.token \in Resolved /\ call.saw = tasks[t].saw
        BY <2>4, <4>1, TaskFields
      <4>3. api \in Resolved
        BY <1>0, <2>2, <4>1
      <4>4. Installed(relay, call, api) \in Relays
        BY <1>1, <4>2, <4>3
      <4>5. AfterConfigure(t, Installed(relay, call, api), tasks[t].raw)
        BY <4>1, <4>2
      <4> QED
        BY <4>4, <4>5, TaskFields, AfterConfigureTyped
    <3> QED
      BY <3>1, <3>2
  <2>6. overlapped' \in BOOLEAN
    BY <1>3 DEF SecretResolved, Typed, Ambient, Overlaps, Configuring
  <2>7. UNCHANGED <<left, hostVars, runtimes, present, disk, ticks>>
    BY <1>3 DEF SecretResolved
  <2> QED
    BY <2>5, <2>6, <2>7, GoesTyped DEF hostVars, Typed, Ambient
<1> QED
  BY <1>2, <1>3

-----------------------------------------------------------------------------
(* The steps of a setup.                                                    *)

LEMMA BucketsTyped ==
  ASSUME Typed, NEW t \in TaskIds, BucketsLoaded(t)
  PROVE  Typed'
<1>1. Held' /\ present' \in Nat
  <2>0. Len(runtimes) \in Nat /\ runtimes \in Seq([filled : BOOLEAN])
    BY LenProperties DEF Typed, Held
  <2>1. CASE present = 0
    <3>1. runtimes' = Append(runtimes, [filled |-> FALSE]) /\ present' = Len(runtimes) + 1
      BY <2>1 DEF BucketsLoaded
    <3>2. runtimes' \in Seq([filled : BOOLEAN]) /\ Len(runtimes') = Len(runtimes) + 1
      BY <2>0, <3>1
    <3> QED
      BY <2>0, <3>1, <3>2 DEF Held
  <2>2. CASE present # 0
    BY <2>0, <2>2 DEF BucketsLoaded, Typed, Held
  <2> QED
    BY <2>1, <2>2
<1>2. PICK k \in Nat : k = present'
  BY <1>1
<1>3. CompactSound(disk) /\ disk \in Compacts
  BY DEF Typed, Logged, CompactSound
<1> DEFINE c == [tasks[t] EXCEPT !.at = "comms", !.rt = k, !.log = disk]
<1>4. tasks' = [tasks EXCEPT ![t] = c]
  BY <1>2 DEF BucketsLoaded, Typed, TasksTyped
<1>5. c \in TaskRecords /\ c.log = disk
  BY <1>3, TaskFields DEF TaskRecords, Stages
<1> HIDE DEF c
<1>6. TasksTyped(tasks')
  BY <1>3, <1>4, <1>5, OneTask DEF Typed, TaskTyped
<1>7. UNCHANGED <<worker, left, hostVars, relay, comms, disk, ticks, overlapped>>
  BY DEF BucketsLoaded
<1> QED
  BY <1>1, <1>6, <1>7 DEF Typed, Ambient, Logged, hostVars

LEMMA CommsTyped ==
  ASSUME Typed, NEW t \in TaskIds, CommsLoaded(t)
  PROVE  Typed'
<1>1. LogSound(comms) /\ LogSound(Restored(comms, tasks[t].log))
  BY TaskFields, RestoredSound DEF Typed, Logged
<1>2. LogSound(comms')
  BY <1>1 DEF CommsLoaded
<1>3. CompactSound(NoCompact) /\ NoCompact \in Compacts
  BY NoCompactSound DEF CompactSound
<1> DEFINE c == [tasks[t] EXCEPT !.at = "snapshot", !.log = NoCompact]
<1>4. tasks' = [tasks EXCEPT ![t] = c]
  BY DEF CommsLoaded, Typed, TasksTyped
<1>5. c \in TaskRecords /\ c.log = NoCompact
  BY <1>3, TaskFields DEF TaskRecords, Stages
<1> HIDE DEF c
<1>6. TasksTyped(tasks')
  BY <1>3, <1>4, <1>5, OneTask DEF Typed, TaskTyped
<1>7. UNCHANGED <<worker, left, hostVars, runtimes, present, relay, disk, ticks, overlapped>>
  BY DEF CommsLoaded
<1> QED
  BY <1>2, <1>6, <1>7 DEF Typed, Ambient, Held, Logged, hostVars

\* A runtime is filled; an index that is none fills nothing.
LEMMA FilledTyped ==
  ASSUME NEW s \in Seq([filled : BOOLEAN]), NEW k
  PROVE  /\ [s EXCEPT ![k].filled = TRUE] \in Seq([filled : BOOLEAN])
         /\ Len([s EXCEPT ![k].filled = TRUE]) = Len(s)
<1>1. PICK e : e = [s[k] EXCEPT !.filled = TRUE]
  OBVIOUS
<1>2. PICK u : u = [s EXCEPT ![k] = e]
  OBVIOUS
<1>3. [s EXCEPT ![k].filled = TRUE] = u
  BY <1>1, <1>2
<1>4. DOMAIN s = 1 .. Len(s)
  BY LenProperties
<1>5. CASE k \in 1 .. Len(s)
  <2>1. s[k] \in [filled : BOOLEAN]
    BY <1>5, ElementOfSeq
  <2>2. e \in [filled : BOOLEAN]
    BY <1>1, <2>1
  <2>3. u \in Seq([filled : BOOLEAN]) /\ Len(u) = Len(s)
    BY ONLY <1>2, <1>5, <2>2, s \in Seq([filled : BOOLEAN]), ExceptSeq
  <2> QED
    BY <1>3, <2>3
<1>6. CASE k \notin 1 .. Len(s)
  <2>1. u = s
    BY <1>2, <1>4, <1>6
  <2> QED
    BY <1>3, <2>1
<1> QED
  BY <1>5, <1>6

LEMMA SeenTyped ==
  ASSUME Typed, NEW t \in TaskIds,
         tasks' = [tasks EXCEPT ![t].at = "characters", ![t].seen = Active]
  PROVE  TasksTyped(tasks')
<1>1. PICK act \in SUBSET Runs : act = Active
  BY DEF Active
<1> DEFINE c == [tasks[t] EXCEPT !.at = "characters", !.seen = act]
<1>2. tasks' = [tasks EXCEPT ![t] = c]
  BY <1>1 DEF Typed, TasksTyped
<1>3. TaskTyped(c)
  BY TaskFields DEF TaskTyped, TaskRecords, Stages
<1> HIDE DEF c
<1>4. TasksTyped([tasks EXCEPT ![t] = c])
  BY <1>3, OneTask DEF Typed
<1> QED
  BY ONLY <1>2, <1>4

LEMMA BootstrappedTyped ==
  ASSUME Typed, NEW t \in TaskIds, Bootstrapped(t)
  PROVE  Typed'
<1>1. TasksTyped(tasks')
  BY SeenTyped DEF Bootstrapped
<1>2. Held'
  BY FilledTyped DEF Bootstrapped, Typed, Held
<1>3. UNCHANGED <<worker, left, hostVars, present, relay, comms, disk, ticks, overlapped>>
  BY DEF Bootstrapped
<1> QED
  BY <1>1, <1>2, <1>3 DEF Typed, Ambient, Logged, hostVars

LEMMA ConfigReadTyped ==
  ASSUME Typed, NEW t \in TaskIds, ConfigRead(t)
  PROVE  Typed'
<1>1. saved \in Configs
  BY DEF Typed, Ambient
<1>2. Goes /\ overlapped' \in BOOLEAN
  BY <1>1, ConfigureTyped DEF ConfigRead
<1>3. UNCHANGED <<left, hostVars, runtimes, present, disk, ticks>>
  BY DEF ConfigRead
<1> QED
  BY <1>2, <1>3, GoesTyped DEF Typed, Ambient, hostVars

LEMMA ConfigUnreadTyped ==
  ASSUME Typed, NEW t \in TaskIds, ConfigUnread(t)
  PROVE  Typed'
<1>1. Goes
  BY AfterSetupTyped DEF ConfigUnread, Typed, Logged
<1>2. Fault /\ UNCHANGED <<hostVars, runtimes, present, disk, ticks, overlapped>>
  BY DEF ConfigUnread
<1> QED
  BY <1>1, <1>2, FaultTyped, GoesTyped DEF Typed, Ambient, hostVars

LEMMA SetupFailsTyped ==
  ASSUME Typed, NEW t \in TaskIds, SetupFails(t)
  PROVE  Typed'
<1>1. TasksTyped(tasks')
  BY IdleTyped, OneTask DEF SetupFails, Typed
<1>2. Held'
  <2>1. Len(runtimes) \in Nat
    BY LenProperties DEF Typed, Held
  <2> QED
    BY <2>1 DEF SetupFails, Typed, Held
<1>3. worker' \in {"boot", "up", "down"}
  BY DEF SetupFails, Typed, Ambient
<1>4. Fault /\ UNCHANGED <<hostVars, relay, comms, disk, ticks, overlapped>>
  BY DEF SetupFails
<1> QED
  BY <1>1, <1>2, <1>3, <1>4, FaultTyped DEF Typed, Ambient, Logged, hostVars

-----------------------------------------------------------------------------
(* Events, queries, the job, the timer, the end and the start.              *)

LEMMA RunTyped ==
  ASSUME Typed, NEW r \in Runs, StartRun(r) \/ EndRun(r)
  PROVE  Typed'
<1>1. runs' \in [Runs -> RunStates]
  BY DEF StartRun, EndRun, Typed, Ambient, RunStates
<1>2. inbox' \in Seq(RunEvents)
  <2>1. PICK kind \in {"started", "ended"} : inbox' = Append(inbox, [kind |-> kind, run |-> r])
    BY DEF StartRun, EndRun
  <2>2. [kind |-> kind, run |-> r] \in RunEvents
    BY DEF RunEvents
  <2>3. inbox \in Seq(RunEvents)
    BY DEF Typed, Ambient
  <2> QED
    BY <2>1, <2>2, <2>3, AppendProperties
<1>3. UNCHANGED <<worker, left, saved, runtimes, present, relay, comms, disk, tasks, ticks,
                  overlapped>>
  BY DEF StartRun, EndRun
<1> QED
  BY <1>1, <1>2, <1>3 DEF Typed, Ambient, Held, Logged

LEMMA BeginTyped ==
  ASSUME Typed, NEW t \in TaskIds, NEW why \in Causes, NEW event \in RunEvents \cup {NoEvent},
         Begin(t, why, event)
  PROVE  TasksTyped(tasks')
  BY SetupTyped, OneTask DEF Begin, Typed

LEMMA DeliverTyped ==
  ASSUME Typed, Deliver
  PROVE  Typed'
<1>1. inbox \in Seq(RunEvents) /\ inbox # <<>>
  BY DEF Deliver, Typed, Ambient
<1>2. Head(inbox) \in RunEvents /\ inbox' \in Seq(RunEvents)
  BY <1>1, HeadTailProperties DEF Deliver
<1>3. relay' \in Relays /\ LogSound(comms') /\ TasksTyped(tasks')
  <2>1. CASE /\ relay' = Handled(relay, Head(inbox)) /\ comms' \in Sent(relay, comms)
             /\ UNCHANGED tasks
    <3>1. relay' \in Relays
      BY <1>2, <2>1, HandledTyped DEF Typed
    <3>2. LogSound(comms')
      BY <2>1, SentSound DEF Typed, Logged
    <3> QED
      BY <2>1, <3>1, <3>2 DEF Typed
  <2>2. CASE (\E t \in Slots : Begin(t, "event", Head(inbox))) /\ UNCHANGED <<relay, comms>>
    <3>1. PICK t \in Slots : Begin(t, "event", Head(inbox))
      BY <2>2
    <3>2. t \in TaskIds /\ "event" \in Causes
      BY DEF TaskIds, Setups, Causes
    <3>3. TasksTyped(tasks')
      BY <1>2, <3>1, <3>2, BeginTyped
    <3> QED
      BY <2>2, <3>3 DEF Typed, Logged
  <2> QED
    BY <2>1, <2>2 DEF Deliver
<1>4. UNCHANGED <<worker, left, saved, runs, runtimes, present, disk, ticks, overlapped>>
  BY DEF Deliver
<1> QED
  BY <1>2, <1>3, <1>4 DEF Typed, Ambient, Held, Logged

LEMMA QueryTyped ==
  ASSUME Typed, Query
  PROVE  Typed'
<1>1. PICK t \in Slots : Begin(t, "query", NoEvent)
  BY DEF Query
<1>2. t \in TaskIds /\ "query" \in Causes
  BY DEF TaskIds, Setups, Causes
<1>3. TasksTyped(tasks')
  BY <1>1, <1>2, BeginTyped
<1>4. UNCHANGED <<worker, left, hostVars, runtimes, present, relay, comms, disk, ticks,
                  overlapped>>
  BY DEF Query
<1> QED
  BY <1>3, <1>4 DEF Typed, Ambient, Held, Logged, hostVars

LEMMA AtSnapshot ==
  ASSUME Typed
  PROVE  /\ TaskTyped([Idle EXCEPT !.at = "resync"])
         /\ TaskTyped([Idle EXCEPT !.at = "snapshot", !.rt = present])
<1>1. "resync" \in Stages /\ "snapshot" \in Stages
  BY DEF Stages
<1>2. present \in Nat
  <2>1. Len(runtimes) \in Nat /\ present \in 0 .. Len(runtimes)
    BY LenProperties DEF Typed, Held
  <2> QED
    BY <2>1
<1> QED
  BY <1>1, <1>2, IdleMoved

LEMMA ResyncedTyped ==
  ASSUME Typed, NEW t \in TaskIds, Resynced(t)
  PROVE  Typed'
<1> DEFINE snapshot == [Idle EXCEPT !.at = "snapshot", !.rt = present]
<1>1. TaskTyped(snapshot)
  BY AtSnapshot
<1>2. tasks' = [tasks EXCEPT ![t] = IF t = "change" THEN Idle ELSE snapshot]
  BY DEF Resynced
<1> HIDE DEF snapshot
<1>3. PICK c : TaskTyped(c) /\ tasks' = [tasks EXCEPT ![t] = c]
  BY <1>1, <1>2, IdleTyped
<1>4. TasksTyped(tasks')
  BY <1>3, OneTask DEF Typed
<1>5. LogSound(comms')
  BY SentSound DEF Resynced, Typed, Logged
<1>6. left' = left \/ Fault
  BY DEF Resynced
<1>7. UNCHANGED <<worker, hostVars, runtimes, present, relay, disk, ticks, overlapped>>
  BY DEF Resynced
<1> QED
  BY <1>4, <1>5, <1>6, <1>7, FaultTyped DEF Typed, Ambient, Held, Logged, hostVars

LEMMA NextTickTyped ==
  ASSUME NEW n \in Nat
  PROVE  NextTick(n) \in 0 .. ResyncEvery - 1
  BY LifecycleBounds DEF NextTick

LEMMA JobTickTyped ==
  ASSUME Typed, JobTick
  PROVE  Typed'
<1> DEFINE resync == [Idle EXCEPT !.at = "resync"]
           snapshot == [Idle EXCEPT !.at = "snapshot", !.rt = present]
<1>0. "job" \in TaskIds
  BY DEF TaskIds
<1>1. TaskTyped(resync) /\ TaskTyped(snapshot)
  BY AtSnapshot
<1>2. \/ tasks' = [tasks EXCEPT !["job"] = resync]
      \/ tasks' = [tasks EXCEPT !["job"] = snapshot]
  BY DEF JobTick
<1> HIDE DEF resync, snapshot
<1>3. TasksTyped(tasks')
  BY <1>0, <1>1, <1>2, OneTask DEF Typed
<1>4. ticks' \in 0 .. ResyncEvery - 1
  <2>1. ticks \in Nat
    BY DEF Typed, Ambient
  <2> QED
    BY <2>1, NextTickTyped DEF JobTick
<1>5. UNCHANGED <<worker, left, hostVars, runtimes, present, relay, comms, disk, overlapped>>
  BY DEF JobTick
<1> QED
  BY <1>3, <1>4, <1>5 DEF Typed, Ambient, Held, Logged, hostVars

LEMMA ReconciledTyped ==
  ASSUME Typed, Reconciled
  PROVE  Typed'
<1>0. "job" \in TaskIds
  BY DEF TaskIds
<1>1. CASE tasks["job"].rt = 0
  <2>1. TasksTyped(tasks') /\ UNCHANGED runtimes
    BY <1>0, <1>1, IdleTyped, OneTask DEF Reconciled, Typed
  <2>2. UNCHANGED <<worker, left, hostVars, present, relay, comms, disk, ticks, overlapped>>
    BY DEF Reconciled
  <2> QED
    BY <2>1, <2>2 DEF Typed, Ambient, Held, Logged, hostVars
<1>2. CASE tasks["job"].rt # 0
  <2>1. TasksTyped(tasks')
    BY <1>0, <1>2, SeenTyped DEF Reconciled
  <2>2. PICK k : k = tasks["job"].rt
    OBVIOUS
  <2>3. runtimes' = [runtimes EXCEPT ![k].filled = TRUE] /\ present' = present
    BY <1>2, <2>2 DEF Reconciled
  <2>4. runtimes' \in Seq([filled : BOOLEAN]) /\ Len(runtimes') = Len(runtimes)
    BY <2>3, FilledTyped DEF Typed, Held
  <2>5. Held'
    BY <2>3, <2>4 DEF Typed, Held
  <2>6. UNCHANGED <<worker, left, hostVars, present, relay, comms, disk, ticks, overlapped>>
    BY DEF Reconciled
  <2> QED
    BY <2>1, <2>5, <2>6 DEF Typed, Ambient, Logged, hostVars
<1> QED
  BY <1>1, <1>2

LEMMA FedTyped ==
  ASSUME Typed, ReconcileFed \/ ReconcileFails
  PROVE  Typed'
<1>0. "job" \in TaskIds
  BY DEF TaskIds
<1>1. TasksTyped(tasks')
  BY <1>0, IdleTyped, OneTask DEF ReconcileFed, ReconcileFails, Typed
<1>2. relay' \in Relays /\ LogSound(comms')
  <2>1. CASE ReconcileFed
    <3>1. relay' \in Relays
      BY <1>0, <2>1, TaskFields, TrackingTyped DEF ReconcileFed, Typed
    <3>2. LogSound(comms')
      BY <2>1, SentSound DEF ReconcileFed, Typed, Logged
    <3> QED
      BY <3>1, <3>2
  <2>2. CASE ReconcileFails
    BY <2>2 DEF ReconcileFails, Typed, Logged
  <2> QED
    BY <2>1, <2>2
<1>3. left' \in [changes : 0 .. MaxChanges, faults : 0 .. MaxFaults]
  BY FaultTyped DEF ReconcileFed, ReconcileFails, Typed, Ambient
<1>4. UNCHANGED <<worker, hostVars, runtimes, present, disk, ticks, overlapped>>
  BY DEF ReconcileFed, ReconcileFails
<1> QED
  BY <1>1, <1>2, <1>3, <1>4 DEF Typed, Ambient, Held, Logged, hostVars

LEMMA PersistTyped ==
  ASSUME Typed, PersistTick
  PROVE  Typed'
<1>1. CompactSound(disk')
  BY CompactOfSound DEF PersistTick, Typed, Logged
<1>2. UNCHANGED <<worker, left, hostVars, runtimes, present, relay, comms, tasks, ticks,
                  overlapped>>
  BY DEF PersistTick
<1> QED
  BY <1>1, <1>2 DEF Typed, Ambient, Held, Logged, hostVars

LEMMA AllTyped ==
  ASSUME NEW ts, NEW first, TaskTyped(first),
         ts = [t \in TaskIds |-> IF t = "boot" THEN first ELSE Idle]
  PROVE  TasksTyped(ts)
  BY IdleTyped DEF TasksTyped, TaskTyped

LEMMA NoRelayTyped == NoRelay \in Relays
<1>1. NoRelay.entries \in Seq(RelayEntries) /\ Len(NoRelay.entries) = 0
  BY EmptySeq DEF NoRelay
<1> QED
  BY <1>1 DEF NoRelay, Relays

LEMMA BootTyped == TaskTyped(SetupFor("boot", NoEvent))
<1>1. "boot" \in Causes /\ NoEvent \in RunEvents \cup {NoEvent}
  BY DEF Causes
<1> QED
  BY <1>1, SetupTyped

LEMMA StopTyped ==
  ASSUME Typed, Stop
  PROVE  Typed'
<1>1. tasks' = [t \in TaskIds |-> IF t = "boot" THEN Idle ELSE Idle]
  BY DEF Stop
<1>2. TasksTyped(tasks')
  BY <1>1, IdleTyped, AllTyped
<1>3. relay' \in Relays
  BY RelayFields, SwitchedOffTyped DEF Stop, ShutDown, Typed
<1>4. Fault /\ worker' = "down"
      /\ UNCHANGED <<hostVars, runtimes, present, comms, disk, ticks, overlapped>>
  BY DEF Stop
<1> QED
  BY <1>2, <1>3, <1>4, FaultTyped DEF Typed, Ambient, Held, Logged, hostVars

LEMMA RestartTyped ==
  ASSUME Typed, Restart
  PROVE  Typed'
<1>1. PICK listed \in BOOLEAN :
        /\ worker' = IF listed THEN "boot" ELSE "up"
        /\ tasks' = [t \in TaskIds |-> IF t = "boot" /\ listed THEN SetupFor("boot", NoEvent) ELSE Idle]
  BY DEF Restart
<1> DEFINE first == IF listed THEN SetupFor("boot", NoEvent) ELSE Idle
<1>2. TaskTyped(first)
  BY IdleTyped, BootTyped
<1>3. tasks' = [t \in TaskIds |-> IF t = "boot" THEN first ELSE Idle]
  BY <1>1
<1> HIDE DEF first
<1>4. TasksTyped(tasks')
  BY <1>2, <1>3, AllTyped
<1>5. /\ runtimes' = <<>> /\ present' = 0 /\ relay' = NoRelay /\ comms' = EmptyLog
      /\ inbox' = <<>> /\ ticks' = 0 /\ overlapped' = FALSE
      /\ UNCHANGED <<left, saved, runs, disk>>
  BY DEF Restart
<1>6. Held'
  BY <1>5 DEF Held
<1>7. Ambient'
  <2>1. worker' \in {"boot", "up"} /\ 0 \in 0 .. ResyncEvery - 1
    BY <1>1, LifecycleBounds
  <2>2. inbox' \in Seq(RunEvents)
    BY <1>5, EmptySeq
  <2> QED
    BY <1>5, <2>1, <2>2 DEF Typed, Ambient
<1> QED
  BY <1>4, <1>5, <1>6, <1>7, NoRelayTyped, EmptySound DEF Typed, Logged

LEMMA StutterTyped ==
  ASSUME Typed, UNCHANGED vars
  PROVE  Typed'
  BY DEF vars, Typed, Ambient, Held, Logged

LEMMA TypedPreserved ==
  ASSUME Typed, [LifecycleNext]_vars
  PROVE  Typed'
<1>0. Setups \subseteq TaskIds
  BY DEF TaskIds
<1>1. CASE \E r \in Runs : StartRun(r) \/ EndRun(r)
  BY <1>1, RunTyped
<1>2. CASE \E raw \in Configs : ChangeConfig(raw)
  BY <1>2, ChangeTyped
<1>3. CASE \E t \in Setups : SetupStep(t)
  BY <1>0, <1>3, BucketsTyped, CommsTyped, BootstrappedTyped, ConfigReadTyped, ConfigUnreadTyped,
     SetupFailsTyped DEF SetupStep
<1>4. CASE \E t \in TaskIds : SecretResolved(t) \/ SecretUnresolved(t) \/ Resynced(t)
  BY <1>4, SecretTyped, ResyncedTyped
<1>5. CASE Deliver \/ Query
  BY <1>5, DeliverTyped, QueryTyped
<1>6. CASE JobTick \/ Reconciled \/ ReconcileFed \/ ReconcileFails
  BY <1>6, JobTickTyped, ReconciledTyped, FedTyped
<1>7. CASE PersistTick \/ Stop \/ Restart
  BY <1>7, PersistTyped, StopTyped, RestartTyped
<1>8. CASE UNCHANGED vars
  BY <1>8, StutterTyped
<1> QED
  BY <1>1, <1>2, <1>3, <1>4, <1>5, <1>6, <1>7, <1>8 DEF LifecycleNext

LEMMA TypedAtFirst ==
  ASSUME LifecycleInit
  PROVE  Typed
<1>1. PICK listed \in BOOLEAN : Boots(listed)
  BY DEF LifecycleInit
<1> DEFINE first == IF listed THEN SetupFor("boot", NoEvent) ELSE Idle
<1>2. TaskTyped(first)
  BY IdleTyped, BootTyped
<1>3. /\ tasks = [t \in TaskIds |-> IF t = "boot" THEN first ELSE Idle]
      /\ worker \in {"boot", "up"}
  BY <1>1 DEF Boots
<1> HIDE DEF first
<1>4. TasksTyped(tasks)
  BY <1>2, <1>3, AllTyped
<1>5. /\ left = [changes |-> MaxChanges, faults |-> MaxFaults]
      /\ saved \in FirstConfigs /\ runs = [r \in Runs |-> "new"]
      /\ inbox = <<>> /\ runtimes = <<>> /\ present = 0
      /\ relay = NoRelay /\ comms = EmptyLog /\ disk = NoCompact
      /\ ticks = 0 /\ overlapped = FALSE
  BY DEF LifecycleInit
<1>6. Held
  BY <1>5 DEF Held
<1>7. Ambient
  <2>1. left \in [changes : 0 .. MaxChanges, faults : 0 .. MaxFaults] /\ 0 \in 0 .. ResyncEvery - 1
    BY <1>5, LifecycleBounds
  <2>2. saved \in Configs /\ runs \in [Runs -> RunStates]
    BY <1>5, LifecycleBounds DEF RunStates
  <2>3. inbox \in Seq(RunEvents)
    BY <1>5, EmptySeq
  <2> QED
    BY <1>3, <1>5, <2>1, <2>2, <2>3 DEF Ambient
<1> QED
  BY <1>4, <1>5, <1>6, <1>7, NoRelayTyped, EmptySound, NoCompactSound DEF Typed, Logged

LEMMA AlwaysTyped == LifecycleSpec => []Typed
  BY TypedAtFirst, TypedPreserved, PTL DEF LifecycleSpec

(* Whatever setups, faults and restarts interleave, the relay, the settings *)
(* and the steps in progress (worker.ts:540-760) keep to their types, for   *)
(* every set of configurations, runs and events.                            *)
THEOREM LifecycleTypeCorrect == LifecycleSpec => []LifecycleTypeOK
<1>1. Typed => LifecycleTypeOK
  BY DEF Typed, LifecycleTypeOK, Ambient, Held, Logged, LogSound, CompactSound, TasksTyped
<1> QED
  BY <1>1, AlwaysTyped, PTL

(* The log of a company is no longer than its limit, its entries in the      *)
(* order of their numbers and numbered no higher than its counter, also     *)
(* after a restore that meets what was recorded meanwhile (comms-log.ts).   *)
THEOREM LogAlwaysOrdered == LifecycleSpec => []LogOrdered
<1>1. Typed => LogOrdered
  BY DEF Typed, Logged, LogSound, LogOrdered
<1> QED
  BY <1>1, AlwaysTyped, PTL

-----------------------------------------------------------------------------
(* The pages of the log.                                                   *)

Decreasing(s) == \A i, j \in 1 .. Len(s) : i < j => s[j].seq < s[i].seq

LEMMA ReversedSeq ==
  ASSUME NEW S, NEW s \in Seq(S)
  PROVE  /\ Reverse(s) \in Seq(S) /\ Len(Reverse(s)) = Len(s)
         /\ \A i \in 1 .. Len(s) :
              Len(s) - i + 1 \in 1 .. Len(s) /\ Reverse(s)[i] = s[Len(s) - i + 1]
<1>0. PICK n \in Nat : n = Len(s)
  BY LenProperties
<1>1. \A i \in 1 .. n : n - i + 1 \in 1 .. n
  BY <1>0
<1>2. Reverse(s) = [i \in 1 .. n |-> s[(n - i) + 1]]
  BY <1>0 DEF Reverse
<1>3. \A i \in 1 .. n : s[i] \in S
  BY <1>0, ElementOfSeq
<1>4. Reverse(s) \in [1 .. n -> S]
  BY <1>1, <1>2, <1>3
<1>5. Reverse(s) \in Seq(S) /\ Len(Reverse(s)) = n
  BY <1>0, <1>4
<1>6. \A i \in 1 .. n : Reverse(s)[i] = s[n - i + 1]
  BY <1>1, <1>2
<1> QED
  BY <1>0, <1>1, <1>5, <1>6

LEMMA ReversedIncreasing ==
  ASSUME NEW s \in Seq(Entries), Increasing(s)
  PROVE  Decreasing(Reverse(s))
<1> DEFINE t == Reverse(s)
<1>0. PICK n \in Nat : n = Len(s)
  BY LenProperties
<1>1. /\ Len(t) = n
      /\ \A i \in 1 .. n : n - i + 1 \in 1 .. n /\ t[i] = s[n - i + 1]
  BY <1>0, ReversedSeq
<1> HIDE DEF t
<1>2. ASSUME NEW i \in 1 .. n, NEW j \in 1 .. n, i < j
      PROVE  t[j].seq < t[i].seq
  <2>1. n - j + 1 < n - i + 1 /\ n - j + 1 \in 1 .. n /\ n - i + 1 \in 1 .. n
    BY <1>0, <1>2
  <2>2. s[n - j + 1].seq < s[n - i + 1].seq
    BY <1>0, <2>1 DEF Increasing
  <2> QED
    BY <1>1, <2>2
<1> QED
  BY <1>1, <1>2 DEF Decreasing, t

LEMMA ReversedDecreasing ==
  ASSUME NEW s \in Seq(Entries), Decreasing(s)
  PROVE  Increasing(Reverse(s))
<1> DEFINE t == Reverse(s)
<1>0. PICK n \in Nat : n = Len(s)
  BY LenProperties
<1>1. /\ Len(t) = n
      /\ \A i \in 1 .. n : n - i + 1 \in 1 .. n /\ t[i] = s[n - i + 1]
  BY <1>0, ReversedSeq
<1> HIDE DEF t
<1>2. ASSUME NEW i \in 1 .. n, NEW j \in 1 .. n, i < j
      PROVE  t[i].seq < t[j].seq
  <2>1. n - j + 1 < n - i + 1 /\ n - j + 1 \in 1 .. n /\ n - i + 1 \in 1 .. n
    BY <1>0, <1>2
  <2>2. s[n - i + 1].seq < s[n - j + 1].seq
    BY <1>0, <2>1 DEF Decreasing
  <2> QED
    BY <1>1, <2>2
<1> QED
  BY <1>1, <1>2 DEF Increasing, t

\* A page is below its cursor, newest first, and leaves nothing out above the next cursor.
PageExact(b, before, p) ==
  /\ p.entries \in Seq(Entries) /\ Decreasing(p.entries)
  /\ p.next \in 0 .. b.seq
  /\ before # NoSeq => p.next <= before
  /\ \A j \in 1 .. Len(p.entries) :
       /\ p.entries[j].seq \in 1 .. b.seq
       /\ p.entries[j].seq >= p.next
       /\ before # NoSeq => p.entries[j].seq < before
  /\ \A i \in 1 .. Len(b.entries) :
       /\ before # NoSeq => b.entries[i].seq < before
       /\ b.entries[i].seq >= p.next
       => \E j \in 1 .. Len(p.entries) : p.entries[j] = b.entries[i]

LEMMA BelowExact ==
  ASSUME NEW b, LogSound(b), NEW before \in Nat
  PROVE  PageExact(b, before, [entries |-> Below(b, before), next |-> NoSeq])
<1> DEFINE s == b.entries
           S == {e \in Range(s) : before = NoSeq \/ e.seq < before}
           t == Selected(s, S)
           u == Reverse(t)
<1>0. PICK n \in Nat : n = Len(s)
  BY LenProperties DEF LogSound, Logs
<1>1. s \in Seq(Entries) /\ Increasing(s) /\ b.seq \in Nat /\ \A i \in 1 .. n : s[i].seq \in 1 .. b.seq
  BY <1>0 DEF LogSound, Logs, InOrder
<1>2. Below(b, before) = u
  BY DEF Below
<1>3. Range(s) = {s[i] : i \in 1 .. n}
  BY <1>0, <1>1, LenProperties DEF Range
<1>4. S \subseteq Entries
  BY <1>0, <1>1, <1>3, ElementOfSeq
<1>5. \A i \in 1 .. n : s[i] \in S <=> (before # NoSeq => s[i].seq < before)
  BY <1>3
<1>6. \A e \in S : before # NoSeq => e.seq < before
  OBVIOUS
<1> HIDE DEF S, s
<1>7. PICK h : Embeds(h, t, s, n, S)
  BY <1>0, SelectedEmbeds
<1>8. t \in Seq(S)
  BY <1>0, SelectedType
<1>9. t \in Seq(Entries)
  BY <1>4, <1>8, SeqMonotonic
<1>10. PICK K \in Nat : K = Len(t)
  BY <1>9, LenProperties
<1>11. /\ \A i \in 1 .. K : h[i] \in 1 .. n /\ t[i] = s[h[i]] /\ t[i] \in S
       /\ \A i, j \in 1 .. K : i < j => h[i] < h[j]
       /\ \A k \in 1 .. n : s[k] \in S => \E i \in 1 .. K : h[i] = k
  BY <1>7, <1>10 DEF Embeds
<1> HIDE DEF t
<1>12. Increasing(t)
  <2>1. \A i, j \in 1 .. n : i < j => s[i].seq < s[j].seq
    BY <1>0, <1>1 DEF Increasing, s
  <2>2. \A i, j \in 1 .. K : i < j => t[i].seq < t[j].seq
    BY <1>11, <2>1
  <2> QED
    BY <1>10, <2>2 DEF Increasing
<1>13. Decreasing(u)
  BY <1>9, <1>12, ReversedIncreasing
<1>14. /\ u \in Seq(Entries) /\ Len(u) = K
       /\ \A i \in 1 .. K : K - i + 1 \in 1 .. K /\ u[i] = t[K - i + 1]
  BY <1>9, <1>10, ReversedSeq
<1> HIDE DEF u
<1>15. \A j \in 1 .. K : /\ u[j].seq \in 1 .. b.seq
                         /\ before # NoSeq => u[j].seq < before
  <2> TAKE j \in 1 .. K
  <2>1. PICK i \in 1 .. K : u[j] = t[i]
    BY <1>14
  <2>2. t[i] = s[h[i]] /\ h[i] \in 1 .. n /\ t[i] \in S
    BY <1>11
  <2> QED
    BY <1>1, <1>6, <2>1, <2>2
<1>16. \A i \in 1 .. n : (before # NoSeq => s[i].seq < before) => \E j \in 1 .. K : u[j] = s[i]
  <2> SUFFICES ASSUME NEW i \in 1 .. n, before # NoSeq => s[i].seq < before
               PROVE  \E j \in 1 .. K : u[j] = s[i]
    OBVIOUS
  <2>1. s[i] \in S
    BY <1>5
  <2>2. PICK k \in 1 .. K : h[k] = i
    BY <1>11, <2>1
  <2>3. K - k + 1 \in 1 .. K /\ K - (K - k + 1) + 1 = k
    BY <1>10
  <2>4. u[K - k + 1] = s[i]
    BY <1>11, <1>14, <2>2, <2>3
  <2> QED
    BY <2>3, <2>4
<1>17. NoSeq \in 0 .. b.seq /\ NoSeq = 0
  BY <1>1 DEF NoSeq
<1> DEFINE p == [entries |-> u, next |-> NoSeq]
<1>18. p.entries = u /\ p.next = 0
  BY <1>17
<1> HIDE DEF p
<1>19. (\A j \in 1 .. K : u[j].seq >= 0) /\ 0 <= before
  BY <1>15
<1>20. PageExact(b, before, p)
  BY <1>0, <1>13, <1>14, <1>15, <1>16, <1>17, <1>18, <1>19 DEF PageExact, s
<1> QED
  BY <1>2, <1>20 DEF p

LEMMA PageIsExact ==
  ASSUME NEW b, LogSound(b), NEW n \in Nat, NEW before \in Nat
  PROVE  PageExact(b, before, Page(b, n, before))
<1> DEFINE u == Below(b, before)  size == ClampPage(n)
           q == [entries |-> u, next |-> NoSeq]
           p == [entries |-> SubSeq(u, 1, size), next |-> u[size].seq]
<1>0. size \in Nat \ {0}
  BY LogAssumption DEF ClampPage
<1>1. PageExact(b, before, q)
  BY BelowExact
<1>2. Page(b, n, before) = IF Len(u) > size THEN p ELSE q
  BY DEF Page
<1>3. CASE ~ (Len(u) > size)
  BY <1>1, <1>2, <1>3
<1>4. CASE Len(u) > size
  <2>1. q.entries = u /\ q.next = 0
    BY DEF NoSeq
  <2> HIDE DEF u, size, q
  <2>2. PICK K \in Nat : K = Len(u)
    BY <1>1, <2>1, LenProperties DEF PageExact
  <2>3. /\ u \in Seq(Entries)
        /\ \A i, j \in 1 .. K : i < j => u[j].seq < u[i].seq
        /\ \A j \in 1 .. K : u[j].seq \in 1 .. b.seq /\ (before # NoSeq => u[j].seq < before)
        /\ \A i \in 1 .. Len(b.entries) :
             (before # NoSeq => b.entries[i].seq < before) /\ b.entries[i].seq >= 0
             => \E j \in 1 .. K : u[j] = b.entries[i]
    BY <1>1, <2>1, <2>2 DEF PageExact, Decreasing
  <2>4. size \in 1 .. K
    BY <1>0, <1>4, <2>2
  <2>5. /\ p.entries \in Seq(Entries) /\ Len(p.entries) = size
        /\ \A j \in 1 .. size : p.entries[j] = u[j]
    <3>1. \A j \in 1 .. size : u[j] \in Entries
      BY <2>2, <2>3, <2>4, ElementOfSeq
    <3>2. /\ SubSeq(u, 1, size) \in Seq(Entries)
          /\ Len(SubSeq(u, 1, size)) = IF 1 <= size THEN size - 1 + 1 ELSE 0
          /\ \A j \in 1 .. size - 1 + 1 : SubSeq(u, 1, size)[j] = u[1 + j - 1]
      BY <1>0, <3>1, SubSeqProperties
    <3>3. \A j \in 1 .. size : 1 + j - 1 = j
      BY <1>0
    <3>4. size - 1 + 1 = size /\ 1 <= size
      BY <1>0
    <3> QED
      BY <3>2, <3>3, <3>4
  <2>6. p.next = u[size].seq
    OBVIOUS
  <2> HIDE DEF p
  <2>7. p.next \in 1 .. b.seq
    BY <2>3, <2>4, <2>6
  <2>8. Decreasing(p.entries)
    <3>1. \A i, j \in 1 .. size : i < j => u[j].seq < u[i].seq
      BY <2>3, <2>4
    <3> QED
      BY <2>5, <3>1 DEF Decreasing
  <2>9. \A j \in 1 .. size : u[j].seq >= p.next
    <3> TAKE j \in 1 .. size
    <3>1. j \in 1 .. K /\ u[j].seq \in 1 .. b.seq
      BY <2>3, <2>4
    <3>2. CASE j = size
      BY <2>6, <2>7, <3>2
    <3>3. CASE j # size
      <4>1. u[size].seq < u[j].seq
        BY <2>3, <2>4, <3>1, <3>3
      <4> QED
        BY <2>6, <2>7, <3>1, <4>1
    <3> QED
      BY <3>2, <3>3
  <2>10. \A j \in 1 .. K : u[j].seq >= p.next => j \in 1 .. size
    <3> SUFFICES ASSUME NEW j \in 1 .. K, u[j].seq >= p.next, j > size PROVE FALSE
      BY <2>4
    <3>1. u[j].seq < u[size].seq
      BY <2>3, <2>4
    <3>2. u[j].seq \in 1 .. b.seq
      BY <2>3
    <3> QED
      BY <2>6, <2>7, <3>1, <3>2
  <2>11. ASSUME NEW i \in 1 .. Len(b.entries),
                before # NoSeq => b.entries[i].seq < before, b.entries[i].seq >= p.next
         PROVE  \E j \in 1 .. size : p.entries[j] = b.entries[i]
    <3>1. b.entries[i].seq >= 0
      <4>1. b.entries[i].seq \in Nat
        BY EntryNumber DEF LogSound, Logs
      <4> QED
        BY <4>1
    <3>2. PICK j \in 1 .. K : u[j] = b.entries[i]
      BY <2>3, <2>11, <3>1
    <3>3. j \in 1 .. size
      BY <2>10, <2>11, <3>2
    <3> QED
      BY <2>5, <3>2, <3>3
  <2>12. p.next \in 0 .. b.seq
    BY <2>7
  <2>13. \A j \in 1 .. size : u[j].seq \in 1 .. b.seq /\ (before # NoSeq => u[j].seq < before)
    BY <2>3, <2>4
  <2>14. before # NoSeq => p.next <= before
    BY <2>4, <2>6, <2>7, <2>13
  <2>15. PageExact(b, before, p)
    BY <2>5, <2>8, <2>9, <2>11, <2>12, <2>13, <2>14 DEF PageExact
  <2>16. Page(b, n, before) = p
    BY <1>2, <1>4
  <2> QED
    BY <2>15, <2>16
<1> QED
  BY <1>3, <1>4

-----------------------------------------------------------------------------
(* Merging.                                                                 *)

LEMMA MergedType ==
  ASSUME NEW s \in Seq(Entries), NEW t \in Seq(Entries)
  PROVE  Merged(s, t) \in Seq(Entries)
<1> DEFINE S == {e \in Range(t) : \A i \in DOMAIN s : s[i].seq # e.seq}
<1>1. S \subseteq Entries
  BY ElementOfSeq, LenProperties DEF Range
<1>2. Merged(s, t) = s \o Selected(t, S)
  BY DEF Merged
<1> HIDE DEF S
<1>3. Selected(t, S) \in Seq(S)
  BY LenProperties, SelectedType
<1>4. Selected(t, S) \in Seq(Entries)
  BY <1>1, <1>3, SeqMonotonic
<1> QED
  BY <1>2, <1>4, ConcatProperties

LEMMA MergedBelow ==
  ASSUME NEW s \in Seq(Entries), NEW t \in Seq(Entries),
         \A i \in 1 .. Len(s), j \in 1 .. Len(t) : t[j].seq < s[i].seq
  PROVE  Merged(s, t) = s \o t
<1> DEFINE S == {e \in Range(t) : \A i \in DOMAIN s : s[i].seq # e.seq}
<1>1. Merged(s, t) = s \o Selected(t, S)
  BY DEF Merged
<1>2. DOMAIN s = 1 .. Len(s) /\ DOMAIN t = 1 .. Len(t) /\ Len(t) \in Nat
  BY LenProperties
<1>3. \A j \in 1 .. Len(t) : t[j] \in S
  <2> SUFFICES ASSUME NEW j \in 1 .. Len(t), NEW i \in 1 .. Len(s) PROVE s[i].seq # t[j].seq
    BY <1>2 DEF Range
  <2>1. t[j].seq < s[i].seq /\ t[j].seq \in Nat /\ s[i].seq \in Nat
    BY EntryNumber
  <2> QED
    BY <2>1
<1> HIDE DEF S
<1>4. t \in [1 .. Len(t) -> S]
  BY <1>2, <1>3, LenProperties
<1>5. t \in Seq(S)
  BY <1>2, <1>4, SeqDef
<1>6. Selected(t, S) = t
  BY <1>5, SelectedAll
<1> QED
  BY <1>1, <1>6

\* A run of numbers that goes down, and a second one below it, are one.
LEMMA JoinedDecreasing ==
  ASSUME NEW u \in Seq(Entries), Decreasing(u), NEW t \in Seq(Entries), Decreasing(t),
         \A i \in 1 .. Len(u), j \in 1 .. Len(t) : t[j].seq < u[i].seq
  PROVE  /\ u \o t \in Seq(Entries) /\ Decreasing(u \o t)
         /\ \A i \in 1 .. Len(u) : \E k \in 1 .. Len(u \o t) : (u \o t)[k] = u[i]
         /\ \A j \in 1 .. Len(t) : \E k \in 1 .. Len(u \o t) : (u \o t)[k] = t[j]
         /\ \A k \in 1 .. Len(u \o t) :
              \/ \E i \in 1 .. Len(u) : (u \o t)[k] = u[i]
              \/ \E j \in 1 .. Len(t) : (u \o t)[k] = t[j]
<1> DEFINE m == u \o t
<1>0. PICK A \in Nat, B \in Nat : A = Len(u) /\ B = Len(t)
  BY LenProperties
<1>1. /\ m \in Seq(Entries) /\ Len(m) = A + B
      /\ \A i \in 1 .. A + B : m[i] = IF i <= A THEN u[i] ELSE t[i - A]
  BY <1>0, ConcatProperties
<1> HIDE DEF m
<1>2. \A i, j \in 1 .. A : i < j => u[j].seq < u[i].seq
  BY <1>0 DEF Decreasing
<1>3. \A i, j \in 1 .. B : i < j => t[j].seq < t[i].seq
  BY <1>0 DEF Decreasing
<1>4. ASSUME NEW i \in 1 .. A + B, NEW j \in 1 .. A + B, i < j
      PROVE  m[j].seq < m[i].seq
  <2>1. CASE j <= A
    <3>1. i \in 1 .. A /\ j \in 1 .. A
      BY <1>4, <2>1
    <3> QED
      BY <1>1, <1>2, <1>4, <3>1
  <2>2. CASE i <= A /\ j > A
    <3>1. i \in 1 .. A /\ j - A \in 1 .. B
      BY <2>2
    <3>2. m[i] = u[i] /\ m[j] = t[j - A]
      BY <1>1, <2>2
    <3> QED
      BY <1>0, <3>1, <3>2
  <2>3. CASE i > A
    <3>1. i - A \in 1 .. B /\ j - A \in 1 .. B /\ i - A < j - A
      BY <1>4, <2>3
    <3>2. m[i] = t[i - A] /\ m[j] = t[j - A]
      BY <1>1, <1>4, <2>3
    <3> QED
      BY <1>3, <3>1, <3>2
  <2> QED
    BY <1>4, <2>1, <2>2, <2>3
<1>5. \A i \in 1 .. A : \E k \in 1 .. A + B : m[k] = u[i]
  <2> TAKE i \in 1 .. A
  <2>1. i \in 1 .. A + B /\ i <= A
    BY <1>0
  <2> QED
    BY <1>1, <2>1
<1>6. \A j \in 1 .. B : \E k \in 1 .. A + B : m[k] = t[j]
  <2> TAKE j \in 1 .. B
  <2>1. A + j \in 1 .. A + B /\ ~ (A + j <= A) /\ (A + j) - A = j
    BY <1>0
  <2> QED
    BY <1>1, <2>1
<1>7. \A k \in 1 .. A + B : (\E i \in 1 .. A : m[k] = u[i]) \/ \E j \in 1 .. B : m[k] = t[j]
  <2> TAKE k \in 1 .. A + B
  <2>1. CASE k <= A
    BY <1>1, <2>1
  <2>2. CASE k > A
    <3>1. k - A \in 1 .. B /\ m[k] = t[k - A]
      BY <1>1, <2>2
    <3> QED
      BY <3>1
  <2> QED
    BY <2>1, <2>2
<1> QED
  BY <1>0, <1>1, <1>4, <1>5, <1>6, <1>7 DEF Decreasing, m

-----------------------------------------------------------------------------
(* The page.                                                                *)

\* How far down the page has read: what it asks next is below.
Cursor == IF fetched THEN nextBeforeSeq ELSE beforeSeq

Reading == fetched \/ beforeSeq # NoSeq

\* All the log still has between the newest entry of the first page and the cursor is shown,
\* and nothing below.
Covered ==
  /\ Decreasing(entries)
  /\ Reading =>
       /\ top <= log.seq
       /\ \A j \in 1 .. Len(entries) : entries[j].seq >= Cursor
       /\ \A i \in 1 .. Len(log.entries) :
            log.entries[i].seq <= top /\ log.entries[i].seq >= Cursor
            => \E j \in 1 .. Len(entries) : entries[j] = log.entries[i]

NumberedTo(s, n) == \A i \in 1 .. Len(s) : s[i].seq <= n

ReaderInv ==
  /\ LogSound(log) /\ log.seq <= MaxSeq
  /\ CompactSound(onDisk) /\ NumberedTo(onDisk.entries, MaxSeq)
  /\ pageSize \in PageSizes /\ beforeSeq \in 0 .. MaxSeq /\ nextBeforeSeq \in 0 .. MaxSeq
  /\ entries \in Seq(Entries) /\ top \in 0 .. MaxSeq
  /\ fetched \in BOOLEAN /\ restarted \in BOOLEAN /\ settings \in 0 .. MaxSettings
  /\ ~ Reading => entries = <<>>
  /\ ~ restarted => Covered

LEMMA EmptyDecreasing ==
  ASSUME NEW s, s = <<>>
  PROVE  s \in Seq(Entries) /\ Len(s) = 0 /\ Decreasing(s)
  BY DEF Decreasing

LEMMA InitReader ==
  ASSUME ReaderInit
  PROVE  ReaderInv
<1>1. /\ log = EmptyLog /\ onDisk = Compact(EmptyLog) /\ entries = <<>>
      /\ pageSize = FirstSize /\ beforeSeq = NoSeq /\ nextBeforeSeq = NoSeq
      /\ fetched = FALSE /\ top = 0 /\ restarted = FALSE /\ settings = MaxSettings
  BY DEF ReaderInit
<1>2. LogSound(log) /\ CompactSound(onDisk) /\ log.seq = 0 /\ onDisk.entries = <<>>
  <2>1. EmptyLog.seq = 0 /\ Compact(EmptyLog).entries = <<>>
    BY DEF EmptyLog, Compact
  <2> QED
    BY <1>1, <2>1, EmptySound
<1>3. NumberedTo(onDisk.entries, MaxSeq)
  BY <1>2 DEF NumberedTo
<1>4. MaxSeq \in Nat /\ MaxSettings \in Nat /\ FirstSize \in PageSizes
  BY ReaderAssumption
<1>5. ~ Reading /\ Covered
  BY <1>1, EmptyDecreasing DEF Reading, Covered
<1>6. entries \in Seq(Entries)
  BY <1>1, EmptyDecreasing
<1>7. NoSeq \in 0 .. MaxSeq /\ 0 \in 0 .. MaxSeq /\ MaxSettings \in 0 .. MaxSettings /\ log.seq <= MaxSeq
  BY <1>2, <1>4 DEF NoSeq
<1> QED
  BY <1>1, <1>2, <1>3, <1>4, <1>5, <1>6, <1>7 DEF ReaderInv

\* What the worker does to the log between two restarts: it adds entries that are newer than all
\* of it, and drops some.
Evolves ==
  /\ log'.seq >= log.seq
  /\ \A i \in 1 .. Len(log'.entries) :
       \/ log'.entries[i].seq > log.seq
       \/ \E k \in 1 .. Len(log.entries) : log'.entries[i] = log.entries[k]

LEMMA CoveredAsLogEvolves ==
  ASSUME ReaderInv, Covered, Evolves, LogSound(log'),
         UNCHANGED <<beforeSeq, entries, nextBeforeSeq, fetched, top>>
  PROVE  Covered'
<1>0. log.seq \in Nat /\ log'.seq \in Nat /\ top \in Nat
  BY DEF ReaderInv, LogSound, Logs
<1>1. Reading' = Reading /\ Cursor' = Cursor /\ Decreasing(entries)'
  BY DEF Reading, Cursor, Covered
<1>2. CASE ~ Reading
  BY <1>1, <1>2 DEF Covered
<1>3. CASE Reading
  <2>1. top' <= log'.seq
    BY <1>0, <1>3 DEF Covered, Evolves
  <2>2. \A j \in 1 .. Len(entries') : entries'[j].seq >= Cursor
    BY <1>3 DEF Covered
  <2>3. ASSUME NEW i \in 1 .. Len(log'.entries),
               log'.entries[i].seq <= top, log'.entries[i].seq >= Cursor
        PROVE  \E j \in 1 .. Len(entries') : entries'[j] = log'.entries[i]
    <3>0. log'.entries[i].seq \in Nat
      BY EntryNumber DEF LogSound, Logs
    <3>1. CASE log'.entries[i].seq > log.seq
      <4>1. top <= log.seq
        BY <1>3 DEF Covered
      <4>2. FALSE
        BY <1>0, <2>3, <3>0, <3>1, <4>1
      <4> QED
        BY <4>2
    <3>2. CASE \E k \in 1 .. Len(log.entries) : log'.entries[i] = log.entries[k]
      BY <1>3, <2>3, <3>2 DEF Covered
    <3> QED
      BY <3>1, <3>2 DEF Evolves
  <2> QED
    BY <1>1, <2>1, <2>2, <2>3 DEF Covered
<1> QED
  BY <1>2, <1>3

LEMMA RecordedEvolves ==
  ASSUME NEW b, LogSound(b)
  PROVE  \A i \in 1 .. Len(Recorded(b).entries) :
           \/ Recorded(b).entries[i].seq > b.seq
           \/ \E k \in 1 .. Len(b.entries) : Recorded(b).entries[i] = b.entries[k]
<1>0. b.seq \in Nat /\ b.entries \in Seq(Entries) /\ b \in Logs
  BY DEF LogSound, Logs
<1> DEFINE e == [seq |-> b.seq + 1]
           g == Append(b.entries, e)
           t == IF Len(g) > b.limit THEN Tail(g) ELSE g
<1>1. Recorded(b).entries = t
  <2>1. Recorded(b) = [b EXCEPT !.seq = b.seq + 1, !.entries = t]
    BY DEF Recorded
  <2> HIDE DEF t
  <2>2. b \in [seq : {b.seq}, limit : {b.limit}, entries : {b.entries}]
    BY <1>0 DEF Logs
  <2> QED
    BY <2>1, <2>2
<1>2. e \in Entries /\ e.seq = b.seq + 1
  BY <1>0 DEF Entries
<1>3. PICK L \in Nat : L = Len(b.entries)
  BY <1>0, LenProperties
<1> HIDE DEF e
<1>4. /\ g \in Seq(Entries) /\ Len(g) = L + 1 /\ g[L + 1] = e
      /\ \A i \in 1 .. L : g[i] = b.entries[i]
  BY <1>0, <1>2, <1>3, AppendProperties
<1> HIDE DEF g
<1>5. \A i \in 1 .. L + 1 : g[i].seq > b.seq \/ \E k \in 1 .. L : g[i] = b.entries[k]
  <2> TAKE i \in 1 .. L + 1
  <2>1. CASE i = L + 1
    BY <1>0, <1>2, <1>4, <2>1
  <2>2. CASE i # L + 1
    <3>1. i \in 1 .. L
      BY <2>2
    <3> QED
      BY <1>4, <3>1
  <2> QED
    BY <2>1, <2>2
<1>6. \A i \in 1 .. Len(t) : \E k \in 1 .. L + 1 : t[i] = g[k]
  <2>1. CASE t = g
    BY <1>4, <2>1
  <2>2. CASE t = Tail(g)
    <3>1. g # <<>>
      BY <1>3, <1>4, EmptySeq
    <3>2. Len(Tail(g)) = Len(g) - 1 /\ \A i \in 1 .. Len(Tail(g)) : Tail(g)[i] = g[i + 1]
      BY <1>4, <3>1, HeadTailProperties
    <3>3. Len(Tail(g)) = L
      BY <1>4, <3>2
    <3>4. \A i \in 1 .. L : i + 1 \in 1 .. L + 1
      OBVIOUS
    <3> HIDE DEF t
    <3> QED
      BY <2>2, <3>2, <3>3, <3>4
  <2> QED
    BY <2>1, <2>2
<1> HIDE DEF t
<1> QED
  BY <1>1, <1>3, <1>5, <1>6

LEMMA LimitedEvolves ==
  ASSUME NEW b, LogSound(b), NEW n \in Int
  PROVE  \A i \in 1 .. Len(Limited(b, n).entries) :
           \E k \in 1 .. Len(b.entries) : Limited(b, n).entries[i] = b.entries[k]
<1>0. b \in Logs /\ b.entries \in Seq(Entries)
  BY DEF LogSound, Logs
<1> DEFINE c == ClampLimit(n)  t == Newest(b.entries, c)
<1>1. c \in Nat
  BY Clamped
<1>2. Limited(b, n).entries = t
  <2>1. Limited(b, n) = [b EXCEPT !.limit = c, !.entries = t]
    BY DEF Limited
  <2> HIDE DEF c, t
  <2>2. Limited(b, n) = [seq |-> b.seq, limit |-> c, entries |-> t]
    BY <1>0, <2>1, LogFields
  <2> QED
    BY <2>2
<1> HIDE DEF c
<1>3. \A i \in 1 .. Len(t) :
        /\ Len(b.entries) - Len(t) + i \in 1 .. Len(b.entries)
        /\ t[i] = b.entries[Len(b.entries) - Len(t) + i]
  BY <1>0, <1>1, NewestLast
<1> HIDE DEF t
<1> QED
  BY <1>2, <1>3

LEMMA RecordsPreserves ==
  ASSUME ReaderInv, RecordsEntry
  PROVE  ReaderInv'
<1>0. LogSound(log) /\ log.seq < MaxSeq /\ log' = Recorded(log)
  BY DEF ReaderInv, RecordsEntry
<1>1. LogSound(log') /\ log'.seq = log.seq + 1
  BY <1>0, RecordedSound
<1>2. log.seq \in Nat /\ MaxSeq \in Nat /\ log'.seq \in Nat
  BY <1>0, <1>1, ReaderAssumption DEF LogSound, Logs
<1>3. log'.seq <= MaxSeq
  BY <1>0, <1>1, <1>2
<1>4. Evolves
  BY <1>0, <1>1, <1>2, RecordedEvolves DEF Evolves
<1>5. UNCHANGED <<onDisk, pageSize, beforeSeq, entries, nextBeforeSeq, fetched, top, restarted,
                  settings>>
  BY DEF RecordsEntry
<1>6. ~ restarted' => Covered'
  BY <1>1, <1>4, <1>5, CoveredAsLogEvolves DEF ReaderInv
<1> QED
  BY <1>1, <1>3, <1>5, <1>6 DEF ReaderInv, Reading

LEMMA BoundsPreserves ==
  ASSUME ReaderInv, NEW n \in Capacities, Bounds(n)
  PROVE  ReaderInv'
<1>0. LogSound(log) /\ log' = Limited(log, n) /\ n \in Int
  BY ReaderAssumption DEF ReaderInv, Bounds
<1>1. LogSound(log') /\ log'.seq = log.seq
  BY <1>0, LimitedSound
<1>2. log.seq \in Nat
  BY <1>0 DEF LogSound, Logs
<1>3. Evolves
  BY <1>0, <1>1, <1>2, LimitedEvolves DEF Evolves
<1>4. /\ UNCHANGED <<onDisk, pageSize, beforeSeq, entries, nextBeforeSeq, fetched, top, restarted>>
      /\ settings' \in 0 .. MaxSettings
  BY ReaderAssumption DEF Bounds, ReaderInv
<1>5. ~ restarted' => Covered'
  BY <1>1, <1>3, <1>4, CoveredAsLogEvolves DEF ReaderInv
<1> QED
  BY <1>1, <1>4, <1>5 DEF ReaderInv, Reading

LEMMA PersistsPreserves ==
  ASSUME ReaderInv, Persists
  PROVE  ReaderInv'
<1>0. LogSound(log) /\ onDisk' = Compact(log) /\ log.seq <= MaxSeq /\ MaxSeq \in Nat
  BY ReaderAssumption DEF ReaderInv, Persists
<1>1. CompactSound(onDisk')
  BY <1>0, CompactOfSound
<1>2. onDisk'.entries = log.entries
  BY <1>0 DEF Compact
<1>3. NumberedTo(onDisk'.entries, MaxSeq)
  BY <1>0, <1>2 DEF NumberedTo, LogSound, Logs, InOrder
<1>4. UNCHANGED <<log, pageSize, beforeSeq, entries, nextBeforeSeq, fetched, top, restarted,
                  settings>>
  BY DEF Persists
<1> QED
  BY <1>1, <1>3, <1>4 DEF ReaderInv, Reading, Covered, Cursor

LEMMA NothingSelected ==
  ASSUME NEW S
  PROVE  Selected(<<>>, S) = <<>>
<1>1. Len(<<>>) = 0
  OBVIOUS
<1>2. PICK f : Selects(f, <<>>, S) /\ Selected(<<>>, S) = f[0]
  BY <1>1, SelectedUnrolls
<1> QED
  BY <1>2 DEF Selects

\* A process that starts restores what is on disk, and goes on from the highest number there.
LEMMA RestoredNumberedTo ==
  ASSUME NEW c, CompactSound(c), NEW n \in Nat, NumberedTo(c.entries, n)
  PROVE  Restored(EmptyLog, c).seq <= n
<1> DEFINE k == ClampLimit(c.limit)
           u == Newest(c.entries, k)
           m == u \o KeptBeside(u, EmptyLog.entries)
<1>0. c.limit \in Int /\ c.entries \in Seq(Entries) /\ Numbered(c.entries)
  BY DEF CompactSound, Compacts
<1>1. k \in Nat
  BY <1>0, Clamped
<1>2. EmptyLog.entries = <<>> /\ EmptyLog.seq = 0 /\ Len(<<>>) = 0
  BY DEF EmptyLog
<1> HIDE DEF k
<1>3. /\ u \in Seq(Entries) /\ Len(u) \in 0 .. Len(c.entries)
      /\ \A i \in 1 .. Len(u) : /\ Len(c.entries) - Len(u) + i \in 1 .. Len(c.entries)
                                /\ u[i] = c.entries[Len(c.entries) - Len(u) + i]
  BY <1>0, <1>1, NewestLast
<1>4. \A i \in 1 .. Len(u) : u[i].seq <= n
  BY <1>3 DEF NumberedTo
<1> HIDE DEF u
<1>5. KeptBeside(u, <<>>) = <<>>
  BY NothingSelected DEF KeptBeside
<1>6. m = u
  BY <1>2, <1>3, <1>5, ConcatEmptySeq
<1>7. Restored(EmptyLog, c).seq = HighestSeq(EmptyLog, m)
  BY DEF Restored, u, k
<1> HIDE DEF m
<1>8. HighestSeq(EmptyLog, u) <= n
  <2>1. CASE u = <<>>
    BY <1>2, <2>1 DEF HighestSeq
  <2>2. CASE u # <<>>
    <3>1. Len(u) \in 1 .. Len(u)
      BY <1>3, <2>2, EmptySeq
    <3>2. u[Len(u)].seq <= n
      BY <1>4, <3>1
    <3> QED
      BY <1>2, <3>2 DEF HighestSeq
  <2> QED
    BY <2>1, <2>2
<1> QED
  BY <1>6, <1>7, <1>8

LEMMA RestartsPreserves ==
  ASSUME ReaderInv, Restarts
  PROVE  ReaderInv'
<1>1. /\ log' = Restored(EmptyLog, onDisk) /\ restarted' = TRUE /\ settings' \in 0 .. MaxSettings
      /\ UNCHANGED <<onDisk, pageSize, beforeSeq, entries, nextBeforeSeq, fetched, top>>
  BY ReaderAssumption DEF Restarts, ReaderInv
<1>2. CompactSound(onDisk) /\ NumberedTo(onDisk.entries, MaxSeq) /\ MaxSeq \in Nat
  BY ReaderAssumption DEF ReaderInv
<1>3. LogSound(log')
  BY <1>1, <1>2, EmptySound, RestoredSound
<1>4. log'.seq <= MaxSeq
  BY <1>1, <1>2, RestoredNumberedTo
<1> QED
  BY <1>1, <1>3, <1>4 DEF ReaderInv, Reading

LEMMA FetchesPreserves ==
  ASSUME ReaderInv, Fetches
  PROVE  ReaderInv'
<1>0. /\ LogSound(log) /\ log.seq \in Nat /\ log.seq <= MaxSeq /\ MaxSeq \in Nat
      /\ pageSize \in Nat /\ beforeSeq \in Nat /\ beforeSeq \in 0 .. MaxSeq
      /\ entries \in Seq(Entries) /\ top \in Nat /\ fetched = FALSE
  BY ReaderAssumption DEF ReaderInv, LogSound, Logs, Fetches
<1>1. PICK p : p = Page(log, pageSize, beforeSeq)
  OBVIOUS
<1>2. PageExact(log, beforeSeq, p)
  BY <1>0, <1>1, PageIsExact
<1>3. entries' = Merged(entries, p.entries) /\ nextBeforeSeq' = p.next /\ fetched' = TRUE
  BY <1>1 DEF Fetches
<1>4. /\ p.entries \in Seq(Entries) /\ Decreasing(p.entries) /\ p.next \in 0 .. log.seq
      /\ \A j \in 1 .. Len(p.entries) :
           /\ p.entries[j].seq \in 1 .. log.seq
           /\ p.entries[j].seq >= p.next
           /\ beforeSeq # NoSeq => p.entries[j].seq < beforeSeq
  BY <1>2 DEF PageExact
<1>5. /\ top' = IF beforeSeq = NoSeq THEN log.seq ELSE top
      /\ restarted' = IF beforeSeq = NoSeq THEN FALSE ELSE restarted
      /\ UNCHANGED <<log, onDisk, pageSize, beforeSeq, settings>>
  BY DEF Fetches
<1>6. entries' \in Seq(Entries)
  BY <1>0, <1>3, <1>4, MergedType
<1>7. nextBeforeSeq' \in 0 .. MaxSeq /\ top' \in 0 .. MaxSeq
  BY <1>0, <1>3, <1>4, <1>5 DEF ReaderInv
<1>8. ASSUME ~ restarted'
      PROVE  Covered'
  <2>1. CASE beforeSeq = NoSeq
    <3>1. entries = <<>>
      BY <1>0, <2>1 DEF ReaderInv, Reading
    <3>2. \A i \in 1 .. Len(entries), j \in 1 .. Len(p.entries) : p.entries[j].seq < entries[i].seq
      BY <3>1
    <3>3. entries' = entries \o p.entries
      BY <1>0, <1>3, <1>4, <3>2, MergedBelow
    <3>4. entries' = p.entries
      BY <1>4, <3>1, <3>3, ConcatEmptySeq
    <3>5. top' = log.seq /\ log' = log /\ Cursor' = p.next
      BY <1>3, <1>5, <2>1 DEF Cursor
    <3>6. \A i \in 1 .. Len(log.entries) :
            log.entries[i].seq >= p.next => \E j \in 1 .. Len(p.entries) : p.entries[j] = log.entries[i]
      BY <1>2, <2>1 DEF PageExact
    <3>7. top' <= log'.seq
      BY <1>0, <3>5
    <3> QED
      BY <1>4, <3>4, <3>5, <3>6, <3>7 DEF Covered
  <2>2. CASE beforeSeq # NoSeq
    <3>1. /\ Covered /\ Reading /\ Cursor = beforeSeq /\ top' = top /\ log' = log
          /\ Cursor' = p.next
      BY <1>0, <1>3, <1>5, <1>8, <2>2 DEF ReaderInv, Reading, Cursor
    <3>2. ASSUME NEW i \in 1 .. Len(entries), NEW j \in 1 .. Len(p.entries)
          PROVE  p.entries[j].seq < entries[i].seq
      <4>1. entries[i].seq >= beforeSeq /\ entries[i].seq \in Nat
        BY <1>0, <3>1, EntryNumber DEF Covered
      <4>2. p.entries[j].seq < beforeSeq /\ p.entries[j].seq \in Nat
        BY <1>4, <2>2, EntryNumber
      <4> QED
        BY <1>0, <4>1, <4>2
    <3>3. entries' = entries \o p.entries
      BY <1>0, <1>3, <1>4, <3>2, MergedBelow
    <3>4. Decreasing(entries)
      BY <3>1 DEF Covered
    <3>5. /\ Decreasing(entries')
          /\ \A i \in 1 .. Len(entries) : \E k \in 1 .. Len(entries') : entries'[k] = entries[i]
          /\ \A j \in 1 .. Len(p.entries) : \E k \in 1 .. Len(entries') : entries'[k] = p.entries[j]
          /\ \A k \in 1 .. Len(entries') :
               \/ \E i \in 1 .. Len(entries) : entries'[k] = entries[i]
               \/ \E j \in 1 .. Len(p.entries) : entries'[k] = p.entries[j]
      <4>1. /\ Decreasing(entries \o p.entries)
            /\ \A i \in 1 .. Len(entries) :
                 \E k \in 1 .. Len(entries \o p.entries) : (entries \o p.entries)[k] = entries[i]
            /\ \A j \in 1 .. Len(p.entries) :
                 \E k \in 1 .. Len(entries \o p.entries) : (entries \o p.entries)[k] = p.entries[j]
            /\ \A k \in 1 .. Len(entries \o p.entries) :
                 \/ \E i \in 1 .. Len(entries) : (entries \o p.entries)[k] = entries[i]
                 \/ \E j \in 1 .. Len(p.entries) : (entries \o p.entries)[k] = p.entries[j]
        BY <1>0, <1>4, <3>2, <3>4, JoinedDecreasing
      <4> QED
        BY <3>3, <4>1, Zenon
    <3>6. ASSUME NEW k \in 1 .. Len(entries')
          PROVE  entries'[k].seq >= p.next
      <4>1. CASE \E j \in 1 .. Len(p.entries) : entries'[k] = p.entries[j]
        BY <1>4, <4>1
      <4>2. CASE \E i \in 1 .. Len(entries) : entries'[k] = entries[i]
        <5>1. PICK i \in 1 .. Len(entries) : entries'[k] = entries[i]
          BY <4>2
        <5>2. entries[i].seq >= beforeSeq /\ entries[i].seq \in Nat
          BY <1>0, <3>1, EntryNumber DEF Covered
        <5>3. p.next <= beforeSeq
          BY <1>2, <2>2 DEF PageExact
        <5> QED
          BY <1>0, <1>4, <5>1, <5>2, <5>3
      <4> QED
        BY <3>5, <4>1, <4>2
    <3>7. ASSUME NEW i \in 1 .. Len(log.entries),
                 log.entries[i].seq <= top, log.entries[i].seq >= p.next
          PROVE  \E k \in 1 .. Len(entries') : entries'[k] = log.entries[i]
      <4>0. log.entries[i].seq \in Nat
        BY <1>0, EntryNumber DEF LogSound, Logs
      <4>1. CASE log.entries[i].seq >= beforeSeq
        <5>1. PICK j \in 1 .. Len(entries) : entries[j] = log.entries[i]
          BY <3>1, <3>7, <4>1 DEF Covered
        <5> QED
          BY <3>5, <5>1
      <4>2. CASE log.entries[i].seq < beforeSeq
        <5>1. PICK j \in 1 .. Len(p.entries) : p.entries[j] = log.entries[i]
          BY <1>2, <3>7, <4>2 DEF PageExact
        <5> QED
          BY <3>5, <5>1
      <4> QED
        BY <1>0, <4>0, <4>1, <4>2
    <3>8. top' <= log'.seq
      BY <3>1 DEF Covered
    <3> QED
      BY <3>1, <3>5, <3>6, <3>7, <3>8 DEF Covered
  <2> QED
    BY <2>1, <2>2
<1>9. Reading' /\ restarted' \in BOOLEAN
  BY <1>3, <1>5 DEF Reading, ReaderInv
<1> QED
  BY <1>3, <1>5, <1>6, <1>7, <1>8, <1>9 DEF ReaderInv

LEMMA LoadMorePreserves ==
  ASSUME ReaderInv, LoadMore
  PROVE  ReaderInv'
<1>1. /\ fetched /\ nextBeforeSeq # NoSeq /\ beforeSeq' = nextBeforeSeq /\ fetched' = FALSE
      /\ UNCHANGED <<log, onDisk, pageSize, entries, nextBeforeSeq, top, restarted, settings>>
  BY DEF LoadMore
<1>2. Reading /\ Reading' /\ Cursor' = Cursor
  BY <1>1 DEF Reading, Cursor
<1>3. Covered => Covered'
  BY <1>1, <1>2 DEF Covered
<1> QED
  BY <1>1, <1>2, <1>3 DEF ReaderInv

LEMMA ResizesPreserves ==
  ASSUME ReaderInv, NEW size \in PageSizes, Resizes(size)
  PROVE  ReaderInv'
<1>1. /\ pageSize' = size /\ beforeSeq' = NoSeq /\ entries' = <<>> /\ nextBeforeSeq' = NoSeq
      /\ fetched' = FALSE /\ settings' \in 0 .. MaxSettings
      /\ UNCHANGED <<log, onDisk, top, restarted>>
  BY ReaderAssumption DEF Resizes, ReaderInv
<1>2. ~ Reading'
  BY <1>1 DEF Reading
<1>3. entries' \in Seq(Entries) /\ Decreasing(entries')
  BY <1>1, EmptyDecreasing
<1>4. Covered'
  BY <1>2, <1>3 DEF Covered
<1>5. NoSeq \in 0 .. MaxSeq
  BY ReaderAssumption DEF NoSeq
<1> QED
  BY <1>1, <1>2, <1>3, <1>4, <1>5 DEF ReaderInv

LEMMA StepReader ==
  ASSUME ReaderInv, [ReaderNext]_readerVars
  PROVE  ReaderInv'
<1>1. CASE RecordsEntry
  BY <1>1, RecordsPreserves
<1>2. CASE \E n \in Capacities : Bounds(n)
  BY <1>2, BoundsPreserves
<1>3. CASE Persists \/ Restarts
  BY <1>3, PersistsPreserves, RestartsPreserves
<1>4. CASE Fetches \/ LoadMore
  BY <1>4, FetchesPreserves, LoadMorePreserves
<1>5. CASE \E size \in PageSizes : Resizes(size)
  BY <1>5, ResizesPreserves
<1>6. CASE UNCHANGED readerVars
  BY <1>6 DEF readerVars, ReaderInv, Reading, Covered, Cursor
<1> QED
  BY <1>1, <1>2, <1>3, <1>4, <1>5, <1>6 DEF ReaderNext

(* Whoever pages back to the end of the log with Load older has seen every   *)
(* entry it still holds, and none twice, whatever is recorded and dropped   *)
(* between two pages as long as the worker does not restart (comms-store.ts *)
(* :185-215) - for any limits, page sizes and numbers of entries.           *)
THEOREM ReaderAlwaysComplete == ReaderSpec => []ReaderComplete
<1>1. ReaderInv => ReaderComplete
  <2> SUFFICES ASSUME ReaderInv, ~ restarted
               PROVE  /\ Increasing(Reverse(entries))
                      /\ fetched /\ nextBeforeSeq = NoSeq =>
                           \A i \in DOMAIN log.entries :
                             log.entries[i].seq <= top =>
                               \E j \in DOMAIN entries : entries[j] = log.entries[i]
    BY DEF ReaderComplete
  <2>1. Covered /\ entries \in Seq(Entries) /\ log.entries \in Seq(Entries)
    BY DEF ReaderInv, LogSound, Logs
  <2>2. Increasing(Reverse(entries))
    BY <2>1, ReversedDecreasing DEF Covered
  <2>3. DOMAIN entries = 1 .. Len(entries) /\ DOMAIN log.entries = 1 .. Len(log.entries)
    BY <2>1, LenProperties
  <2>4. ASSUME fetched, nextBeforeSeq = NoSeq, NEW i \in 1 .. Len(log.entries),
               log.entries[i].seq <= top
        PROVE  \E j \in 1 .. Len(entries) : entries[j] = log.entries[i]
    <3>1. Reading /\ Cursor = 0
      BY <2>4 DEF Reading, Cursor, NoSeq
    <3>2. log.entries[i].seq >= 0
      <4>1. log.entries[i].seq \in Nat
        BY <2>1, EntryNumber
      <4> QED
        BY <4>1
    <3> QED
      BY <2>1, <2>4, <3>1, <3>2 DEF Covered
  <2> QED
    BY <2>2, <2>3, <2>4
<1> QED
  BY <1>1, InitReader, StepReader, PTL DEF ReaderSpec
=============================================================================
