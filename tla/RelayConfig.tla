----------------------------- MODULE RelayConfig -----------------------------
(***************************************************************************)
(* The relay a company has (relay.ts): every entry configure() installed,  *)
(* in the order it did, with the state of its sink, of its tool-activity   *)
(* poller and the runs the poller tracks; and which of them the company's  *)
(* entry in BridgeRelay.companies is (0: none).  An entry that is no       *)
(* longer the current one lives on as long as its sink is not disposed or  *)
(* its poller's timer not cleared.                                         *)
(*                                                                         *)
(* configure() awaits the two secrets.  A call keeps what it read before:  *)
(* the raw configuration and the entry that existed then.                  *)
(***************************************************************************)
EXTENDS RelayTransport, Sequences, FiniteSets

CONSTANTS Runs,       \* runs of the company's agents
          Tokens,     \* what a secret reference may resolve to
          NoToken

ASSUME TokensAssumption == NoToken \notin Tokens

Resolved == Tokens \cup {NoToken}
Sinks == {"live", "disposed"}
Pollers == {"none", "running", "stopped"}

RelayEntries ==
    [raw : RawConfigs, token : Resolved, api : Resolved, sink : Sinks,
     poller : Pollers, tracked : SUBSET Runs]

Relays == {r \in [entries : Seq(RelayEntries), current : Nat] : r.current <= Len(r.entries)}

NoRelay == [entries |-> <<>>, current |-> 0]

-----------------------------------------------------------------------------
\* BUG: the poller's timer is not cleared.
ClosedSinkOnly(entry) == [entry EXCEPT !.sink = "disposed"]

\* existing?.sink.dispose(); existing?.toolActivityPoller?.stop()
Closed(entry) ==
    [entry EXCEPT !.sink = "disposed",
                  !.poller = IF @ = "running" THEN "stopped" ELSE @]

Disposed(entries, i) == IF i = 0 THEN entries ELSE [entries EXCEPT ![i] = Closed(@)]

\* The entry the call knows of is disposed, the company's entry deleted.
SwitchedOff(relay, i) == [entries |-> Disposed(relay.entries, i), current |-> 0]

\* A synchronous end of the call: rejected by the contract, or disabled.
EndsAtOnce(raw) == Rejected(raw) \/ ~raw.enabled

\* What the call awaits first, if anything.
NextAwait(raw) == IF HasRef(raw.apiRef) THEN {"api"} ELSE {}

FirstAwait(raw) == IF HasRef(raw.tokenRef) THEN {"token"} ELSE NextAwait(raw)

\* The comparison of the configured fields; blank URLs have fallen back to their defaults.
SameUrl(a, b) == \/ a = b
                 \/ Unset(a.scheme) /\ Unset(b.scheme)

SameSettings(a, b) ==
    /\ SameUrl(a.url, b.url) /\ SameUrl(a.apiUrl, b.apiUrl)
    /\ a.uiScheme = b.uiScheme
    /\ a.trusted = b.trusted
    /\ a.optIn = b.optIn /\ a.limit = b.limit

\* BUG: only what the transport needs is compared.
UnchangedTransport(entry, raw, token, api) ==
    /\ entry.token = token /\ entry.api = api
    /\ SameUrl(entry.raw.url, raw.url) /\ SameUrl(entry.raw.apiUrl, raw.apiUrl)

Unchanged(entry, raw, token, api) ==
    entry.token = token /\ entry.api = api /\ SameSettings(entry.raw, raw)

NewEntry(raw, token, api) ==
    [raw |-> raw, token |-> token, api |-> api, sink |-> "live",
     poller |-> IF api = NoToken THEN "none" ELSE "running", tracked |-> {}]

\* BUG: the entry that is replaced is not disposed.
InstalledOver(relay, call, api) ==
    [entries |-> Append(relay.entries, NewEntry(call.raw, call.token, api)),
     current |-> Len(relay.entries) + 1]

\* The rest of configure once the secrets are there: an entry that is unchanged stays,
\* any other is replaced. What is compared and disposed is the entry the call saw. (The manifest
\* of the plugin declares http.outbound, so the check of relay.ts:714 lets every call pass.)
Installed(relay, call, api) ==
    IF call.saw # 0 /\ Unchanged(relay.entries[call.saw], call.raw, call.token, api)
    THEN relay
    ELSE [entries |-> Append(Disposed(relay.entries, call.saw),
                             NewEntry(call.raw, call.token, api)),
          current |-> Len(relay.entries) + 1]

-----------------------------------------------------------------------------
\* trackActiveRun and untrackActiveRun reach the current entry's poller, if it has one.
Tracking(relay, runs) ==
    IF relay.current = 0 \/ relay.entries[relay.current].poller = "none" THEN relay
    ELSE [relay EXCEPT !.entries[relay.current].tracked = @ \cup runs]

Untracking(relay, run) ==
    IF relay.current = 0 THEN relay
    ELSE [relay EXCEPT !.entries[relay.current].tracked = @ \ {run}]

\* disposeAll: every company's current entry.
ShutDown(relay) == SwitchedOff(relay, relay.current)

-----------------------------------------------------------------------------
Live(entry) == entry.sink = "live" \/ entry.poller = "running"

\* The current entry pushes and polls as its tokens say; one whose sink is closed has no
\* poller running either.
EntryCoherent(entry) ==
    /\ (entry.poller = "none") = (entry.api = NoToken)
    /\ entry.sink = "disposed" => entry.poller # "running"
    /\ entry.tracked # {} => entry.api # NoToken
=============================================================================
