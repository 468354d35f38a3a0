--------------------------- MODULE RelayTransport ---------------------------
(***************************************************************************)
(* What the worker makes of a company's operator configuration: the gate   *)
(* that runs when it is saved (onValidateConfig, worker.ts) and the        *)
(* reading of it when the relay is configured (parseRelayConfig,           *)
(* relay.ts).  A token may ride a cleartext URL only to a trusted host;    *)
(* both places take that decision from isAllowedCleartextHost.             *)
(*                                                                         *)
(* A URL is its scheme and its host; a secret reference is the shape it    *)
(* has in the configuration.  "unset" is a missing field; for a URL of the *)
(* UI "blank" also counts as missing when it is read, not when saved.      *)
(***************************************************************************)
EXTENDS Integers

CONSTANTS Hosts,          \* the host names a URL may have
          LoopbackHosts,  \* localhost, 127.0.0.0/8 and ::1
          BundledHosts    \* DEFAULT_TRUSTED_CLEARTEXT_HOSTS

ASSUME HostsAssumption == LoopbackHosts # {} /\ LoopbackHosts \subseteq Hosts

Schemes == {"unset", "blank", "unparseable", "http", "https", "other"}
Urls == [scheme : Schemes, host : Hosts]
Refs == {"unset", "blank", "malformed", "ref"}

(* The fields of the operator configuration; limit 0 is one out of range.  *)
RawConfigs ==
    [enabled : BOOLEAN, tokenRef : Refs, apiRef : Refs, url : Urls,
     uiScheme : Schemes, apiUrl : Urls, trusted : SUBSET Hosts,
     optIn : BOOLEAN, limit : Nat]

-----------------------------------------------------------------------------
IsAllowedCleartextHost(host, trusted) ==
    host \in LoopbackHosts \cup BundledHosts \cup trusted

(* extractTokenRef and extractApiTokenRef: a malformed reference is none.  *)
HasRef(ref) == ref = "ref"

(* A missing URL falls back to the loopback default.                       *)
Unset(scheme) == scheme \in {"unset", "blank"}

MayCarryToken(url, trusted) ==
    \/ Unset(url.scheme)
    \/ url.scheme = "https"
    \/ url.scheme = "http" /\ IsAllowedCleartextHost(url.host, trusted)

EmbedsUi(scheme) == Unset(scheme) \/ scheme \in {"http", "https"}

(* parseRelayConfig throws RelayTransportContractError.                    *)
Rejected(raw) ==
    \/ raw.enabled /\ HasRef(raw.tokenRef) /\ ~MayCarryToken(raw.url, raw.trusted)
    \/ ~EmbedsUi(raw.uiScheme)
    \/ raw.enabled /\ HasRef(raw.apiRef) /\ ~MayCarryToken(raw.apiUrl, raw.trusted)

-----------------------------------------------------------------------------
(* onValidateConfig.  Its own conditions, written as they are there: a     *)
(* reference that is present counts as a token whatever its shape, a URL   *)
(* that is present must be an http(s) one even when no token rides it.     *)
HttpUrl(scheme) == scheme \in {"unset", "http", "https"}

ValidRef(ref) == ref \in {"unset", "ref"}

\* BUG: the host is not looked at.
TokenUrlOkUntrusted(ref, url, trusted) ==
    ref # "unset" /\ url.scheme = "http" => TRUE

TokenUrlOk(ref, url, trusted) ==
    ref # "unset" /\ url.scheme = "http" => IsAllowedCleartextHost(url.host, trusted)

ValidConfig(raw) ==
    /\ HttpUrl(raw.url.scheme)
    /\ HttpUrl(raw.uiScheme)
    /\ HttpUrl(raw.apiUrl.scheme)
    /\ TokenUrlOk(raw.tokenRef, raw.url, raw.trusted)
    /\ TokenUrlOk(raw.apiRef, raw.apiUrl, raw.trusted)
    /\ ValidRef(raw.tokenRef) /\ ValidRef(raw.apiRef)
    /\ raw.limit >= 1
=============================================================================
