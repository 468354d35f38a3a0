------------------------- MODULE MCCompanyLifecycle -------------------------
(***************************************************************************)
(* The lifecycle of one company with one run, on small instances: it       *)
(* starts with a relay that needs no token.                                *)
(***************************************************************************)
EXTENDS CompanyLifecycle

CONSTANTS loopback, remote

Tokenless == [enabled |-> TRUE, tokenRef |-> "unset", apiRef |-> "unset",
              url |-> [scheme |-> "http", host |-> loopback], uiScheme |-> "http",
              apiUrl |-> [scheme |-> "unset", host |-> loopback], trusted |-> {},
              optIn |-> FALSE, limit |-> 2]

\* Differs by the opt-in, and by the size of the log, only.
OptedIn == [Tokenless EXCEPT !.optIn = TRUE, !.limit = 1]

\* Both secrets are asked for.
Both == [Tokenless EXCEPT !.tokenRef = "ref", !.apiRef = "ref"]

\* Switched off, and pointing at another host.
Off == [Both EXCEPT !.enabled = FALSE, !.url = [scheme |-> "https", host |-> remote]]

\* The gate has to refuse it: a secret would go in cleartext to a host nobody trusts.
Leaky == [Both EXCEPT !.url = [scheme |-> "http", host |-> remote]]

TriedConfigs == {Tokenless, OptedIn, Both, Off, Leaky}
TokenlessFirst == {Tokenless}
=============================================================================
