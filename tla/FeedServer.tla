----------------------------- MODULE FeedServer -----------------------------
(***************************************************************************)
(* The plugin at the Pixel Agents host: its start and stop (plugin.ts,     *)
(* embedding.ts), the HTTP listener of the feed (embedding.ts) and the     *)
(* handler that validates a batch as a whole, applies it operation by      *)
(* operation to the host's sources and keeps the cache of the declared     *)
(* agents that a restart declares again (feed-server.ts, appearance.ts).   *)
(*                                                                         *)
(* The body of a request is read asynchronously, so requests may finish in *)
(* another order than they arrived; the handler itself does not wait.  The *)
(* host may refuse any call by throwing, which ends the batch there.       *)
(*                                                                         *)
(* Each declareAgents and removeAgents names one agent.                    *)
(***************************************************************************)
EXTENDS Integers, Sequences, FiniteSets, Functions

CONSTANTS
  Keys,          \* keys of agents that match AGENT_KEY_PATTERN
  Requests,      \* the requests that are made: see RequestShape
  MaxReading,    \* requests whose body is being read at a time
  MaxRefusals,   \* calls the host refuses
  MaxStops       \* times the host stops the plugin

\* The wire: where the request goes, what its body turns out to be, and the operations.
RequestShape(r) ==
  /\ r.route \in {"feed", "path", "method", "token"}
  /\ r.body \in {"batch", "large", "unreadable", "notJson", "notBatch"}
  /\ r.operations \in Seq(Range(r.operations))
  /\ \A i \in 1 .. Len(r.operations) : "op" \in DOMAIN r.operations[i]

ASSUME ServerBounds ==
  /\ \A r \in Requests : RequestShape(r)
  /\ {MaxReading, MaxRefusals, MaxStops} \subseteq Nat

VARIABLES
  plugin,      \* "registered", "started" or "stopped" at the host
  listening,   \* the server accepts connections
  office,      \* the plugin's characters at the host, by key
  cache,       \* DeclaredAgentCache, by key
  panes,       \* a line of dialog was emitted
  reading,     \* accepted requests whose body is being read
  answer,      \* status of the last answer (0: none yet)
  refusals,    \* what is left of MaxRefusals
  stops        \* what is left of MaxStops

serverVars == <<plugin, listening, office, cache, panes, reading, answer, refusals, stops>>

Absent == [look |-> "absent"]
Declared(look) == [look |-> look, status |-> "none", activity |-> "none", sheet |-> "palette"]

-----------------------------------------------------------------------------
\* validDeclaration and validateOperations: an operation that is refused says so by its
\* key, or by what it carries; removeAgents takes any string.
WellFormed(op) ==
  CASE op.op = "declareAgents"         -> op.key \in Keys /\ op.look # "malformed"
    [] op.op = "removeAgents"          -> TRUE
    [] op.op = "updateAgentStatus"     -> op.key \in Keys /\ op.status \in {"active", "waiting"}
    [] op.op = "updateAgentActivity"   -> op.key \in Keys /\ op.activity # "blank"
    [] op.op = "assignAgentAppearance" -> op.key \in Keys /\ op.character # "blank"
    [] op.op = "dialogLines"           -> op.lines # "malformed"
    [] OTHER                           -> FALSE

AllWellFormed(operations) == \A i \in 1 .. Len(operations) : WellFormed(operations[i])

\* The character ids the catalog resolves; "palette" stands for null.
Sheets == {"palette", "knight"}

\* What the host does with a call it does not refuse; a call for an agent it does not have
\* changes nothing.
OfficeAfter(shown, op) ==
  IF op.op = "declareAgents"
  THEN [shown EXCEPT ![op.key] =
          IF @ = Absent THEN Declared(op.look) ELSE [@ EXCEPT !.look = op.look]]
  ELSE IF op.op = "dialogLines" \/ op.key \notin Keys \/ shown[op.key] = Absent THEN shown
  ELSE CASE op.op = "removeAgents"        -> [shown EXCEPT ![op.key] = Absent]
         [] op.op = "updateAgentStatus"   -> [shown EXCEPT ![op.key].status = op.status]
         [] op.op = "updateAgentActivity" -> [shown EXCEPT ![op.key].activity = op.activity]
         [] op.op = "assignAgentAppearance" ->
              IF op.character \in Sheets THEN [shown EXCEPT ![op.key].sheet = op.character]
              ELSE shown

CacheAfter(kept, op) ==
  CASE op.op = "declareAgents"                      -> [kept EXCEPT ![op.key] = op.look]
    [] op.op = "removeAgents" /\ op.key \in Keys    -> [kept EXCEPT ![op.key] = "absent"]
    [] OTHER                                        -> kept

\* The office and the cache after the first n operations, one by one.
Served(operations, n) ==
  LET after[i \in 0 .. n] ==
        IF i = 0 THEN [office |-> office, cache |-> cache]
        ELSE [office |-> OfficeAfter(after[i - 1].office, operations[i]),
              cache  |-> CacheAfter(after[i - 1].cache, operations[i])]
  IN  after[n]

\* A call the host can refuse: dialog lines go through emit, which only answers false, and
\* for a character that is not in the catalog there is no call.
Refusable(op) ==
  /\ op.op # "dialogLines"
  /\ op.op = "assignAgentAppearance" => op.character \in Sheets

\* The batch is applied in order, up to the operation that is refused, if any; the cache is
\* written after the call.
Applied(operations, refused) ==
  /\ LET served == Served(operations, refused - 1)
     IN office' = served.office /\ cache' = served.cache
  /\ panes' = (panes \/ \E i \in 1 .. refused - 1 : operations[i].op = "dialogLines")
  /\ answer' = IF refused <= Len(operations) THEN 500 ELSE 200

\* A plugin that is not started has its first call refused; else the host may refuse one.
Refused(operations) ==
  LET calls == {i \in 1 .. Len(operations) : Refusable(operations[i])}
      none  == Len(operations) + 1
  IN IF plugin = "started"
     THEN {none} \cup (IF refusals > 0 THEN calls ELSE {})
     ELSE IF calls = {} THEN {none} ELSE {CHOOSE i \in calls : \A j \in calls : i <= j}

-----------------------------------------------------------------------------
ServerInit ==
  /\ plugin = "registered" /\ listening = FALSE
  /\ office = [k \in Keys |-> Absent]
  /\ cache = [k \in Keys |-> "absent"]
  /\ panes = FALSE /\ reading = {} /\ answer = 0
  /\ refusals = MaxRefusals /\ stops = MaxStops

\* BUG: the roster is not declared again.
RosterForgotten == [k \in Keys |-> Absent]

\* onStart: every agent of the cache is declared again.
RosterDeclared == [k \in Keys |-> IF cache[k] = "absent" THEN Absent ELSE Declared(cache[k])]

StartPlugin ==
  /\ plugin # "started"
  /\ plugin' = "started"
  /\ office' = RosterDeclared
  /\ UNCHANGED <<listening, cache, panes, reading, answer, refusals, stops>>

\* The last step of register, once.
Listen ==
  /\ plugin = "started" /\ ~ listening /\ stops = MaxStops
  /\ listening' = TRUE
  /\ UNCHANGED <<plugin, office, cache, panes, reading, answer, refusals, stops>>

\* The host drops the plugin's characters; onStop closes the server, which still answers what
\* it has accepted.
StopPlugin ==
  /\ plugin = "started" /\ stops > 0 /\ stops' = stops - 1
  /\ listening \/ stops < MaxStops
  /\ plugin' = "stopped" /\ listening' = FALSE
  /\ office' = [k \in Keys |-> Absent]
  /\ UNCHANGED <<cache, panes, reading, answer, refusals>>

\* The request handler: what it can refuse without the body it answers at once.
Arrive(r) ==
  /\ listening
  /\ IF r.route = "feed"
     THEN /\ r \notin reading /\ Cardinality(reading) < MaxReading
          /\ reading' = reading \cup {r} /\ UNCHANGED answer
     ELSE /\ answer' = CASE r.route = "path" -> 404 [] r.route = "method" -> 405 [] OTHER -> 401
          /\ UNCHANGED reading
  /\ UNCHANGED <<plugin, listening, office, cache, panes, refusals, stops>>

\* BUG: the operations before the first that is refused have been applied.
TurnedLate(r, status) ==
  /\ reading' = reading \ {r}
  /\ answer' = status
  /\ LET first == SelectSeq(r.operations, WellFormed)
     IN office' = Served(first, Len(first)).office
  /\ UNCHANGED <<plugin, listening, cache, panes, refusals, stops>>

Turned(r, status) ==
  /\ reading' = reading \ {r}
  /\ answer' = status
  /\ UNCHANGED <<plugin, listening, office, cache, panes, refusals, stops>>

BodyRefused(r) ==
  /\ r.body # "batch"
  /\ Turned(r, IF r.body = "large" THEN 413 ELSE 400)

OperationsRefused(r) ==
  /\ r.body = "batch" /\ ~ AllWellFormed(r.operations)
  /\ Turned(r, 400)

HandleFeed(r) ==
  /\ r.body = "batch" /\ AllWellFormed(r.operations)
  /\ reading' = reading \ {r}
  /\ \E refused \in Refused(r.operations) :
       /\ Applied(r.operations, refused)
       /\ refusals' = IF plugin = "started" /\ refused <= Len(r.operations)
                      THEN refusals - 1 ELSE refusals
  /\ UNCHANGED <<plugin, listening, stops>>

ServerNext ==
  \/ StartPlugin \/ Listen \/ StopPlugin
  \/ \E r \in Requests : Arrive(r)
  \/ \E r \in reading : BodyRefused(r) \/ OperationsRefused(r) \/ HandleFeed(r)

ServerFair == StartPlugin \/ Listen \/ \E r \in Requests : Arrive(r)

ServerSpec == ServerInit /\ [][ServerNext]_serverVars /\ WF_serverVars(ServerFair)

-----------------------------------------------------------------------------
ServerTypeOK ==
  /\ plugin \in {"registered", "started", "stopped"}
  /\ listening \in BOOLEAN /\ panes \in BOOLEAN
  /\ DOMAIN office = Keys /\ DOMAIN cache = Keys
  /\ reading \subseteq Requests /\ Cardinality(reading) <= MaxReading
  /\ answer \in {0, 200, 400, 401, 404, 405, 413, 500}
  /\ refusals \in 0 .. MaxRefusals /\ stops \in 0 .. MaxStops

\* Whatever batches the host cut short and however the plugin was stopped and started, the
\* cache holds exactly the agents the office has, each as it was last declared, so that a
\* restart declares the last-known roster (plugin.ts:15-18, feed-server.ts:75).
RosterCached ==
  plugin = "started" => \A k \in Keys : cache[k] = office[k].look

\* A request whose body was read and that is answered with a 4xx has changed nothing at the host
\* (feed-server.ts:108, "all-or-nothing").
NoTraceOfRefused ==
  [][reading # reading' /\ reading' \subseteq reading /\ answer' \in 400 .. 499
     => UNCHANGED <<office, cache, panes>>]_serverVars

\* Violated by the code: a plugin that is started again serves its feed again
\* (workdocs/ai/architecture-handbook.md:121). register listens once, and onStop closes the
\* server for good.
FeedServesAgain == plugin = "started" ~> (listening \/ plugin # "started")
=============================================================================
