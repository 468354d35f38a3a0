---------------------------- MODULE ServicesProofs ----------------------------
(***************************************************************************)
(* What is proved about the services around the mirror, for every value of *)
(* the constants: the feed's server at the host, the poller of the runs'   *)
(* logs, the intake of messages and replies, the character composer, the   *)
(* characters of a company's agents and the page; and the types of all.    *)
(***************************************************************************)
EXTENDS MCServices, SequenceInduction, SequenceTheorems, FiniteSetTheorems, TLAPS

-----------------------------------------------------------------------------
(* FeedServer.                                                             *)

Operations == UNION {Range(r.operations) : r \in Requests}
Looks == {op.look : op \in Operations}
Activities == {op.activity : op \in Operations} \cup {"none"}
Figures ==
  {Absent} \cup [look : Looks, status : {"none", "active", "waiting"}, activity : Activities,
                 sheet : Sheets]
Hosts == [office : [Keys -> Figures], cache : [Keys -> Looks \cup {"absent"}]]

\* The cache has what the office shows.
Cached(host) == \A k \in Keys : host.cache[k] = host.office[k].look

Host == [office |-> office, cache |-> cache]

ServedBy(host, op) == [office |-> OfficeAfter(host.office, op), cache |-> CacheAfter(host.cache, op)]

ServerInv ==
  /\ ServerTypeOK
  /\ Host \in Hosts
  /\ plugin = "started" => Cached(Host)
  /\ IsFiniteSet(reading)

LEMMA FigureAssigned ==
  ASSUME NEW drawn \in [Keys -> Figures], NEW k \in Keys, NEW f \in Figures
  PROVE  [drawn EXCEPT ![k] = f] \in [Keys -> Figures]
  OBVIOUS

\* An operation that is well-formed leaves the office and the cache of their types, and the cache
\* with what the office shows.
LEMMA OperationServed ==
  ASSUME NEW host \in Hosts, NEW op \in Operations, WellFormed(op)
  PROVE  /\ ServedBy(host, op) \in Hosts
         /\ Cached(host) => Cached(ServedBy(host, op))
<1> DEFINE drawn == host.office  known == host.cache
           drawn2 == OfficeAfter(drawn, op)  known2 == CacheAfter(known, op)
<1>0. drawn \in [Keys -> Figures] /\ known \in [Keys -> Looks \cup {"absent"}]
  BY DEF Hosts
<1> SUFFICES /\ drawn2 \in [Keys -> Figures] /\ known2 \in [Keys -> Looks \cup {"absent"}]
             /\ (\A k \in Keys : known[k] = drawn[k].look) =>
                  \A k \in Keys : known2[k] = drawn2[k].look
  BY DEF ServedBy, Hosts, Cached
<1>1. CASE op.op = "declareAgents"
  <2>1. op.key \in Keys /\ op.look \in Looks
    BY <1>1 DEF WellFormed, Looks
  <2> DEFINE f == IF drawn[op.key] = Absent THEN Declared(op.look)
                  ELSE [drawn[op.key] EXCEPT !.look = op.look]
  <2>2. f \in Figures /\ f.look = op.look
    <3>1. CASE drawn[op.key] = Absent
      BY <3>1, <2>1 DEF Declared, Figures, Activities, Sheets
    <3>2. CASE drawn[op.key] # Absent
      BY <3>2, <1>0, <2>1 DEF Figures
    <3> QED
      BY <3>1, <3>2
  <2>3. drawn2 = [drawn EXCEPT ![op.key] = f] /\ known2 = [known EXCEPT ![op.key] = op.look]
    BY <1>1 DEF OfficeAfter, CacheAfter
  <2> HIDE DEF f, drawn, known, drawn2, known2
  <2> QED
    BY <1>0, <2>1, <2>2, <2>3
<1>2. CASE op.op = "dialogLines"
  BY <1>0, <1>2 DEF OfficeAfter, CacheAfter
<1>3. CASE op.op = "removeAgents"
  <2>1. CASE op.key \notin Keys
    BY <1>0, <1>3, <2>1 DEF OfficeAfter, CacheAfter
  <2>2. CASE op.key \in Keys /\ drawn[op.key] = Absent
    <3>1. drawn2 = drawn /\ known2 = [known EXCEPT ![op.key] = "absent"]
      BY <1>3, <2>2 DEF OfficeAfter, CacheAfter
    <3> HIDE DEF drawn2, known2, drawn, known
    <3> QED
      BY <1>0, <2>2, <3>1 DEF Absent
  <2>3. CASE op.key \in Keys /\ drawn[op.key] # Absent
    <3>1. drawn2 = [drawn EXCEPT ![op.key] = Absent] /\ known2 = [known EXCEPT ![op.key] = "absent"]
      BY <1>3, <2>3 DEF OfficeAfter, CacheAfter
    <3>2. Absent \in Figures /\ Absent.look = "absent"
      BY DEF Figures, Absent
    <3> HIDE DEF drawn2, known2, drawn, known
    <3> QED
      BY <1>0, <2>3, <3>1, <3>2
  <2> QED
    BY <2>1, <2>2, <2>3
<1>4. CASE op.op \in {"updateAgentStatus", "updateAgentActivity", "assignAgentAppearance"}
  <2>1. op.key \in Keys /\ known2 = known
    BY <1>4 DEF WellFormed, CacheAfter
  <2>2. CASE drawn2 = drawn
    BY <1>0, <2>1, <2>2
  <2>3. CASE drawn2 # drawn
    <3>1. drawn[op.key] # Absent
      BY <1>4, <2>3 DEF OfficeAfter
    <3>2. drawn[op.key] \in [look : Looks, status : {"none", "active", "waiting"},
                             activity : Activities, sheet : Sheets]
      BY <1>0, <2>1, <3>1 DEF Figures
    <3>3. \E f \in Figures : f.look = drawn[op.key].look /\ drawn2 = [drawn EXCEPT ![op.key] = f]
      <4>1. CASE op.op = "updateAgentStatus"
        <5> DEFINE f == [drawn[op.key] EXCEPT !.status = op.status]
        <5>1. op.status \in {"active", "waiting"}
          BY <4>1 DEF WellFormed
        <5>2. f \in Figures /\ f.look = drawn[op.key].look
          BY <3>2, <5>1 DEF Figures
        <5>3. drawn2 = [drawn EXCEPT ![op.key] = f]
          BY <2>1, <3>1, <4>1 DEF OfficeAfter
        <5> HIDE DEF f
        <5> QED
          BY <5>2, <5>3
      <4>2. CASE op.op = "updateAgentActivity"
        <5> DEFINE f == [drawn[op.key] EXCEPT !.activity = op.activity]
        <5>1. op.activity \in Activities
          BY <4>2 DEF Activities
        <5>2. f \in Figures /\ f.look = drawn[op.key].look
          BY <3>2, <5>1 DEF Figures
        <5>3. drawn2 = [drawn EXCEPT ![op.key] = f]
          BY <2>1, <3>1, <4>2 DEF OfficeAfter
        <5> HIDE DEF f
        <5> QED
          BY <5>2, <5>3
      <4>3. CASE op.op = "assignAgentAppearance"
        <5> DEFINE f == [drawn[op.key] EXCEPT !.sheet = op.character]
        <5>1. op.character \in Sheets
          BY <2>1, <2>3, <4>3 DEF OfficeAfter
        <5>2. f \in Figures /\ f.look = drawn[op.key].look
          BY <3>2, <5>1 DEF Figures
        <5>3. drawn2 = [drawn EXCEPT ![op.key] = f]
          BY <2>1, <3>1, <4>3, <5>1 DEF OfficeAfter
        <5> HIDE DEF f
        <5> QED
          BY <5>2, <5>3
      <4> QED
        BY <1>4, <4>1, <4>2, <4>3
    <3> HIDE DEF drawn, drawn2, known, known2
    <3> QED
      BY <1>0, <2>1, <3>3
  <2> QED
    BY <2>2, <2>3
<1> QED
  BY <1>1, <1>2, <1>3, <1>4 DEF WellFormed

LEMMA OperationsServed ==
  ASSUME Host \in Hosts, NEW operations, NEW n \in Nat,
         \A i \in 1 .. n : operations[i] \in Operations /\ WellFormed(operations[i])
  PROVE  \E host \in Hosts : Served(operations, n) = host /\ (Cached(Host) => Cached(host))
<1> DEFINE Rec(g) == g = [i \in 0 .. n |->
                            IF i = 0 THEN Host
                            ELSE [office |-> OfficeAfter(g[i - 1].office, operations[i]),
                                  cache  |-> CacheAfter(g[i - 1].cache, operations[i])]]
           f == CHOOSE g : Rec(g)
           F == [i \in 1 .. n |-> [host \in Hosts |-> ServedBy(host, operations[i])]]
<1>1. Served(operations, n) = f[n]
  BY DEF Served, Host
<1>2. F \in [1 .. n -> [Hosts -> Hosts]]
  BY OperationServed
<1>3. PICK g : Unrolls(g, Hosts, n, Host, F)
  <2> HIDE DEF F
  <2> QED
    BY <1>2, RecursionExists
<1>4. Rec(g)
  <2>1. g \in [0 .. n -> Hosts] /\ g[0] = Host
    BY <1>3 DEF Unrolls
  <2>2. ASSUME NEW i \in 1 .. n
        PROVE  g[i] = ServedBy(g[i - 1], operations[i])
    <3>1. g[i] = F[i][g[i - 1]] /\ g[i - 1] \in Hosts
      BY <1>3 DEF Unrolls
    <3> QED
      BY <3>1
  <2>3. \A i \in 0 .. n : g[i] = IF i = 0 THEN Host
                                 ELSE [office |-> OfficeAfter(g[i - 1].office, operations[i]),
                                       cache  |-> CacheAfter(g[i - 1].cache, operations[i])]
    <3> TAKE i \in 0 .. n
    <3>1. CASE i = 0
      BY <2>1, <3>1
    <3>2. CASE i # 0
      <4>1. i \in 1 .. n
        BY <3>2
      <4> QED
        BY <2>2, <3>2, <4>1 DEF ServedBy
    <3> QED
      BY <3>1, <3>2
  <2> QED
    BY <2>1, <2>3
<1>5. Rec(f)
  BY <1>4
<1> HIDE DEF f
<1>6. f[0] = Host /\ \A i \in 1 .. n : f[i] = ServedBy(f[i - 1], operations[i])
  BY <1>5 DEF ServedBy
<1> DEFINE P == {i \in 0 .. n : f[i] \in Hosts /\ (Cached(Host) => Cached(f[i]))}
<1>7. 0 \in P
  BY <1>6
<1>8. ASSUME NEW i \in 0 .. n - 1, i \in P
      PROVE  i + 1 \in P
  <2>1. f[i + 1] = ServedBy(f[i], operations[i + 1])
    BY <1>6
  <2>2. operations[i + 1] \in Operations /\ WellFormed(operations[i + 1])
    OBVIOUS
  <2> QED
    BY <1>8, <2>1, <2>2, OperationServed
<1>9. n \in P
  <2> HIDE DEF P
  <2>1. \A i \in 0 .. n : i \in P
    BY <1>7, <1>8, Induction
  <2> QED
    BY <2>1
<1> QED
  BY <1>1, <1>9

\* A cast that is declared anew from the cache shows what is in it.
LEMMA RosterShown ==
  ASSUME Host \in Hosts
  PROVE  /\ RosterDeclared \in [Keys -> Figures]
         /\ \A k \in Keys : cache[k] = RosterDeclared[k].look
<1>1. cache \in [Keys -> Looks \cup {"absent"}]
  BY DEF Host, Hosts
<1>2. ASSUME NEW k \in Keys
      PROVE  /\ RosterDeclared[k] \in Figures /\ cache[k] = RosterDeclared[k].look
  <2>1. CASE cache[k] = "absent"
    BY <2>1 DEF RosterDeclared, Absent, Figures
  <2>2. CASE cache[k] # "absent"
    BY <1>1, <2>2 DEF RosterDeclared, Declared, Figures, Activities, Sheets
  <2> QED
    BY <2>1, <2>2
<1> QED
  BY <1>2 DEF RosterDeclared

-----------------------------------------------------------------------------
LEMMA InitServer == ServerInit => ServerInv
<1> SUFFICES ASSUME ServerInit PROVE ServerInv
  OBVIOUS
<1>1. Host \in Hosts
  BY DEF ServerInit, Host, Hosts, Figures
<1>2. IsFiniteSet({}) /\ Cardinality({}) = 0
  BY FS_EmptySet
<1>3. /\ MaxReading \in Nat /\ MaxRefusals \in Nat /\ MaxStops \in Nat
      /\ reading = {} /\ DOMAIN office = Keys /\ DOMAIN cache = Keys
  BY ServerBounds DEF ServerInit
<1>4. Cardinality(reading) <= MaxReading
  <2>1. Cardinality(reading) = 0
    BY <1>2, <1>3, Zenon
  <2> QED
    BY <1>3, <2>1
<1>6. /\ plugin = "registered" /\ listening \in BOOLEAN /\ panes \in BOOLEAN /\ answer = 0
      /\ refusals = MaxRefusals /\ stops = MaxStops
  BY DEF ServerInit
<1>5. ServerTypeOK
  BY <1>3, <1>4, <1>6 DEF ServerTypeOK
<1> QED
  BY <1>1, <1>2, <1>5 DEF ServerInit, ServerInv

LEMMA HandleFeedSound ==
  ASSUME ServerInv, NEW r \in reading, HandleFeed(r)
  PROVE  /\ ServerInv'
         /\ answer' \in {200, 500}
<1> DEFINE N == Len(r.operations)
<1>1. /\ r \in Requests /\ MaxReading \in Nat /\ MaxRefusals \in Nat /\ refusals \in 0 .. MaxRefusals
  BY ServerBounds DEF ServerInv, ServerTypeOK
<1>2. r.operations \in Seq(Range(r.operations))
  BY <1>1, ServerBounds DEF RequestShape
<1>3. N \in Nat /\ DOMAIN r.operations = 1 .. N
  BY <1>2
<1>4. PICK refused \in Refused(r.operations) :
        /\ Applied(r.operations, refused)
        /\ refusals' = IF plugin = "started" /\ refused <= Len(r.operations)
                       THEN refusals - 1 ELSE refusals
  BY DEF HandleFeed
<1>5. /\ refused \in 1 .. N + 1
      /\ plugin = "started" /\ refused <= N => refusals > 0
  <2> DEFINE calls == {i \in 1 .. N : Refusable(r.operations[i])}
  <2>1. CASE plugin = "started"
    BY <1>3, <1>4, <2>1 DEF Refused
  <2>2. CASE plugin # "started" /\ calls = {}
    BY <1>3, <1>4, <2>2 DEF Refused
  <2>3. CASE plugin # "started" /\ calls # {}
    <3>1. refused = CHOOSE i \in calls : \A j \in calls : i <= j
      BY <1>4, <2>3 DEF Refused
    <3>2. PICK m \in calls : \A j \in calls : m <= j
      <4>1. calls \subseteq Nat
        BY <1>3
      <4> HIDE DEF calls
      <4> QED
        BY <2>3, <4>1, LeastElement
    <3>3. refused \in calls
      <4> HIDE DEF calls
      <4> QED
        BY <3>1, <3>2, Zenon
    <3> QED
      BY <1>3, <2>3, <3>3
  <2> QED
    BY <2>1, <2>2, <2>3
<1>6. \A i \in 1 .. refused - 1 : r.operations[i] \in Operations /\ WellFormed(r.operations[i])
  <2> TAKE i \in 1 .. refused - 1
  <2>1. i \in 1 .. N
    BY <1>3, <1>5
  <2>2. WellFormed(r.operations[i])
    BY <2>1 DEF HandleFeed, AllWellFormed
  <2>3. r.operations[i] \in Range(r.operations)
    BY <1>3, <2>1 DEF Range
  <2> QED
    BY <1>1, <2>2, <2>3 DEF Operations
<1>7. PICK host \in Hosts : /\ Served(r.operations, refused - 1) = host
                            /\ Cached(Host) => Cached(host)
  <2>1. refused - 1 \in Nat
    BY <1>3, <1>5
  <2> QED
    BY <1>6, <2>1, OperationsServed DEF ServerInv
<1>8. office' = host.office /\ cache' = host.cache
  BY <1>4, <1>7 DEF Applied
<1>9. Host' = host
  BY <1>8 DEF Host, Hosts
<1>10. Host' \in Hosts /\ (Cached(Host) => Cached(Host'))
  BY <1>7, <1>9
<1>11. IsFiniteSet(reading') /\ Cardinality(reading') <= MaxReading
  <2>1. IsFiniteSet(reading) /\ Cardinality(reading) <= MaxReading /\ reading' = reading \ {r}
    BY DEF ServerInv, ServerTypeOK, HandleFeed
  <2>2. /\ IsFiniteSet(reading') /\ Cardinality(reading) \in Nat
        /\ Cardinality(reading') = Cardinality(reading) - 1
    BY <2>1, FS_RemoveElement, FS_CardinalityType
  <2> QED
    BY <1>1, <2>1, <2>2
<1>12. answer' \in {200, 500} /\ panes' \in BOOLEAN
  BY <1>4 DEF Applied, ServerInv, ServerTypeOK
<1>13. refusals' \in 0 .. MaxRefusals
  BY <1>1, <1>4, <1>5
<1>14. office' \in [Keys -> Figures] /\ cache' \in [Keys -> Looks \cup {"absent"}]
  BY <1>8 DEF Hosts
<1>15. ServerTypeOK'
  BY <1>11, <1>12, <1>13, <1>14 DEF HandleFeed, ServerInv, ServerTypeOK
<1> QED
  BY <1>10, <1>11, <1>12, <1>15 DEF HandleFeed, ServerInv, Cached

LEMMA StepServer == ServerInv /\ [ServerNext]_serverVars => ServerInv'
<1> SUFFICES ASSUME ServerInv, [ServerNext]_serverVars PROVE ServerInv'
  OBVIOUS
<1>0. /\ Host \in Hosts /\ office \in [Keys -> Figures]
      /\ cache \in [Keys -> Looks \cup {"absent"}]
      /\ IsFiniteSet(reading) /\ Cardinality(reading) \in Nat /\ MaxReading \in Nat
      /\ Cardinality(reading) <= MaxReading /\ reading \subseteq Requests
  BY ServerBounds, FS_CardinalityType DEF ServerInv, ServerTypeOK, Host, Hosts
<1>1. CASE StartPlugin
  <2>1. Host' \in Hosts /\ Cached(Host)' /\ DOMAIN office' = Keys
    BY <1>0, <1>1, RosterShown DEF StartPlugin, Host, Hosts, Cached
  <2> QED
    BY <1>1, <2>1 DEF StartPlugin, ServerInv, ServerTypeOK
<1>2. CASE Listen
  BY <1>2 DEF Listen, ServerInv, ServerTypeOK, Host, Cached
<1>3. CASE StopPlugin
  <2>1. Host' \in Hosts /\ DOMAIN office' = Keys
    BY <1>0, <1>3 DEF StopPlugin, Host, Hosts, Figures
  <2>2. stops' \in 0 .. MaxStops
    BY <1>3, ServerBounds DEF StopPlugin, ServerInv, ServerTypeOK
  <2>4. Cardinality(reading') <= MaxReading
    BY <1>0, <1>3 DEF StopPlugin
  <2>5. /\ plugin' = "stopped" /\ listening' \in BOOLEAN
        /\ UNCHANGED <<cache, panes, reading, answer, refusals>>
    BY <1>3 DEF StopPlugin
  <2>3. ServerTypeOK'
    BY <2>1, <2>2, <2>4, <2>5 DEF ServerInv, ServerTypeOK
  <2> QED
    BY <1>0, <1>3, <2>1, <2>3 DEF StopPlugin, ServerInv
<1>4. ASSUME NEW r \in Requests, Arrive(r) PROVE ServerInv'
  <2>1. CASE r.route = "feed"
    <3>1. IsFiniteSet(reading') /\ Cardinality(reading') = Cardinality(reading) + 1
      BY <1>0, <1>4, <2>1, FS_AddElement DEF Arrive
    <3>2. Cardinality(reading') <= MaxReading /\ reading' \subseteq Requests
      BY <1>0, <1>4, <2>1, <3>1 DEF Arrive
    <3> QED
      BY <1>4, <2>1, <3>1, <3>2 DEF Arrive, ServerInv, ServerTypeOK, Host, Cached
  <2>2. CASE r.route # "feed"
    <3>1. answer' \in {401, 404, 405}
      BY <1>4, <2>2 DEF Arrive
    <3> QED
      BY <1>4, <2>2, <3>1 DEF Arrive, ServerInv, ServerTypeOK, Host, Cached
  <2> QED
    BY <2>1, <2>2
<1>5. ASSUME NEW r \in reading, NEW code \in {400, 413}, Turned(r, code) PROVE ServerInv'
  <2>1. /\ IsFiniteSet(reading') /\ Cardinality(reading') = Cardinality(reading) - 1
    BY <1>0, <1>5, FS_RemoveElement DEF Turned
  <2>2. Cardinality(reading') <= MaxReading /\ reading' \subseteq Requests
    BY <1>0, <1>5, <2>1 DEF Turned
  <2> QED
    BY <1>5, <2>1, <2>2 DEF Turned, ServerInv, ServerTypeOK, Host, Cached
<1>6. ASSUME NEW r \in reading, BodyRefused(r) \/ OperationsRefused(r) PROVE ServerInv'
  BY <1>5, <1>6 DEF BodyRefused, OperationsRefused
<1>7. ASSUME NEW r \in reading, HandleFeed(r) PROVE ServerInv'
  BY <1>7, HandleFeedSound
<1>8. CASE UNCHANGED serverVars
  BY <1>8 DEF serverVars, ServerInv, ServerTypeOK, Host, Cached
<1> QED
  BY <1>1, <1>2, <1>3, <1>4, <1>6, <1>7, <1>8 DEF ServerNext

\* Whatever batches are cut short by an operation the host rejects, and however often the plugin is
\* stopped and started, a started plugin caches exactly the agents its office has, each as it was
\* last declared (plugin.ts:15-18, feed-server.ts:75).
THEOREM RosterAlwaysCached == ServerSpec => []RosterCached
<1>1. ServerInv => RosterCached
  BY DEF ServerInv, Cached, Host, RosterCached
<1> QED
  BY InitServer, StepServer, <1>1, PTL DEF ServerSpec

\* No step that refuses a request with a 4xx changes the office or the cache, whatever its body
\* holds (feed-server.ts:108).
THEOREM RefusedLeaveNoTrace == ServerSpec => NoTraceOfRefused
<1>1. ServerInv /\ [ServerNext]_serverVars =>
        [reading # reading' /\ reading' \subseteq reading /\ answer' \in 400 .. 499
           => UNCHANGED <<office, cache, panes>>]_serverVars
  <2> SUFFICES ASSUME ServerInv, ServerNext, reading # reading', reading' \subseteq reading,
                      answer' \in 400 .. 499
               PROVE  UNCHANGED <<office, cache, panes>>
    OBVIOUS
  <2>1. \A r \in Requests : ~ Arrive(r)
    BY DEF Arrive
  <2>2. ~ StartPlugin /\ ~ Listen /\ ~ StopPlugin
    BY DEF StartPlugin, Listen, StopPlugin
  <2>3. \A r \in reading : ~ HandleFeed(r)
    BY HandleFeedSound
  <2>4. PICK r \in reading : BodyRefused(r) \/ OperationsRefused(r)
    BY <2>1, <2>2, <2>3 DEF ServerNext
  <2> QED
    BY <2>4 DEF BodyRefused, OperationsRefused, Turned
<1> QED
  BY InitServer, StepServer, <1>1, PTL DEF ServerSpec, NoTraceOfRefused

-----------------------------------------------------------------------------
(* ToolActivityPoller.                                                     *)

-----------------------------------------------------------------------------
(* What a page yields, whatever it is.                                      *)

LEMMA LinesType ==
  ASSUME NEW parts \in Seq(LogParts)
  PROVE  LinesOf(parts) \in Seq(Calls)
<1> DEFINE seq == [i \in 1 .. Len(parts) |-> IF RecordEndingAt(parts, i) THEN parts[i].call ELSE 0]
<1>1. Len(seq) \in Nat
  OBVIOUS
<1> HIDE DEF seq
<1>2. Selected(seq, Calls) \in Seq(Calls)
  BY <1>1, SelectedType
<1> QED
  BY <1>2 DEF LinesOf, seq

LEMMA NewType ==
  ASSUME NEW calls \in Seq(Calls), NEW last
  PROVE  NewCalls(last, calls) \in Seq(Calls)
<1> DEFINE seq == [i \in 1 .. Len(calls) |->
                     IF (<<last>> \o calls)[i] = calls[i] THEN 0 ELSE calls[i]]
<1>1. Len(seq) \in Nat
  OBVIOUS
<1>2. NewCalls(last, calls) = Selected(seq, Calls)
  BY DEF NewCalls
<1> HIDE DEF seq
<1> QED
  BY <1>1, <1>2, SelectedType

\* ... and of the log from a newline on.

LEMMA EvenAhead ==
  ASSUME NEW m \in Nat, NEW i \in Nat
  PROVE  (2 * m + i) % 2 = i % 2 /\ (2 * m + i) \div 2 = m + (i \div 2)
  OBVIOUS

LEMMA Halves ==
  ASSUME NEW i \in Nat
  PROVE  /\ i % 2 = 0 => (i + 1) \div 2 = i \div 2
         /\ \A n \in Nat : i \in 1 .. 2 * n => (i + 1) \div 2 \in 1 .. n
  OBVIOUS

LEMMA PartAhead ==
  ASSUME NEW m \in Nat, NEW i \in Nat
  PROVE  /\ Part(2 * m + i).call = m + ((i + 1) \div 2)
         /\ Part(2 * m + i).back <=> i % 2 = 0
<1>1. (2 * m + i) % 2 = i % 2
  BY EvenAhead
<1>2. (2 * m + (i + 1)) \div 2 = m + ((i + 1) \div 2)
  BY EvenAhead
<1>3. (2 * m + i) + 1 = 2 * m + (i + 1)
  OBVIOUS
<1> QED
  BY <1>1, <1>2, <1>3 DEF Part

LEMMA LinesInOrder ==
  ASSUME NEW m \in Nat, NEW parts \in Seq(LogParts),
         \A i \in 1 .. Len(parts) : parts[i] = Part(2 * m + i)
  PROVE  LinesOf(parts) = [j \in 1 .. (Len(parts) \div 2) |-> m + j]
<1> DEFINE N == Len(parts)
           seq == [i \in 1 .. N |-> IF RecordEndingAt(parts, i) THEN parts[i].call ELSE 0]
<1>1. N \in Nat
  OBVIOUS
<1>2. ASSUME NEW i \in 1 .. N
      PROVE  seq[i] = IF i % 2 = 0 THEN m + (i \div 2) ELSE 0
  <2>0. ASSUME NEW k \in 1 .. N
        PROVE  parts[k].call = m + ((k + 1) \div 2) /\ (parts[k].back <=> k % 2 = 0)
    <3>1. k \in Nat /\ parts[k] = Part(2 * m + k)
      BY <1>1
    <3> QED
      BY <3>1, PartAhead
  <2>4. CASE i % 2 = 0
    <3>1. /\ i > 1 /\ i - 1 \in 1 .. N /\ (i - 1) % 2 = 1
          /\ (i + 1) \div 2 = i \div 2 /\ ((i - 1) + 1) \div 2 = i \div 2
      BY <1>1, <2>4
    <3>2. i > 2 => i - 2 \in 1 .. N /\ (i - 2) % 2 = 0
      BY <1>1, <2>4
    <3>3. /\ parts[i].back /\ ~ parts[i - 1].back /\ parts[i].call = parts[i - 1].call
          /\ i > 2 => parts[i - 2].back
      <4>1. parts[i].call = m + ((i + 1) \div 2) /\ parts[i].back
        BY <2>0, <2>4
      <4>2. parts[i - 1].call = m + (((i - 1) + 1) \div 2) /\ (parts[i - 1].back <=> (i - 1) % 2 = 0)
        BY <2>0, <3>1
      <4>3. i > 2 => parts[i - 2].back
        BY <2>0, <3>2
      <4> QED
        BY <3>1, <4>1, <4>2, <4>3
    <3>4. RecordEndingAt(parts, i)
      BY <3>1, <3>3 DEF RecordEndingAt
    <3> QED
      BY <2>0, <2>4, <3>1, <3>4
  <2>5. CASE i % 2 # 0
    <3>1. ~ RecordEndingAt(parts, i)
      BY <2>0, <2>5 DEF RecordEndingAt
    <3> QED
      BY <2>5, <3>1
  <2> QED
    BY <2>4, <2>5
<1>3. Len(seq) = N /\ \A i \in 1 .. N : seq[i] \in Calls <=> i % 2 = 0
  <2>1. 0 \notin Calls
    BY DEF Calls
  <2>2. ASSUME NEW i \in 1 .. N, i % 2 = 0 PROVE seq[i] \in Calls
    <3>1. parts[i].call = m + ((i + 1) \div 2) /\ parts[i].call \in Calls
      <4>1. i \in Nat /\ parts[i] = Part(2 * m + i) /\ parts[i] \in LogParts
        BY <1>1
      <4>2. PICK k \in 1 .. 2 * MaxCalls : parts[i] = Part(k)
        BY <4>1 DEF LogParts
      <4>3. parts[i].call = (k + 1) \div 2
        BY <4>2 DEF Part
      <4>4. (k + 1) \div 2 \in Calls
        <5>1. MaxCalls \in Nat /\ k \in Nat
          BY PollerBounds
        <5> QED
          BY <5>1, Halves DEF Calls
      <4>5. Part(2 * m + i).call = m + ((i + 1) \div 2)
        BY <4>1, PartAhead
      <4> QED
        BY <4>1, <4>3, <4>4, <4>5
    <3>2. (i + 1) \div 2 = i \div 2
      <4>1. i \in Nat
        BY <1>1
      <4> QED
        BY <2>2, <4>1, Halves
    <3> QED
      BY <1>2, <2>2, <3>1, <3>2
  <2>3. Len(seq) = N
    BY <1>1
  <2>4. ASSUME NEW i \in 1 .. N, i % 2 # 0 PROVE seq[i] \notin Calls
    BY <1>2, <2>1, <2>4
  <2> QED
    BY <2>2, <2>3, <2>4, Zenon
<1> HIDE DEF seq
<1>4. PICK f : Selects(f, seq, Calls) /\ Selected(seq, Calls) = f[N]
  BY <1>1, <1>3, SelectedUnrolls
<1>5. LinesOf(parts) = f[N]
  BY <1>4 DEF LinesOf, seq
<1> HIDE DEF N
<1> DEFINE P == {n \in 0 .. N : /\ Len(f[n]) = n \div 2
                                /\ \A j \in 1 .. (n \div 2) : f[n][j] = m + j}
<1>6. 0 \in P
  BY <1>1, <1>4 DEF Selects
<1>7. ASSUME NEW n \in 0 .. N - 1, n \in P
      PROVE  n + 1 \in P
  <2>0. n + 1 \in 1 .. N /\ n \in 0 .. N /\ (n + 1) - 1 = n
    BY <1>1
  <2>1. f[n + 1] = IF seq[n + 1] \in Calls THEN Append(f[n], seq[n + 1]) ELSE f[n]
    BY <1>3, <1>4, <2>0 DEF Selects
  <2>2. f[n] \in Seq(Nat)
    <3>1. f[n] \in Seq(Calls) /\ Calls \subseteq Nat
      BY <1>3, <1>4, <2>0 DEF Selects, Calls
    <3> QED
      BY <3>1, SeqMonotonic
  <2>3. Len(f[n]) = n \div 2 /\ \A j \in 1 .. (n \div 2) : f[n][j] = m + j
    BY <1>7
  <2>4. CASE (n + 1) % 2 = 0
    <3>1. seq[n + 1] = m + ((n + 1) \div 2) /\ (n + 1) \div 2 = (n \div 2) + 1
      BY <1>2, <2>0, <2>4
    <3>2. f[n + 1] = Append(f[n], m + ((n + 1) \div 2))
      BY <1>3, <2>0, <2>1, <2>4, <3>1
    <3>3. Len(f[n + 1]) = (n + 1) \div 2
      BY <2>2, <2>3, <3>1, <3>2
    <3>4. ASSUME NEW j \in 1 .. ((n + 1) \div 2) PROVE f[n + 1][j] = m + j
      <4>1. n \in Nat /\ n \div 2 \in Nat /\ m + ((n + 1) \div 2) \in Nat
        BY <2>0
      <4>2. CASE j = (n \div 2) + 1
        <5>1. f[n + 1][Len(f[n]) + 1] = m + ((n + 1) \div 2)
          BY <2>2, <3>2, <4>1, AppendProperties
        <5> QED
          BY <2>3, <3>1, <4>2, <5>1
      <4>3. CASE j # (n \div 2) + 1
        <5>1. j \in 1 .. (n \div 2)
          BY <3>1, <4>1, <4>3
        <5> QED
          BY <2>2, <2>3, <3>2, <4>1, <5>1
      <4> QED
        BY <4>2, <4>3
    <3> QED
      BY <2>0, <3>3, <3>4
  <2>5. CASE (n + 1) % 2 # 0
    <3>1. seq[n + 1] = 0 /\ (n + 1) \div 2 = n \div 2
      BY <1>2, <2>0, <2>5
    <3>2. f[n + 1] = f[n]
      BY <1>3, <2>0, <2>1, <2>5
    <3> QED
      BY <2>0, <2>3, <3>1, <3>2
  <2> QED
    BY <2>4, <2>5
<1>8. N \in P
  <2> HIDE DEF P
  <2>1. \A n \in 0 .. N : n \in P
    BY <1>1, <1>6, <1>7, Induction
  <2> QED
    BY <1>1, <2>1
<1>9. f[N] \in Seq(Nat)
  <2>1. f[N] \in Seq(Calls) /\ Calls \subseteq Nat
    BY <1>1, <1>3, <1>4 DEF Selects, Calls
  <2> QED
    BY <2>1, SeqMonotonic
<1>10. Len(f[N]) = N \div 2 /\ \A j \in 1 .. (N \div 2) : f[N][j] = m + j
  BY <1>8
<1>11. f[N] = [j \in 1 .. (N \div 2) |-> m + j]
  <2>1. f[N] = [j \in 1 .. Len(f[N]) |-> f[N][j]]
    BY <1>9, LenProperties
  <2>2. f[N] = [j \in 1 .. (N \div 2) |-> f[N][j]]
    BY <1>10, <2>1
  <2> QED
    BY <1>10, <2>2
<1> QED
  BY <1>5, <1>11 DEF N

LEMMA NewInOrder ==
  ASSUME NEW m \in Nat, NEW k \in Nat, m + k <= MaxCalls
  PROVE  NewCalls(m, [j \in 1 .. k |-> m + j]) = [j \in 1 .. k |-> m + j]
<1> DEFINE calls == [j \in 1 .. k |-> m + j]
<1>1. calls \in Seq(Calls) /\ Len(calls) = k /\ \A j \in 1 .. k : calls[j] = m + j
  <2>1. \A j \in 1 .. k : m + j \in Calls
    BY PollerBounds DEF Calls
  <2> QED
    BY <2>1
<1> HIDE DEF calls
<1>2. \A i \in 1 .. k : (<<m>> \o calls)[i] = m + i - 1
  <2>1. calls \in Seq(Nat)
    BY <1>1 DEF Calls
  <2> QED
    BY <1>1, <2>1
<1>3. [i \in 1 .. Len(calls) |-> IF (<<m>> \o calls)[i] = calls[i] THEN 0 ELSE calls[i]] = calls
  <2>1. \A i \in 1 .. k : (<<m>> \o calls)[i] # calls[i]
    BY <1>1, <1>2
  <2>2. [i \in 1 .. k |-> IF (<<m>> \o calls)[i] = calls[i] THEN 0 ELSE calls[i]]
          = [i \in 1 .. k |-> calls[i]]
    BY <2>1
  <2>3. [i \in 1 .. k |-> calls[i]] = calls
    BY <1>1
  <2> QED
    BY <1>1, <2>2, <2>3
<1>4. Selected(calls, Calls) = calls
  BY <1>1, SelectedAll
<1>5. NewCalls(m, calls) = calls
  BY <1>3, <1>4 DEF NewCalls
<1> QED
  BY <1>5 DEF calls

LEMMA LastNewlineIs ==
  ASSUME NEW parts \in Seq(LogParts), NEW n \in 0 .. Len(parts),
         n > 0 => parts[n].back, \A i \in n + 1 .. Len(parts) : ~ parts[i].back
  PROVE  LastNewline(parts) = n
<1> DEFINE ends == {i \in 1 .. Len(parts) : parts[i].back}
<1>1. Len(parts) \in Nat
  OBVIOUS
<1>2. CASE n = 0
  <2>1. ends = {}
    BY <1>1, <1>2
  <2> QED
    BY <1>2, <2>1 DEF LastNewline
<1>3. CASE n > 0
  <2>1. n \in ends /\ \A j \in ends : j <= n
    BY <1>1, <1>3
  <2>2. \A i \in ends : (\A j \in ends : j <= i) => i = n
    BY <1>1, <2>1
  <2>3. LastNewline(parts) = CHOOSE i \in ends : \A j \in ends : j <= i
    BY <2>1 DEF LastNewline
  <2> HIDE DEF ends
  <2>4. (CHOOSE i \in ends : \A j \in ends : j <= i) \in ends
        /\ \A j \in ends : j <= CHOOSE i \in ends : \A j2 \in ends : j2 <= i
    BY <2>1, Zenon
  <2> QED
    BY <2>2, <2>3, <2>4
<1> QED
  BY <1>1, <1>2, <1>3

LEMMA LastNewlineAt ==
  ASSUME NEW parts \in Seq(LogParts)
  PROVE  /\ LastNewline(parts) \in 0 .. Len(parts)
         /\ Pending(parts) \in Seq(LogParts)
<1> DEFINE ends == {i \in 1 .. Len(parts) : parts[i].back}
           T == {k \in 0 .. Len(parts) : \A i \in ends : i <= k}
<1>1. Len(parts) \in Nat /\ Len(parts) \in T
  OBVIOUS
<1>2. PICK n \in T : \A k \in T : n <= k
  <2>1. T \subseteq Nat /\ T # {}
    BY <1>1
  <2> HIDE DEF T
  <2> QED
    BY <2>1, LeastElement
<1>3. n > 0 => parts[n].back
  <2> SUFFICES ASSUME n > 0, ~ parts[n].back PROVE FALSE
    OBVIOUS
  <2>1. n \in 0 .. Len(parts) /\ \A i \in ends : i <= n
    OBVIOUS
  <2>2. n \notin ends
    OBVIOUS
  <2>3. \A i \in ends : i <= n - 1
    BY <1>1, <2>1, <2>2
  <2>4. n - 1 \in T /\ n - 1 < n
    BY <1>1, <2>1, <2>3
  <2> QED
    BY <1>2, <2>1, <2>4
<1>4. \A i \in n + 1 .. Len(parts) : ~ parts[i].back
  BY <1>1
<1>5. LastNewline(parts) = n /\ n \in 0 .. Len(parts)
  BY <1>3, <1>4, LastNewlineIs
<1>6. SubSeq(parts, n + 1, Len(parts)) \in Seq(LogParts)
  BY <1>1, <1>5, SubSeqProperties
<1> QED
  BY <1>5, <1>6 DEF Pending

\* What is pending of the log from a newline on: nothing, or the front part of the last line.
LEMMA PendingInOrder ==
  ASSUME NEW m \in Nat, NEW parts \in Seq(LogParts),
         \A i \in 1 .. Len(parts) : parts[i] = Part(2 * m + i)
  PROVE  Pending(parts) = IF Len(parts) % 2 = 1 THEN <<Part(2 * m + Len(parts))>> ELSE <<>>
<1> DEFINE N == Len(parts)
<1>0. N \in Nat
  OBVIOUS
<1>1. ASSUME NEW k \in 1 .. N
      PROVE  parts[k].back <=> k % 2 = 0
  <2>1. k \in Nat /\ parts[k] = Part(2 * m + k)
    BY <1>0
  <2> QED
    BY <2>1, PartAhead
<1>2. CASE N % 2 = 1
  <2>1. N >= 1 /\ N - 1 \in 0 .. N /\ (N - 1) % 2 = 0 /\ (N - 1) + 1 = N
    BY <1>0, <1>2
  <2>2. LastNewline(parts) = N - 1
    <3>1. N - 1 > 0 => parts[N - 1].back
      BY <1>0, <1>1, <2>1
    <3>2. \A i \in (N - 1) + 1 .. N : ~ parts[i].back
      BY <1>0, <1>1, <1>2, <2>1
    <3> QED
      BY <2>1, <3>1, <3>2, LastNewlineIs
  <2>3. Pending(parts) = SubSeq(parts, N, N)
    BY <2>1, <2>2 DEF Pending
  <2>4. SubSeq(parts, N, N) = <<parts[N]>>
    <3>1. N \in Int /\ N - N + 1 = 1 /\ 1 + N - 1 = N /\ 1 + 1 - 1 = 1
          /\ \A i \in N .. N : parts[i] \in LogParts
      BY <1>0, <2>1
    <3>2. /\ SubSeq(parts, N, N) \in Seq(LogParts) /\ Len(SubSeq(parts, N, N)) = 1
          /\ SubSeq(parts, N, N)[1] = parts[N]
      BY <1>0, <3>1, SubSeqProperties
    <3> DEFINE s == SubSeq(parts, N, N)  u == <<parts[N]>>
    <3>3. u \in Seq(LogParts) /\ Len(u) = 1 /\ u[1] = parts[N]
      BY <1>0, <2>1
    <3> HIDE DEF s, u
    <3>4. s \in Seq(LogParts) /\ Len(s) = 1 /\ s[1] = parts[N]
      BY <3>2 DEF s
    <3>5. s = u
      BY <3>3, <3>4, SeqEqual
    <3> QED
      BY <3>5 DEF s, u
  <2>5. parts[N] = Part(2 * m + N)
    BY <1>0, <2>1
  <2> QED
    BY <1>2, <2>3, <2>4, <2>5
<1>3. CASE N % 2 = 0
  <2>1. LastNewline(parts) = N
    BY <1>0, <1>1, <1>3, LastNewlineIs
  <2>2. Pending(parts) = SubSeq(parts, N + 1, N)
    BY <2>1 DEF Pending
  <2>3. SubSeq(parts, N + 1, N) = <<>>
    BY <1>0
  <2> QED
    BY <1>3, <2>2, <2>3
<1> QED
  BY <1>0, <1>2, <1>3

-----------------------------------------------------------------------------
\* A cursor that has followed the log up to its offset, and what was told by then.
UpToDate(cursor, calls) ==
  /\ cursor.pending = IF cursor.offset % 2 = 1 THEN <<Part(cursor.offset)>> ELSE <<>>
  /\ cursor.lastCall = cursor.offset \div 2
  /\ calls = [j \in 1 .. (cursor.offset \div 2) |-> j]

\* Without an overlap there is one poll at most of the last cursor, and where that is.
FollowedBy(c) ==
  /\ UpToDate(cursors[c], told)
  /\ \A p, q \in Awaiting(c) : p = q
  /\ \A p \in Awaiting(c) : p.offset = cursors[c].offset

Following == IF cursors = <<>> THEN told = <<>> /\ polls = {} ELSE FollowedBy(Len(cursors))

\* Nothing is read or asked for that is not written.
WithinLog ==
  /\ \A c \in 1 .. Len(cursors) : cursors[c].offset <= written
  /\ \A p \in polls : p.offset <= p.least

PollerInv ==
  /\ PollerTypeOK
  /\ WithinLog
  /\ tracked \in {0, Len(cursors)}
  /\ ~ overlapping => Following

\* A page of n parts that continues the log where the cursor stands, behind what is pending:
\* nothing or the front part of call m + 1.
Continued(m, b, n) ==
  (IF b = 1 THEN <<Part(2 * m + 1)>> ELSE <<>>) \o [i \in 1 .. n |-> Part(2 * m + b + i)]

LEMMA PageInOrder ==
  ASSUME NEW m \in Nat, NEW b \in {0, 1}, NEW n \in Nat, 2 * m + b + n <= 2 * MaxCalls
  PROVE  /\ Continued(m, b, n) \in Seq(LogParts) /\ Len(Continued(m, b, n)) = b + n
         /\ \A i \in 1 .. b + n : Continued(m, b, n)[i] = Part(2 * m + i)
<1>p. PICK parts : parts = Continued(m, b, n)
  OBVIOUS
<1>0. MaxCalls \in Nat
  BY PollerBounds
<1> DEFINE page == [i \in 1 .. n |-> Part(2 * m + b + i)]
<1>1. page \in Seq(LogParts) /\ Len(page) = n /\ \A i \in 1 .. n : page[i] = Part(2 * m + b + i)
  <2>1. \A i \in 1 .. n : 2 * m + b + i \in 1 .. 2 * MaxCalls
    BY <1>0
  <2>2. \A i \in 1 .. n : Part(2 * m + b + i) \in LogParts
    BY <2>1 DEF LogParts
  <2> QED
    BY <2>2
<1>2. CASE b = 0
  <2>1. parts = <<>> \o page
    BY <1>2, <1>p DEF Continued
  <2> HIDE DEF page
  <2>2. parts = page
    BY <1>1, <2>1, ConcatEmptySeq
  <2>3. \A i \in 1 .. n : 2 * m + b + i = 2 * m + i
    BY <1>2
  <2> QED
    BY <1>p, <1>1, <1>2, <2>2, <2>3
<1>3. CASE b = 1
  <2> DEFINE front == <<Part(2 * m + 1)>>
  <2>1. parts = front \o page
    BY <1>3, <1>p DEF Continued
  <2>2. front \in Seq(LogParts) /\ Len(front) = 1 /\ front[1] = Part(2 * m + 1)
    <3>1. 2 * m + 1 \in 1 .. 2 * MaxCalls
      BY <1>0, <1>3
    <3>2. Part(2 * m + 1) \in LogParts
      BY <3>1 DEF LogParts
    <3> QED
      BY <3>2
  <2> HIDE DEF page, front
  <2>3. /\ parts \in Seq(LogParts) /\ Len(parts) = Len(front) + Len(page)
        /\ \A i \in 1 .. Len(front) + Len(page) :
             parts[i] = IF i <= Len(front) THEN front[i] ELSE page[i - Len(front)]
    <3>1. /\ front \o page \in Seq(LogParts) /\ Len(front \o page) = Len(front) + Len(page)
          /\ \A i \in 1 .. Len(front) + Len(page) :
               (front \o page)[i] = IF i <= Len(front) THEN front[i] ELSE page[i - Len(front)]
      <4>1. front \in Seq(LogParts) /\ page \in Seq(LogParts)
        BY <1>1, <2>2
      <4> QED
        BY <4>1, ConcatProperties
    <3> QED
      BY <2>1, <3>1
  <2>4. Len(parts) = b + n
    BY <1>1, <1>3, <2>2, <2>3
  <2>5. ASSUME NEW i \in 1 .. Len(parts) PROVE parts[i] = Part(2 * m + i)
    <3>0. i \in Nat /\ parts[i] = IF i <= 1 THEN front[i] ELSE page[i - 1]
      BY <1>1, <2>2, <2>3
    <3>1. CASE i = 1
      BY <2>2, <3>0, <3>1
    <3>2. CASE i # 1
      <4>1. ~ (i <= 1) /\ i - 1 \in 1 .. n /\ 2 * m + b + (i - 1) = 2 * m + i
        BY <1>3, <2>4, <3>2
      <4> QED
        BY <1>1, <3>0, <4>1
    <3> QED
      BY <3>1, <3>2
  <2> QED
    BY <1>p, <2>3, <2>4, <2>5
<1> QED
  BY <1>2, <1>3

LEMMA ToldOn ==
  ASSUME NEW m \in Nat, NEW k \in Nat
  PROVE  [j \in 1 .. m |-> j] \o [j \in 1 .. k |-> m + j] = [j \in 1 .. m + k |-> j]
<1> DEFINE all == [j \in 1 .. m + k |-> j]
           one == [j \in 1 .. m |-> j]
           two == [j \in 1 .. k |-> m + j]
<1>1. one \in Seq(Nat) /\ Len(one) = m /\ \A j \in 1 .. m : one[j] = j
  OBVIOUS
<1>2. two \in Seq(Nat) /\ Len(two) = k /\ \A j \in 1 .. k : two[j] = m + j
  OBVIOUS
<1>3. all \in Seq(Nat) /\ Len(all) = m + k /\ \A j \in 1 .. m + k : all[j] = j
  OBVIOUS
<1> HIDE DEF one, two, all
<1>4. /\ one \o two \in Seq(Nat) /\ Len(one \o two) = m + k
      /\ \A j \in 1 .. m + k : (one \o two)[j] = IF j <= m THEN one[j] ELSE two[j - m]
  BY <1>1, <1>2, ConcatProperties
<1>5. ASSUME NEW j \in 1 .. m + k PROVE (one \o two)[j] = all[j]
  <2>1. CASE j <= m
    BY <1>1, <1>3, <1>4, <2>1
  <2>2. CASE ~ (j <= m)
    <3>1. j - m \in 1 .. k /\ m + (j - m) = j
      BY <2>2
    <3> QED
      BY <1>2, <1>3, <1>4, <2>2, <3>1
  <2> QED
    BY <2>1, <2>2
<1>6. one \o two = all
  BY <1>3, <1>4, <1>5, SeqEqual
<1> QED
  BY <1>6 DEF one, two, all

LEMMA LastInOrder ==
  ASSUME NEW m \in Nat, NEW k \in Nat
  PROVE  LastOf(m, [j \in 1 .. k |-> m + j]) = m + k
<1> DEFINE lines == [j \in 1 .. k |-> m + j]
<1>1. lines \in Seq(Nat) /\ Len(lines) = k /\ (k > 0 => lines[k] = m + k)
  OBVIOUS
<1> HIDE DEF lines
<1>2. lines = <<>> <=> k = 0
  BY <1>1, EmptySeq
<1>3. LastOf(m, lines) = m + k
  BY <1>1, <1>2 DEF LastOf
<1> QED
  BY <1>3 DEF lines

LEMMA PageFollows ==
  ASSUME NEW cursor \in Cursors, NEW calls, UpToDate(cursor, calls),
         NEW end \in Nat, cursor.offset <= end, end <= 2 * MaxCalls, NEW parts, NEW new,
         parts = cursor.pending \o [i \in 1 .. end - cursor.offset |-> Part(cursor.offset + i)],
         new = NewCalls(cursor.lastCall, LinesOf(parts))
  PROVE  UpToDate(Answered(cursor, end, parts), calls \o new)
<1>0. MaxCalls \in Nat
  BY PollerBounds
<1>1. PICK o \in Nat : o = cursor.offset
  BY <1>0 DEF Cursors
<1>2. o <= end
  BY <1>1
<1>3. PICK m \in Nat, b \in {0, 1} : m = o \div 2 /\ b = o % 2 /\ o = 2 * m + b
  <2>1. o \div 2 \in Nat /\ o % 2 \in {0, 1} /\ o = 2 * (o \div 2) + (o % 2)
    OBVIOUS
  <2> QED
    BY <2>1
<1>4. PICK n \in Nat : n = end - o /\ end = 2 * m + b + n
  <2>1. end - o \in Nat /\ end = 2 * m + b + (end - o)
    BY <1>2, <1>3
  <2> QED
    BY <2>1
<1>5. /\ parts \in Seq(LogParts) /\ Len(parts) = b + n
      /\ \A i \in 1 .. Len(parts) : parts[i] = Part(2 * m + i)
  <2>1. cursor.pending = IF b = 1 THEN <<Part(2 * m + 1)>> ELSE <<>>
    BY <1>1, <1>3 DEF UpToDate
  <2>2. cursor.offset = 2 * m + b /\ end - cursor.offset = n
    BY <1>1, <1>3, <1>4
  <2>3. parts = Continued(m, b, n)
    BY <2>1, <2>2 DEF Continued
  <2>4. 2 * m + b + n <= 2 * MaxCalls
    BY <1>4
  <2>5. /\ Continued(m, b, n) \in Seq(LogParts) /\ Len(Continued(m, b, n)) = b + n
        /\ \A i \in 1 .. b + n : Continued(m, b, n)[i] = Part(2 * m + i)
    BY <2>4, PageInOrder
  <2>6. parts \in Seq(LogParts) /\ Len(parts) = b + n
    BY <2>3, <2>5
  <2>7. \A i \in 1 .. b + n : parts[i] = Part(2 * m + i)
    BY <2>3, <2>5
  <2> QED
    BY <2>6, <2>7
<1>6. PICK k \in Nat : k = (b + n) \div 2 /\ m + k = end \div 2
  <2>1. (b + n) \div 2 \in Nat /\ m + ((b + n) \div 2) = (2 * m + (b + n)) \div 2
    BY EvenAhead
  <2>2. 2 * m + (b + n) = end
    BY <1>4
  <2> QED
    BY <2>1, <2>2
<1>7. LinesOf(parts) = [j \in 1 .. k |-> m + j]
  <2>1. LinesOf(parts) = [j \in 1 .. (Len(parts) \div 2) |-> m + j]
    BY <1>5, LinesInOrder
  <2>2. Len(parts) \div 2 = k
    BY <1>5, <1>6
  <2> QED
    BY <2>1, <2>2
<1>8. cursor.lastCall = m /\ calls = [j \in 1 .. m |-> j]
  BY <1>1, <1>3 DEF UpToDate
<1>9. new = [j \in 1 .. k |-> m + j]
  <2>1. m + k <= MaxCalls
    BY <1>0, <1>4, <1>6
  <2> QED
    BY <1>7, <1>8, <2>1, NewInOrder
<1>10. Pending(parts) = IF end % 2 = 1 THEN <<Part(end)>> ELSE <<>>
  <2>1. (b + n) % 2 = end % 2 /\ 2 * m + (b + n) = end
    <3>1. 2 * m + (b + n) = end
      BY <1>4
    <3>2. (2 * m + (b + n)) % 2 = (b + n) % 2
      BY EvenAhead
    <3> QED
      BY <3>1, <3>2
  <2> QED
    BY <1>5, <2>1, PendingInOrder
<1>11. LastOf(cursor.lastCall, LinesOf(parts)) = end \div 2
  <2>1. LastOf(m, [j \in 1 .. k |-> m + j]) = m + k
    BY LastInOrder
  <2>2. LastOf(cursor.lastCall, LinesOf(parts)) = LastOf(m, [j \in 1 .. k |-> m + j])
    BY <1>7, <1>8
  <2> QED
    BY <1>6, <2>1, <2>2
<1>12. calls \o new = [j \in 1 .. (end \div 2) |-> j]
  <2>1. calls \o new = [j \in 1 .. m + k |-> j]
    <3>1. calls \o new = [j \in 1 .. m |-> j] \o [j \in 1 .. k |-> m + j]
      BY <1>8, <1>9
    <3> QED
      BY <3>1, ToldOn
  <2> QED
    BY <1>6, <2>1
<1>13. Answered(cursor, end, parts) = [offset |-> end, pending |-> Pending(parts),
                                      lastCall |-> end \div 2]
  BY <1>11 DEF Answered
<1> DEFINE next == Answered(cursor, end, parts)
<1>14. next.offset = end /\ next.pending = Pending(parts) /\ next.lastCall = end \div 2
  BY <1>13
<1> HIDE DEF next
<1>15. UpToDate(next, calls \o new)
  BY <1>10, <1>12, <1>14 DEF UpToDate
<1> QED
  BY <1>15 DEF next

LEMMA AnsweredType ==
  ASSUME NEW cursor \in Cursors, NEW end \in 0 .. 2 * MaxCalls, NEW parts \in Seq(LogParts)
  PROVE  Answered(cursor, end, parts) \in Cursors
<1>1. MaxCalls \in Nat /\ cursor.lastCall \in 0 .. MaxCalls
  BY PollerBounds DEF Cursors
<1>2. LastOf(cursor.lastCall, LinesOf(parts)) \in 0 .. MaxCalls
  <2>1. LinesOf(parts) \in Seq(Calls)
    BY LinesType
  <2>2. LinesOf(parts) # <<>> => LinesOf(parts)[Len(LinesOf(parts))] \in Calls
    <3>1. LinesOf(parts) # <<>> => Len(LinesOf(parts)) \in 1 .. Len(LinesOf(parts))
      BY <2>1, EmptySeq
    <3> QED
      BY <2>1, <3>1, ElementOfSeq
  <2> QED
    BY <1>1, <2>2 DEF LastOf, Calls
<1>3. Pending(parts) \in Seq(LogParts)
  BY LastNewlineAt
<1> QED
  BY <1>2, <1>3 DEF Answered, Cursors

LEMMA PageType ==
  ASSUME NEW end \in 0 .. 2 * MaxCalls, NEW offset \in Nat, offset <= end
  PROVE  [i \in 1 .. end - offset |-> Part(offset + i)] \in Seq(LogParts)
<1>0. MaxCalls \in Nat
  BY PollerBounds
<1>1. end - offset \in Nat /\ \A i \in 1 .. end - offset : offset + i \in 1 .. 2 * MaxCalls
  BY <1>0
<1>2. \A i \in 1 .. end - offset : Part(offset + i) \in LogParts
  BY <1>1 DEF LogParts
<1> QED
  BY <1>1, <1>2

LEMMA PageEnds ==
  ASSUME NEW offset \in Nat, PollerTypeOK
  PROVE  PageEnd(offset) \in Int /\ PageEnd(offset) <= written
         /\ (offset <= written => PageEnd(offset) >= offset)
<1>1. PageParts \in Nat /\ MaxCalls \in Nat
  BY PollerBounds
<1> QED
  BY <1>1 DEF PageEnd, PollerTypeOK

LEMMA NotEmpty ==
  ASSUME NEW S, NEW seq \in Seq(S), Len(seq) # 0
  PROVE  seq # <<>>
BY EmptySeq

LEMMA OneReplaced ==
  ASSUME NEW S, NEW seq \in Seq(S), NEW i \in 1 .. Len(seq), NEW e \in S,
         NEW new, new = [seq EXCEPT ![i] = e]
  PROVE  /\ new \in Seq(S) /\ Len(new) = Len(seq) /\ new[i] = e
         /\ \A j \in 1 .. Len(seq) : j # i => new[j] = seq[j]
<1>1. /\ [seq EXCEPT ![i] = e] \in Seq(S)
      /\ Len([seq EXCEPT ![i] = e]) = Len(seq)
  BY ExceptSeq
<1>2. new[i] = e /\ \A j \in 1 .. Len(seq) : j # i => new[j] = seq[j]
  OBVIOUS
<1> QED
  BY <1>1, <1>2

LEMMA InitPoller == PollerInit => PollerInv
<1> SUFFICES ASSUME PollerInit PROVE PollerInv
  OBVIOUS
<1>1. MaxCalls \in Nat /\ MaxDrops \in Nat
  BY PollerBounds
<1>2. PollerTypeOK
  <2>1. written \in 0 .. 2 * MaxCalls /\ drops \in 0 .. MaxDrops
    BY <1>1, SMT DEF PollerInit
  <2>2. cursors \in Seq(Cursors) /\ told \in Seq(Calls) /\ Len(cursors) = 0
    BY DEF PollerInit
  <2>3. tracked \in 0 .. Len(cursors)
    BY <2>2 DEF PollerInit
  <2> QED
    BY <2>1, <2>2, <2>3 DEF PollerInit, PollerTypeOK
<1> QED
  BY <1>2 DEF PollerInit, PollerInv, Following, WithinLog

\* The answer of a poll: the cursor follows the log as far as the page goes.
LEMMA PageSound ==
  ASSUME PollerInv, NEW p \in polls, PageArrives(p)
  PROVE  PollerInv'
<1>0. MaxCalls \in Nat
  BY PollerBounds
<1>t. PollerTypeOK /\ WithinLog
  BY DEF PollerInv
<1>1. PICK c \in 1 .. Len(cursors) : c = p.cursor
  BY <1>t DEF PollerTypeOK
<1>2. PICK cursor \in Cursors : cursor = cursors[c]
  BY <1>t, ElementOfSeq DEF PollerTypeOK
<1>3. p.offset \in Nat /\ p.least \in Nat /\ p.offset <= p.least
  BY <1>t DEF PollerTypeOK, WithinLog
<1>4. PICK end \in p.least .. PageEnd(p.offset) :
        \E parts \in {cursor.pending \o [i \in 1 .. end - p.offset |-> Part(p.offset + i)]} :
        LET new == NewCalls(cursor.lastCall, LinesOf(parts))
        IN /\ cursors' = [cursors EXCEPT ![c] = Answered(cursor, end, parts)]
           /\ reported' = reported \cup Range(new)
           /\ told' = IF overlapping THEN <<>>
                      ELSE IF c = Len(cursors) THEN told \o new ELSE told
  BY <1>1, <1>2 DEF PageArrives
<1>5. end \in 0 .. 2 * MaxCalls /\ p.offset <= end /\ end <= written
  <2>1. PageEnd(p.offset) \in Int /\ PageEnd(p.offset) <= written /\ written \in 0 .. 2 * MaxCalls
    BY <1>t, <1>3, PageEnds DEF PollerTypeOK
  <2> QED
    BY <1>0, <1>3, <2>1
<1>6. PICK page : page = [i \in 1 .. end - p.offset |-> Part(p.offset + i)] /\ page \in Seq(LogParts)
  BY <1>3, <1>5, PageType
<1>7. PICK parts : parts = cursor.pending \o page
  OBVIOUS
<1>8. parts \in Seq(LogParts)
  <2>1. cursor.pending \in Seq(LogParts)
    BY DEF Cursors
  <2> QED
    BY <1>6, <1>7, <2>1, ConcatProperties
<1>9. PICK new : new = NewCalls(cursor.lastCall, LinesOf(parts))
  OBVIOUS
<1>10. new \in Seq(Calls)
  BY <1>8, <1>9, LinesType, NewType
<1>11. PICK next : next = Answered(cursor, end, parts) /\ next \in Cursors
  BY <1>5, <1>8, AnsweredType
<1>12. /\ cursors' = [cursors EXCEPT ![c] = next] /\ reported' = reported \cup Range(new)
       /\ told' = IF overlapping THEN <<>>
                  ELSE IF c = Len(cursors) THEN told \o new ELSE told
  BY <1>4, <1>6, <1>7, <1>9, <1>11
<1>13. polls' = polls \ {p} /\ UNCHANGED <<written, active, tracked, drops, overlapping>>
  BY DEF PageArrives
<1>14. /\ cursors' \in Seq(Cursors) /\ Len(cursors') = Len(cursors) /\ cursors'[c] = next
       /\ \A d \in 1 .. Len(cursors) : d # c => cursors'[d] = cursors[d]
  <2>1. next \in Cursors /\ cursors' = [cursors EXCEPT ![c] = next] /\ cursors \in Seq(Cursors)
    BY <1>t, <1>11, <1>12 DEF PollerTypeOK
  <2>2. PICK moved : moved = cursors'
    OBVIOUS
  <2>3. /\ moved \in Seq(Cursors) /\ Len(moved) = Len(cursors) /\ moved[c] = next
        /\ \A d \in 1 .. Len(cursors) : d # c => moved[d] = cursors[d]
    BY <2>1, <2>2, OneReplaced
  <2> QED
    BY <2>2, <2>3
<1>15. next.offset = end
  BY <1>11 DEF Answered
<1>16. PollerTypeOK'
  <2>1. told' \in Seq(Calls)
    <3>1. told \in Seq(Calls) /\ <<>> \in Seq(Calls)
      BY <1>t DEF PollerTypeOK
    <3>2. told \o new \in Seq(Calls)
      BY <1>10, <3>1, ConcatProperties
    <3> QED
      BY <1>12, <3>1, <3>2
  <2>2. reported' \subseteq Calls
    <3>1. Range(new) \subseteq Calls
      BY <1>10 DEF Range
    <3> QED
      BY <1>t, <1>12, <3>1 DEF PollerTypeOK
  <2>3. polls' \subseteq [id : 1 .. MaxPolls, cursor : 1 .. Len(cursors'),
                          offset : 0 .. 2 * MaxCalls, least : 0 .. 2 * MaxCalls]
    BY <1>t, <1>1, <1>13, <1>14 DEF PollerTypeOK
  <2>4. tracked' \in 0 .. Len(cursors')
    BY <1>t, <1>1, <1>13, <1>14 DEF PollerTypeOK
  <2> QED
    BY <1>t, <1>13, <1>14, <2>1, <2>2, <2>3, <2>4 DEF PollerTypeOK
<1>17. WithinLog'
  BY <1>t, <1>5, <1>13, <1>14, <1>15 DEF WithinLog
<1>18. cursors # <<>> /\ cursors' # <<>>
  <2>1. Len(cursors) # 0 /\ cursors \in Seq(Cursors)
    BY <1>t DEF PollerTypeOK
  <2> QED
    BY <1>14, <2>1, NotEmpty
<1>19. PICK last : last = Len(cursors)
  OBVIOUS
<1>20. ASSUME ~ overlapping' PROVE Following'
  <2>1. FollowedBy(last) /\ ~ overlapping
    BY <1>13, <1>18, <1>19, <1>20 DEF PollerInv, Following
  <2>2. CASE c = last
    <3>1. UpToDate(cursor, told) /\ (\A q \in Awaiting(c) : q = p) /\ p.offset = cursor.offset
      BY <1>1, <1>2, <2>1, <2>2 DEF FollowedBy, Awaiting
    <3>2. told' = told \o new
      BY <1>12, <1>19, <2>1, <2>2
    <3>3. UpToDate(next, told \o new)
      <4>1. parts = cursor.pending \o [i \in 1 .. end - cursor.offset |-> Part(cursor.offset + i)]
        BY <1>6, <1>7, <3>1
      <4>2. end \in Nat /\ cursor.offset <= end /\ end <= 2 * MaxCalls
        BY <1>0, <1>5, <3>1
      <4>3. UpToDate(Answered(cursor, end, parts), told \o new)
        BY <1>9, <3>1, <4>1, <4>2, PageFollows
      <4> QED
        BY <1>11, <4>3
    <3>4. Awaiting(c)' = {}
      BY <1>13, <3>1 DEF Awaiting
    <3>5. UpToDate(cursors'[c], told')
      BY <1>14, <3>2, <3>3
    <3>6. \A d : d = c => FollowedBy(d)'
      BY <3>4, <3>5 DEF FollowedBy
    <3> QED
      BY <1>14, <1>18, <1>19, <2>2, <3>6 DEF Following
  <2>3. CASE c # last
    <3>1. told' = told /\ cursors'[last] = cursors[last]
      <4>1. last \in 1 .. Len(cursors)
        BY <1>t, <1>19 DEF PollerTypeOK
      <4> QED
        BY <1>12, <1>14, <1>19, <2>1, <2>3, <4>1
    <3>2. \A d : d = last => Awaiting(d)' \subseteq Awaiting(d)
      BY <1>13 DEF Awaiting
    <3>3. \A d : d = last => FollowedBy(d)'
      BY <2>1, <3>1, <3>2 DEF FollowedBy
    <3> QED
      BY <1>14, <1>18, <1>19, <3>3 DEF Following
  <2> QED
    BY <2>2, <2>3
<1>21. tracked' \in {0, Len(cursors')}
  BY <1>13, <1>14 DEF PollerInv
<1> QED
  BY <1>16, <1>17, <1>20, <1>21 DEF PollerInv

LEMMA StepPoller == PollerInv /\ [PollerNext]_pollerVars => PollerInv'
<1> SUFFICES ASSUME PollerInv, [PollerNext]_pollerVars PROVE PollerInv'
  OBVIOUS
<1>0. MaxCalls \in Nat
  BY PollerBounds
<1>t. PollerTypeOK /\ WithinLog /\ tracked \in {0, Len(cursors)}
  BY DEF PollerInv
<1>1. CASE LogGrows
  <2>1. written' = written + 1 /\ written' \in 0 .. 2 * MaxCalls
    BY <1>0, <1>1, <1>t DEF LogGrows, PollerTypeOK
  <2>2. UNCHANGED <<active, cursors, tracked, polls, drops, told, reported, overlapping>>
    BY <1>1 DEF LogGrows
  <2>3. PollerTypeOK'
    BY <1>t, <2>1, <2>2 DEF PollerTypeOK
  <2>4. WithinLog'
    <3>1. \A c \in 1 .. Len(cursors) : cursors[c].offset <= written + 1
      <4> SUFFICES ASSUME NEW c \in 1 .. Len(cursors) PROVE cursors[c].offset <= written + 1
        OBVIOUS
      <4>1. cursors[c] \in Cursors
        BY <1>t DEF PollerTypeOK
      <4>2. PICK o \in Nat : o = cursors[c].offset
        BY <1>0, <4>1 DEF Cursors
      <4>3. o <= written /\ written \in Nat
        BY <1>0, <1>t, <4>2 DEF WithinLog, PollerTypeOK
      <4> QED
        BY <4>2, <4>3
    <3> QED
      BY <1>t, <2>1, <2>2, <3>1 DEF WithinLog
  <2> QED
    BY <2>2, <2>3, <2>4 DEF PollerInv, Following, FollowedBy, Awaiting
<1>2. CASE RunEnds
  BY <1>2 DEF RunEnds, PollerInv, PollerTypeOK, WithinLog, Following, FollowedBy, Awaiting
<1>3. CASE TrackRun
  <2>1. PICK n \in Nat : n = Len(cursors)
    BY <1>t, LenProperties DEF PollerTypeOK
  <2>2. /\ cursors' = Append(cursors, FreshCursor) /\ tracked' = n + 1
        /\ told' = <<>> /\ overlapping' = FALSE
        /\ UNCHANGED <<written, active, polls, drops, reported>>
    BY <1>3, <2>1 DEF TrackRun
  <2>3. FreshCursor \in Cursors /\ FreshCursor.offset = 0
    BY <1>0 DEF FreshCursor, Cursors
  <2>4. /\ cursors' \in Seq(Cursors) /\ Len(cursors') = n + 1 /\ cursors'[n + 1] = FreshCursor
        /\ \A c \in 1 .. n : cursors'[c] = cursors[c]
    BY <1>t, <2>1, <2>2, <2>3, AppendProperties DEF PollerTypeOK
  <2>5. \A p \in polls : p.cursor \in 1 .. n
    BY <1>t, <2>1 DEF PollerTypeOK
  <2>6. PollerTypeOK'
    <3>1. polls' \subseteq [id : 1 .. MaxPolls, cursor : 1 .. Len(cursors'),
                            offset : 0 .. 2 * MaxCalls, least : 0 .. 2 * MaxCalls]
      <4>1. polls \subseteq [id : 1 .. MaxPolls, cursor : 1 .. n,
                             offset : 0 .. 2 * MaxCalls, least : 0 .. 2 * MaxCalls]
        BY <1>t, <2>1 DEF PollerTypeOK
      <4>2. 1 .. n \subseteq 1 .. n + 1
        BY <2>1
      <4>3. [id : 1 .. MaxPolls, cursor : 1 .. n,
             offset : 0 .. 2 * MaxCalls, least : 0 .. 2 * MaxCalls]
              \subseteq [id : 1 .. MaxPolls, cursor : 1 .. n + 1,
                         offset : 0 .. 2 * MaxCalls, least : 0 .. 2 * MaxCalls]
        BY <4>2
      <4> QED
        BY <2>2, <2>4, <4>1, <4>3
    <3>2. tracked' \in 0 .. Len(cursors')
      BY <2>1, <2>2, <2>4
    <3>3. told' \in Seq(Calls)
      BY <2>2
    <3> QED
      BY <1>t, <2>2, <2>4, <3>1, <3>2, <3>3 DEF PollerTypeOK
  <2>7. WithinLog'
    <3>1. \A c \in 1 .. n : cursors[c].offset <= written
      BY <1>t, <2>1 DEF WithinLog
    <3>2. FreshCursor.offset <= written
      BY <1>0, <1>t, <2>3 DEF PollerTypeOK
    <3>3. \A c \in 1 .. n + 1 : cursors'[c].offset <= written
      BY <2>1, <2>4, <3>1, <3>2
    <3> QED
      BY <1>t, <2>2, <2>4, <3>3 DEF WithinLog
  <2>8. Following'
    <3>1. UpToDate(FreshCursor, <<>>)
      <4>1. 0 % 2 = 0 /\ 0 \div 2 = 0
        OBVIOUS
      <4> QED
        BY <4>1 DEF UpToDate, FreshCursor
    <3>2. \A c : c = n + 1 => Awaiting(c)' = {}
      BY <2>1, <2>2, <2>5 DEF Awaiting
    <3>3. \A c : c = n + 1 => FollowedBy(c)'
      BY <2>2, <2>4, <3>1, <3>2 DEF FollowedBy
    <3>4. cursors' # <<>>
      BY <2>1, <2>4, NotEmpty
    <3> QED
      BY <2>4, <3>3, <3>4 DEF Following
  <2> QED
    BY <2>2, <2>4, <2>6, <2>7, <2>8 DEF PollerInv
<1>4. CASE UntrackRun
  <2>1. PollerTypeOK'
    BY <1>4, <1>t DEF UntrackRun, PollerTypeOK
  <2> QED
    BY <1>4, <2>1 DEF UntrackRun, PollerInv, WithinLog, Following, FollowedBy, Awaiting
<1>5. CASE Poll
  <2>1. PICK c \in 1 .. Len(cursors) : c = tracked /\ c = Len(cursors) /\ cursors[c] \in Cursors
    <3>1. tracked # 0 /\ tracked = Len(cursors) /\ cursors \in Seq(Cursors)
      BY <1>5, <1>t DEF Poll, PollerTypeOK
    <3>2. tracked \in 1 .. Len(cursors)
      BY <3>1, LenProperties
    <3> QED
      BY <3>1, <3>2, ElementOfSeq
  <2>2. PICK offset \in 0 .. 2 * MaxCalls : offset = cursors[c].offset
    BY <2>1 DEF Cursors
  <2>3. PICK id \in 1 .. MaxPolls :
          polls' = polls \cup {[id |-> id, cursor |-> tracked, offset |-> cursors[tracked].offset,
                                least |-> PageEnd(cursors[tracked].offset)]}
    BY <1>5 DEF Poll
  <2>4. PICK least : least = PageEnd(offset)
    OBVIOUS
  <2>5. offset <= written
    BY <1>t, <2>1, <2>2 DEF WithinLog
  <2>6. least \in 0 .. 2 * MaxCalls /\ offset <= least
    <3>1. offset \in Nat /\ written \in 0 .. 2 * MaxCalls
      BY <1>0, <1>t DEF PollerTypeOK
    <3>2. least \in Int /\ least <= written /\ least >= offset
      BY <1>t, <2>4, <2>5, <3>1, PageEnds
    <3> QED
      BY <1>0, <3>1, <3>2
  <2>7. PICK new : new = [id |-> id, cursor |-> c, offset |-> offset, least |-> least]
    OBVIOUS
  <2>8. polls' = polls \cup {new}
    BY <2>1, <2>2, <2>3, <2>4, <2>7
  <2>9. UNCHANGED <<written, active, cursors, tracked, drops, told, reported>>
        /\ overlapping' = (overlapping \/ Awaiting(tracked) # {})
    BY <1>5 DEF Poll
  <2>10. new \in [id : 1 .. MaxPolls, cursor : 1 .. Len(cursors),
                  offset : 0 .. 2 * MaxCalls, least : 0 .. 2 * MaxCalls]
    BY <2>1, <2>6, <2>7
  <2>11. PollerTypeOK'
    <3>1. overlapping' \in BOOLEAN
      BY <2>9
    <3> QED
      BY <1>t, <2>8, <2>9, <2>10, <3>1 DEF PollerTypeOK
  <2>12. WithinLog'
    <3>1. new.offset <= new.least
      BY <2>6, <2>7
    <3> QED
      BY <1>t, <2>8, <2>9, <3>1 DEF WithinLog
  <2>13. ASSUME ~ overlapping' PROVE Following'
    <3>1. cursors # <<>>
      BY <1>t, <2>1, NotEmpty DEF PollerTypeOK
    <3>2. FollowedBy(c) /\ Awaiting(c) = {}
      BY <2>1, <2>9, <2>13, <3>1 DEF PollerInv, Following
    <3>3. Awaiting(c)' = {new}
      BY <2>7, <2>8, <3>2 DEF Awaiting
    <3>4. new.offset = cursors[c].offset
      BY <2>2, <2>7
    <3>5. FollowedBy(c)'
      BY <2>9, <3>2, <3>3, <3>4 DEF FollowedBy
    <3> QED
      BY <2>1, <2>9, <3>1, <3>5 DEF Following
  <2> QED
    BY <1>t, <2>9, <2>11, <2>12, <2>13 DEF PollerInv
<1>6. CASE \E p \in polls : PageArrives(p)
  BY <1>6, PageSound
<1>7. ASSUME NEW p \in polls, PollDropped(p) PROVE PollerInv'
  <2>1. polls' = polls \ {p} /\ drops' \in 0 .. MaxDrops
    BY <1>7, <1>t, PollerBounds DEF PollDropped, PollerTypeOK
  <2>2. UNCHANGED <<written, active, cursors, tracked, told, reported, overlapping>>
    BY <1>7 DEF PollDropped
  <2>3. PollerTypeOK'
    BY <1>t, <2>1, <2>2 DEF PollerTypeOK
  <2>4. WithinLog'
    BY <1>t, <2>1, <2>2 DEF WithinLog
  <2>5. Following => Following'
    BY <2>1, <2>2 DEF Following, FollowedBy, Awaiting
  <2> QED
    BY <2>2, <2>3, <2>4, <2>5 DEF PollerInv
<1>8. CASE UNCHANGED pollerVars
  BY <1>8 DEF pollerVars, PollerInv, PollerTypeOK, WithinLog, Following, FollowedBy, Awaiting
<1> QED
  BY <1>1, <1>2, <1>3, <1>4, <1>5, <1>6, <1>7, <1>8 DEF PollerNext

\* Each time a run is tracked, and as long as no poll overtakes another, the calls of its log, of
\* any length, are told once each and in order, wherever the pages cut the lines, whichever answers
\* are lost and whenever those of an earlier cursor come (tool-activity-poller.ts:146-155).
THEOREM CallsAlwaysToldInOrder == PollerSpec => []CallsToldInOrder
<1>1. PollerInv => CallsToldInOrder
  <2> SUFFICES ASSUME PollerInv, ~ overlapping, NEW i \in 1 .. Len(told) PROVE told[i] = i
    BY DEF CallsToldInOrder
  <2>1. Following /\ Len(told) \in Nat
    BY DEF PollerInv, PollerTypeOK
  <2>2. cursors # <<>>
    BY <2>1 DEF Following
  <2>3. cursors \in Seq(Cursors) /\ cursors[Len(cursors)] \in Cursors
    <3>1. cursors \in Seq(Cursors)
      BY DEF PollerInv, PollerTypeOK
    <3>2. Len(cursors) \in 1 .. Len(cursors)
      BY <2>2, <3>1, EmptySeq, LenProperties
    <3> QED
      BY <3>1, <3>2, ElementOfSeq
  <2>4. PICK o \in Nat : o = cursors[Len(cursors)].offset
    <3>1. MaxCalls \in Nat
      BY PollerBounds
    <3>2. cursors[Len(cursors)].offset \in 0 .. 2 * MaxCalls
      BY <2>3 DEF Cursors
    <3>3. cursors[Len(cursors)].offset \in Nat
      BY <3>1, <3>2
    <3> QED
      BY <3>3
  <2>5. told = [j \in 1 .. (o \div 2) |-> j]
    BY <2>1, <2>2, <2>4 DEF Following, FollowedBy, UpToDate
  <2>6. o \div 2 \in Nat
    OBVIOUS
  <2>7. Len(told) = o \div 2
    BY <2>5, <2>6
  <2> QED
    BY <2>5, <2>7
<1> QED
  BY <1>1, InitPoller, StepPoller, PTL DEF PollerSpec

-----------------------------------------------------------------------------
(* LeaderIntake.                                                           *)

Candidate == Range(Leaders)
Asks == [id : Int, at : {"load", "get", "list", "keep", "open"},
         leader : Candidate \cup {Nobody}, turned : SUBSET Candidate]

\* From when it is found or kept, the leader of a message is one of the company; once it was
\* seen to be able to run, it can, or it has turned meanwhile.
AskSound(ask) ==
  /\ ask.at \in {"get", "keep", "open"} => ask.leader \in Candidate
  /\ ask.at \in {"keep", "open"} => Invokable(ask.leader) \/ ask.leader \in ask.turned

InContext(reply) ==
  /\ ~ LooksLikeNewWork(reply.text)
  /\ reply.fb.company = reply.company
  /\ reply.fb.context /\ reply.fb.issue # NoLink

AsksSound == asks \subseteq Asks /\ \A ask \in asks : AskSound(ask)
RepliesSound == \A reply \in replies \cup comments : InContext(reply)

IntakeInv == IntakeTypeOK /\ AsksSound /\ RawErrorsOnlyByTurns /\ RepliesSound

\* A message that goes on, or is done with.
LEMMA AskMoves ==
  ASSUME IntakeInv, NEW ask \in asks, UNCHANGED <<status, outstanding, turns, asked>>,
         storedLeader' \in Candidate \cup {Nobody},
         \/ asks' = asks \ {ask}
         \/ \E next \in Asks : AskSound(next) /\ Moves(ask, next)
  PROVE  IntakeTypeOK' /\ AsksSound'
<1>1. \A a \in asks' : a \in Asks /\ AskSound(a)
  BY DEF Moves, IntakeInv, AsksSound
<1>2. \A a \in asks' : AskSound(a)'
  BY <1>1 DEF AskSound, Invokable
<1>3. IntakeTypeOK'
  BY <1>1 DEF IntakeInv, IntakeTypeOK, Asks, Candidate
<1> QED
  BY <1>1, <1>2, <1>3 DEF AsksSound

LEMMA InitIntake == IntakeInit => IntakeInv
  BY IntakeBounds DEF IntakeInit, IntakeInv, IntakeTypeOK, AsksSound, RawErrorsOnlyByTurns, RepliesSound

LEMMA TurnsSound ==
  ASSUME IntakeInv, NEW a \in Candidate, Turns(a)
  PROVE  IntakeInv'
<1>1. status' = [b \in Candidate |-> IF b # a THEN status[b]
                                     ELSE IF status[b] = "idle" THEN "paused" ELSE "idle"]
  BY DEF Turns, IntakeInv, IntakeTypeOK, Candidate
<1>2. ASSUME NEW next \in asks' PROVE next \in Asks /\ AskSound(next)'
  <2>1. PICK ask \in asks : next = [ask EXCEPT !.turned = @ \cup {a}]
    BY DEF Turns
  <2>2. ask \in Asks /\ AskSound(ask)
    BY DEF IntakeInv, AsksSound
  <2>3. /\ next \in Asks /\ next.at = ask.at /\ next.leader = ask.leader
        /\ next.turned = ask.turned \cup {a}
    BY <2>1, <2>2 DEF Asks
  <2> QED
    BY <1>1, <2>2, <2>3 DEF AskSound, Invokable
<1>3. status' \in [Candidate -> Statuses]
  BY <1>1 DEF IntakeInv, IntakeTypeOK, Statuses, Candidate
<1>4. turns' \in 0 .. MaxTurns
  BY IntakeBounds DEF Turns, IntakeInv, IntakeTypeOK
<1>5. IntakeTypeOK'
  BY <1>2, <1>3, <1>4 DEF Turns, IntakeInv, IntakeTypeOK, Asks, Candidate
<1>6. AsksSound'
  BY <1>2 DEF AsksSound
<1> QED
  BY <1>5, <1>6 DEF Turns, IntakeInv, RawErrorsOnlyByTurns, RepliesSound, InContext, LooksLikeNewWork

LEMMA StepIntake == IntakeInv /\ [IntakeNext]_intakeVars => IntakeInv'
<1> SUFFICES ASSUME IntakeInv, [IntakeNext]_intakeVars PROVE IntakeInv'
  OBVIOUS
<1> DEFINE Rest == RawErrorsOnlyByTurns /\ RepliesSound
<1>r. Rest /\ (UNCHANGED <<raw, replies, comments>> => Rest')
  BY DEF IntakeInv, RawErrorsOnlyByTurns, RepliesSound, InContext, LooksLikeNewWork
<1>a. AsksSound /\ (UNCHANGED <<asks, status>> => AsksSound')
  BY DEF IntakeInv, AsksSound, AskSound, Invokable
<1>m. ASSUME NEW ask \in asks, UNCHANGED <<status, outstanding, turns, asked, raw, replies, comments>>,
             storedLeader' \in Candidate \cup {Nobody},
             \/ asks' = asks \ {ask}
             \/ \E next \in Asks : AskSound(next) /\ Moves(ask, next)
      PROVE  IntakeInv'
  BY <1>m, <1>r, AskMoves DEF IntakeInv
<1>1. CASE \E a \in Range(Leaders) : Turns(a)
  BY <1>1, TurnsSound DEF Candidate
<1>2. CASE \E fb \in Feedbacks : FeedbackRaised(fb)
  BY <1>2, <1>r, <1>a DEF FeedbackRaised, IntakeInv, IntakeTypeOK
<1>3. CASE FeedbackCleared
  BY <1>3, <1>r, <1>a DEF FeedbackCleared, IntakeInv, IntakeTypeOK
<1>4. ASSUME NEW text \in Texts, MessageSent(text) PROVE IntakeInv'
  <2>1. asked \in 0 .. MaxAsked /\ MaxAsked \in Nat
    BY IntakeBounds DEF IntakeInv, IntakeTypeOK
  <2>2. PICK new \in Asks : asks' = asks \cup {new} /\ new.at = "load" /\ new.leader = Nobody
    <3> DEFINE asking == [id |-> asked, at |-> "load", leader |-> Nobody, turned |-> {}]
    <3>1. asking \in Asks /\ asking.at = "load" /\ asking.leader = Nobody
      BY <2>1 DEF Asks
    <3>2. asks' = asks \cup {asking}
      BY <1>4 DEF MessageSent
    <3> HIDE DEF asking
    <3> QED
      BY <3>1, <3>2
  <2>3. \A ask \in asks : AskSound(ask)'
    BY <1>4, <1>a DEF MessageSent, AsksSound, AskSound, Invokable
  <2>6. AsksSound'
    BY <1>a, <2>2, <2>3 DEF AsksSound, AskSound
  <2>4. asked' \in 0 .. MaxAsked
    BY <1>4, <2>1 DEF MessageSent
  <2>5. IntakeTypeOK'
    BY <1>4, <2>2, <2>4 DEF MessageSent, IntakeInv, IntakeTypeOK
  <2> QED
    BY <1>4, <1>r, <2>5, <2>6 DEF MessageSent, IntakeInv
<1>5. ASSUME NEW ask \in asks, AskStep(ask) \/ AskFails(ask) PROVE IntakeInv'
  <2>0. /\ ask \in Asks /\ AskSound(ask)
        /\ storedLeader \in Candidate \cup {Nobody}
    BY DEF IntakeInv, AsksSound, IntakeTypeOK, Candidate
  <2>1. CASE LeaderLoaded(ask)
    <3> DEFINE next == [ask EXCEPT !.leader = storedLeader, !.at = AfterLoad(storedLeader)]
    <3>1. next \in Asks /\ next.leader = storedLeader /\ next.at = AfterLoad(storedLeader)
      BY <2>0 DEF Asks, AfterLoad
    <3>2. AskSound(next)
      BY <2>0, <3>1 DEF AskSound, AfterLoad
    <3>3. Moves(ask, next)
      BY <2>1 DEF LeaderLoaded
    <3> HIDE DEF next
    <3> QED
      BY <2>0, <2>1, <1>m, <3>1, <3>2, <3>3 DEF LeaderLoaded
  <2>2. CASE LeaderChecked(ask)
    <3>1. CASE Invokable(ask.leader)
      <4> DEFINE next == [ask EXCEPT !.at = "open"]
      <4>1. next \in Asks /\ next.leader = ask.leader /\ next.at = "open"
        BY <2>0 DEF Asks
      <4>2. AskSound(next)
        BY <2>0, <2>2, <3>1, <4>1 DEF AskSound, LeaderChecked
      <4>3. Moves(ask, next)
        BY <2>2, <3>1 DEF LeaderChecked
      <4> HIDE DEF next
      <4> QED
        BY <2>0, <2>2, <1>m, <4>1, <4>2, <4>3 DEF LeaderChecked
    <3>2. CASE ~ Invokable(ask.leader)
      <4> DEFINE next == [ask EXCEPT !.leader = Nobody, !.at = "list"]
      <4>1. next \in Asks /\ next.at = "list"
        BY <2>0 DEF Asks
      <4>2. AskSound(next)
        BY <4>1 DEF AskSound
      <4>3. Moves(ask, next)
        BY <2>2, <3>2 DEF LeaderChecked
      <4> HIDE DEF next
      <4> QED
        BY <2>0, <2>2, <1>m, <4>1, <4>2, <4>3 DEF LeaderChecked
    <3> QED
      BY <3>1, <3>2
  <2>3. CASE LeaderFound(ask)
    <3>1. CASE asks' = asks \ {ask}
      BY <2>0, <2>3, <1>m, <3>1 DEF LeaderFound
    <3>2. CASE \E i \in DOMAIN Leaders :
                 /\ Invokable(Leaders[i])
                 /\ Moves(ask, [ask EXCEPT !.leader = Leaders[i], !.at = "keep"])
      <4>1. PICK i \in DOMAIN Leaders :
                 /\ Invokable(Leaders[i])
                 /\ Moves(ask, [ask EXCEPT !.leader = Leaders[i], !.at = "keep"])
        BY <3>2
      <4> DEFINE next == [ask EXCEPT !.leader = Leaders[i], !.at = "keep"]
      <4>2. Leaders[i] \in Candidate
        BY DEF Candidate, Range
      <4>3. next \in Asks /\ next.leader = Leaders[i] /\ next.at = "keep"
        BY <2>0, <4>2 DEF Asks
      <4>4. AskSound(next)
        BY <4>1, <4>2, <4>3 DEF AskSound
      <4>5. Moves(ask, next)
        BY <4>1
      <4> HIDE DEF next
      <4> QED
        BY <2>0, <2>3, <1>m, <4>3, <4>4, <4>5 DEF LeaderFound
    <3> QED
      BY <2>3, <3>1, <3>2 DEF LeaderFound
  <2>4. CASE LeaderKept(ask)
    <3> DEFINE next == [ask EXCEPT !.at = "open"]
    <3>1. next \in Asks /\ next.leader = ask.leader /\ next.at = "open" /\ next.turned = ask.turned
      BY <2>0 DEF Asks
    <3>2. AskSound(next)
      BY <2>0, <2>4, <3>1 DEF AskSound, LeaderKept
    <3>3. Moves(ask, next) /\ storedLeader' \in Candidate
      BY <2>0, <2>4 DEF LeaderKept, AskSound
    <3> HIDE DEF next
    <3> QED
      BY <2>4, <1>m, <3>1, <3>2, <3>3 DEF LeaderKept
  <2>5. CASE SessionOpened(ask)
    <3>1. RawErrorsOnlyByTurns'
      BY <2>0, <2>5, <1>r DEF SessionOpened, AskSound, RawErrorsOnlyByTurns
    <3>2. IntakeTypeOK' /\ AsksSound'
      BY <2>0, <2>5, AskMoves DEF SessionOpened
    <3> QED
      BY <2>5, <1>r, <3>1, <3>2 DEF SessionOpened, IntakeInv, RepliesSound, InContext, LooksLikeNewWork
  <2>6. CASE AskFails(ask)
    BY <2>0, <2>6, <1>m DEF AskFails
  <2> QED
    BY <1>5, <2>1, <2>2, <2>3, <2>4, <2>5, <2>6 DEF AskStep
<1>6. ASSUME NEW origin \in Origins, NEW fb \in Feedbacks, NEW text \in Texts,
             NEW named \in Companies, NEW vouched \in Companies \cup {NoLink},
             Replied(origin, fb, text, named, vouched)
      PROVE  IntakeInv'
  <2>1. ASSUME NEW reply \in replies' PROVE InContext(reply)
    <3>1. CASE reply \in replies
      BY <3>1, <1>r DEF RepliesSound
    <3>2. CASE reply = [fb |-> fb, text |-> text, company |-> named] /\ reply \notin replies
      <4>1. /\ reply.fb = fb /\ reply.text = text /\ reply.company = named
            /\ FeedbackById(named, fb) /\ EvaluateReply(fb, text) = "sent" /\ fb.issue # NoLink
        BY <1>6, <3>2 DEF Replied
      <4>2. fb.context /\ ~ LooksLikeNewWork(text)
        BY <4>1 DEF EvaluateReply
      <4> QED
        BY <4>1, <4>2 DEF InContext, FeedbackById
    <3> QED
      BY <1>6, <3>1, <3>2 DEF Replied
  <2>2. asked' \in 0 .. MaxAsked
    BY <1>6, IntakeBounds DEF Replied, IntakeInv, IntakeTypeOK
  <2>3. Rest'
    BY <1>6, <1>r, <2>1 DEF Replied, RawErrorsOnlyByTurns, RepliesSound, InContext, LooksLikeNewWork
  <2>4. IntakeTypeOK'
    BY <1>6, <2>2 DEF Replied, IntakeInv, IntakeTypeOK
  <2> QED
    BY <1>6, <1>a, <2>3, <2>4 DEF Replied, IntakeInv
<1>7. ASSUME NEW reply \in replies, Commented(reply) PROVE IntakeInv'
  <2>1. Rest'
    BY <1>7, <1>r DEF Commented, RawErrorsOnlyByTurns, RepliesSound, InContext, LooksLikeNewWork
  <2> QED
    BY <1>7, <1>a, <2>1 DEF Commented, IntakeInv, IntakeTypeOK
<1>8. CASE UNCHANGED intakeVars
  BY <1>8, <1>r, <1>a DEF intakeVars, IntakeInv, IntakeTypeOK
<1> QED
  BY <1>1, <1>2, <1>3, <1>4, <1>5, <1>6, <1>7, <1>8 DEF IntakeNext

\* For any number of leaders, whatever their statuses do between the lookups of a request, the raw
\* error of the host reaches people only when the leader it was sent to stopped being able to run
\* while the request was handled (actions.ts:172-197).
THEOREM RawErrorsAlwaysByTurns == IntakeSpec => []RawErrorsOnlyByTurns
<1>1. IntakeInv => RawErrorsOnlyByTurns
  BY DEF IntakeInv
<1> QED
  BY InitIntake, StepIntake, <1>1, PTL DEF IntakeSpec

\* For any feedback, with any links and of any companies, no reply is commented outside the issue of
\* the feedback of the company that was named, and none of them looks like new work
\* (agent-reply.ts:66-99, actions.ts:218-275).
THEOREM RepliesAlwaysInContext == IntakeSpec => []RepliesInContext
<1>1. IntakeInv => RepliesInContext
  BY DEF IntakeInv, RepliesSound, RepliesInContext, InContext
<1> QED
  BY InitIntake, StepIntake, <1>1, PTL DEF IntakeSpec

-----------------------------------------------------------------------------
(* CharacterComposer.                                                      *)

PartSpecs == Range(PartCatalog)
Selections == [partId : PartIds, hueShift : 0 .. MaxHue]

\* No part twice, and one of each single kind.
PartsFit(ps) ==
  \A i, j \in 1 .. Len(ps) :
    i # j => /\ ps[i].partId # ps[j].partId
             /\ SpecOf(ps[i].partId).kind \in SingleKinds =>
                  SpecOf(ps[j].partId).kind # SpecOf(ps[i].partId).kind

(* A composition that the validation lets pass. (The absent draft is told   *)
(* from every draft by its palette.)                                        *)
IsComposition(c) ==
  c \in [parts : Seq(Selections), palette : Nat, hueShift : 0 .. MaxHue] /\ PartsFit(c.parts)
IsDraft(d) == d = NoDraft \/ IsComposition(d)
IsRecord(r) == r.mode = "composition" => IsComposition(r.composition)

AreRecords(map) == /\ map = [a \in Wearers |-> map[a]]
                   /\ \A a \in Wearers : IsRecord(map[a])

SheetMaps == /\ sheetOf \in [Wearers -> 0 .. MaxPalette]
          /\ shown.sheets \in [Wearers -> -1 .. MaxPalette]
Records == /\ AreRecords(kept) /\ AreRecords(composed) /\ AreRecords(shown.records)
           /\ filling # NotFilling => AreRecords(filling.found)
Drafts == /\ working \in Wearers
          /\ drafts = [a \in Wearers |-> drafts[a]]
          /\ \A a \in Wearers : IsDraft(drafts[a])
\* A save that is awaited is the draft of its agent.
Awaited ==
  submitted # NotSubmitted =>
    /\ submitted.agent \in Wearers
    /\ submitted \in [agent : {submitted.agent}, at : {"asked", "written"},
                      composition : {drafts[submitted.agent]}]
    /\ IsComposition(drafts[submitted.agent])

ComposerInv == SheetMaps /\ Records /\ Drafts /\ Awaited

-----------------------------------------------------------------------------
(* Compositions.                                                            *)

LEMMA NotAbsent ==
  ASSUME NEW c, IsComposition(c)
  PROVE  c # NoDraft
  BY DEF IsComposition, NoDraft

LEMMA MaxHueNat == MaxHue \in Nat
  BY ComposerBounds

LEMMA EmptyIsOne == IsComposition(Empty)
<1>1. <<>> \in Seq(Selections) /\ Len(<<>>) = 0
  BY EmptySeq
<1>2. 0 \in 0 .. MaxHue
  BY MaxHueNat
<1> QED
  BY <1>1, <1>2 DEF IsComposition, Empty, PartsFit

LEMMA CompositionPasses ==
  ASSUME NEW c, IsComposition(c)
  PROVE  ValidComposition(c)
<1>1. c.parts \in Seq(Selections) /\ DOMAIN c.parts = 1 .. Len(c.parts)
  BY LenProperties DEF IsComposition
<1>2. \A i \in DOMAIN c.parts : c.parts[i] \in Selections
  BY <1>1, ElementOfSeq
<1>3. \A i \in DOMAIN c.parts : c.parts[i].partId \in PartIds /\ c.parts[i].hueShift \in 0 .. MaxHue
  BY <1>2 DEF Selections
<1>4. \A i, j \in DOMAIN c.parts :
       i # j => /\ c.parts[i].partId # c.parts[j].partId
                /\ SpecOf(c.parts[i].partId).kind \in SingleKinds =>
                     SpecOf(c.parts[j].partId).kind # SpecOf(c.parts[i].partId).kind
  BY <1>1 DEF IsComposition, PartsFit
<1>5. c.palette \in Nat /\ c.hueShift \in 0 .. MaxHue
  BY DEF IsComposition
<1> QED
  BY <1>3, <1>4, <1>5 DEF ValidComposition

LEMMA CatalogKnown ==
  /\ PartCatalog \in Seq(PartSpecs) /\ Len(PartCatalog) \in Nat
  /\ DOMAIN PartCatalog = 1 .. Len(PartCatalog)
  /\ \A p \in PartSpecs : p.id \in PartIds /\ SpecOf(p.id) = p
  /\ \A id \in PartIds : SpecOf(id) \in PartSpecs /\ SpecOf(id).id = id
<1>1. PartCatalog \in Seq(PartSpecs)
  BY ComposerBounds DEF PartsWellFormed, PartSpecs
<1>2. Len(PartCatalog) \in Nat /\ DOMAIN PartCatalog = 1 .. Len(PartCatalog)
  BY <1>1, LenProperties
<1>3. \A p \in PartSpecs : \E i \in DOMAIN PartCatalog : p = PartCatalog[i]
  BY DEF PartSpecs, Range
<1>4. \A i \in DOMAIN PartCatalog : PartCatalog[i] \in PartSpecs
  BY DEF PartSpecs, Range
<1>5. \A p, q \in PartSpecs : p.id = q.id => p = q
  BY <1>3, ComposerBounds DEF PartsWellFormed
<1>6. ASSUME NEW p \in PartSpecs PROVE p.id \in PartIds /\ SpecOf(p.id) = p
  <2>1. p.id \in PartIds
    BY <1>3 DEF PartIds
  <2>2. SpecOf(p.id) \in PartSpecs /\ SpecOf(p.id).id = p.id
    BY Zenon DEF SpecOf, PartSpecs
  <2> QED
    BY <1>5, <2>1, <2>2
<1>7. ASSUME NEW id \in PartIds PROVE SpecOf(id) \in PartSpecs /\ SpecOf(id).id = id
  <2>1. PICK p \in PartSpecs : p.id = id
    BY <1>4 DEF PartIds
  <2> QED
    BY <1>6, <2>1
<1> QED
  BY <1>1, <1>2, <1>6, <1>7

\* The parts of a kind are those of the catalog.
LEMMA OfKindKnown ==
  ASSUME NEW kind
  PROVE  /\ OfKind(kind) \in Seq(PartSpecs)
         /\ \A i \in DOMAIN OfKind(kind) : OfKind(kind)[i] \in PartSpecs /\ OfKind(kind)[i].kind = kind
         /\ \A id \in PartIds : IsOfKind(kind, id) <=> SpecOf(id).kind = kind
<1> DEFINE S == {p \in PartSpecs : p.kind = kind}
           o == Selected(PartCatalog, S)
<1>1. OfKind(kind) = o
  BY DEF OfKind, PartSpecs
<1>2. S \subseteq PartSpecs
  OBVIOUS
<1>3. o \in Seq(S) /\ \E h : Embeds(h, o, PartCatalog, Len(PartCatalog), S)
  <2> HIDE DEF S
  <2> QED
    BY CatalogKnown, SelectedType, SelectedEmbeds
<1>4. PICK h : Embeds(h, o, PartCatalog, Len(PartCatalog), S)
  BY <1>3
<1>5. o \in Seq(PartSpecs) /\ DOMAIN o = 1 .. Len(o)
  <2> HIDE DEF S, o
  <2> QED
    BY <1>2, <1>3, SeqMonotonic, LenProperties
<1>6. \A i \in DOMAIN o : o[i] \in S
  <2> HIDE DEF S, o
  <2> QED
    BY <1>3, <1>5, ElementOfSeq
<1>7. \A p \in S : \E i \in DOMAIN o : o[i] = p
  <2> SUFFICES ASSUME NEW p \in S PROVE \E i \in DOMAIN o : o[i] = p
    OBVIOUS
  <2>1. PICK k \in 1 .. Len(PartCatalog) : PartCatalog[k] = p
    BY CatalogKnown DEF PartSpecs, Range
  <2> HIDE DEF S, o
  <2>2. PICK i \in 1 .. Len(o) : h[i] = k
    BY <1>4, <2>1 DEF Embeds
  <2> QED
    BY <1>4, <1>5, <2>1, <2>2 DEF Embeds
<1>8. ASSUME NEW id \in PartIds PROVE IsOfKind(kind, id) <=> SpecOf(id).kind = kind
  <2>1. SpecOf(id) \in PartSpecs /\ SpecOf(id).id = id
    BY CatalogKnown
  <2>2. IsOfKind(kind, id) <=> \E i \in DOMAIN o : o[i].id = id
    BY <1>1 DEF IsOfKind
  <2>3. ASSUME NEW i \in DOMAIN o, o[i].id = id PROVE SpecOf(id).kind = kind
    <3>1. o[i] \in PartSpecs /\ o[i].kind = kind
      BY <1>6
    <3>2. SpecOf(id) = o[i]
      BY <2>3, <3>1, CatalogKnown
    <3> QED
      BY <3>1, <3>2
  <2>4. ASSUME SpecOf(id).kind = kind PROVE \E i \in DOMAIN o : o[i].id = id
    <3>1. SpecOf(id) \in S
      BY <2>1, <2>4
    <3> QED
      BY <1>7, <2>1, <3>1
  <2> QED
    BY <2>2, <2>3, <2>4
<1>9. \A i \in DOMAIN o : o[i] \in PartSpecs /\ o[i].kind = kind
  BY <1>6
<1> QED
  BY <1>1, <1>5, <1>8, <1>9

LEMMA PartsKeep ==
  ASSUME NEW c, IsComposition(c), NEW ps \in Seq(Selections), PartsFit(ps)
  PROVE  IsComposition([c EXCEPT !.parts = ps])
<1> DEFINE d == [c EXCEPT !.parts = ps]
<1>1. /\ d.palette = c.palette /\ d.hueShift = c.hueShift /\ d.parts = ps
      /\ d \in [parts : {ps}, palette : Nat, hueShift : 0 .. MaxHue]
  BY DEF IsComposition
<1> HIDE DEF d
<1> QED
  BY <1>1 DEF IsComposition

LEMMA HueKeeps ==
  ASSUME NEW c, IsComposition(c), NEW h \in 0 .. MaxHue
  PROVE  IsComposition([c EXCEPT !.hueShift = h])
<1> DEFINE d == [c EXCEPT !.hueShift = h]
<1>1. /\ d.palette = c.palette /\ d.hueShift = h /\ d.parts = c.parts
      /\ d \in [parts : {c.parts}, palette : Nat, hueShift : {h}]
  BY DEF IsComposition
<1> HIDE DEF d
<1> QED
  BY <1>1 DEF IsComposition

LEMMA PaletteKeeps ==
  ASSUME NEW c, IsComposition(c), NEW p \in Nat
  PROVE  IsComposition([c EXCEPT !.palette = p])
<1> DEFINE d == [c EXCEPT !.palette = p]
<1>1. /\ d.hueShift = c.hueShift /\ d.parts = c.parts
      /\ d \in [parts : {c.parts}, palette : Nat, hueShift : {c.hueShift}]
  BY DEF IsComposition
<1> HIDE DEF d
<1> QED
  BY <1>1 DEF IsComposition

LEMMA HueClamped ==
  ASSUME NEW typed \in Int
  PROVE  ClampHue(typed) \in 0 .. MaxHue
  BY MaxHueNat DEF ClampHue

\* Appending a part of a kind that is not worn yet keeps the parts fit.
LEMMA PartAdded ==
  ASSUME NEW ps \in Seq(Selections), PartsFit(ps), NEW e \in Selections,
         \A i \in 1 .. Len(ps) : SpecOf(ps[i].partId).kind # SpecOf(e.partId).kind
  PROVE  Append(ps, e) \in Seq(Selections) /\ PartsFit(Append(ps, e))
<1> DEFINE q == Append(ps, e)
<1>0. PICK n \in Nat : n = Len(ps)
  BY LenProperties
<1>1. /\ q \in Seq(Selections) /\ Len(q) = n + 1 /\ q[n + 1] = e
      /\ \A i \in 1 .. n : q[i] = ps[i]
  BY <1>0, AppendProperties
<1> HIDE DEF q
<1>2. ASSUME NEW i \in 1 .. n + 1, NEW j \in 1 .. n + 1, i # j
      PROVE  /\ q[i].partId # q[j].partId
             /\ SpecOf(q[i].partId).kind \in SingleKinds =>
                  SpecOf(q[j].partId).kind # SpecOf(q[i].partId).kind
  <2>1. CASE i = n + 1
    <3>1. j \in 1 .. n
      BY <1>0, <1>2, <2>1
    <3> QED
      BY <1>0, <1>1, <2>1, <3>1
  <2>2. CASE j = n + 1
    <3>1. i \in 1 .. n
      BY <1>0, <1>2, <2>2
    <3> QED
      BY <1>0, <1>1, <2>2, <3>1
  <2>3. CASE i # n + 1 /\ j # n + 1
    <3>1. i \in 1 .. n /\ j \in 1 .. n
      BY <1>0, <2>3
    <3> QED
      BY <1>0, <1>1, <1>2, <3>1 DEF PartsFit
  <2> QED
    BY <2>1, <2>2, <2>3
<1>3. PartsFit(q)
  BY <1>1, <1>2 DEF PartsFit
<1> QED
  BY <1>1, <1>3 DEF q

\* What is left of fit parts is fit.
LEMMA PartsRetained ==
  ASSUME NEW ps \in Seq(Selections), PartsFit(ps), NEW S
  PROVE  /\ Selected(ps, S) \in Seq(Selections) /\ PartsFit(Selected(ps, S))
         /\ \A i \in 1 .. Len(Selected(ps, S)) : Selected(ps, S)[i] \in S
<1> DEFINE r == Selected(ps, S)
<1>0. PICK n \in Nat : n = Len(ps)
  BY LenProperties
<1>1. PICK h : Embeds(h, r, ps, n, S)
  BY <1>0, SelectedEmbeds
<1>2. r \in Seq(S) /\ Len(r) \in Nat /\ DOMAIN r = 1 .. Len(r)
  BY <1>0, SelectedType, LenProperties
<1> HIDE DEF r
<1>3. \A i \in 1 .. Len(r) : h[i] \in 1 .. n /\ r[i] = ps[h[i]] /\ r[i] \in S
  BY <1>1 DEF Embeds
<1>4. \A i, j \in 1 .. Len(r) : i # j => h[i] # h[j]
  <2> SUFFICES ASSUME NEW i \in 1 .. Len(r), NEW j \in 1 .. Len(r), i # j PROVE h[i] # h[j]
    OBVIOUS
  <2>1. i < j \/ j < i
    BY <1>2
  <2>2. h[i] < h[j] \/ h[j] < h[i]
    BY <1>1, <2>1 DEF Embeds
  <2>3. h[i] \in Nat /\ h[j] \in Nat
    BY <1>3
  <2> QED
    BY <2>2, <2>3
<1>5. PartsFit(r)
  <2> SUFFICES ASSUME NEW i \in 1 .. Len(r), NEW j \in 1 .. Len(r), i # j
               PROVE  /\ r[i].partId # r[j].partId
                      /\ SpecOf(r[i].partId).kind \in SingleKinds =>
                           SpecOf(r[j].partId).kind # SpecOf(r[i].partId).kind
    BY DEF PartsFit
  <2>1. h[i] \in 1 .. Len(ps) /\ h[j] \in 1 .. Len(ps) /\ h[i] # h[j]
    BY <1>0, <1>3, <1>4
  <2>2. r[i] = ps[h[i]] /\ r[j] = ps[h[j]]
    BY <1>3
  <2>3. /\ ps[h[i]].partId # ps[h[j]].partId
        /\ SpecOf(ps[h[i]].partId).kind \in SingleKinds =>
             SpecOf(ps[h[j]].partId).kind # SpecOf(ps[h[i]].partId).kind
    BY <2>1, Zenon DEF PartsFit
  <2> QED
    BY <2>2, <2>3, Zenon
<1>6. \A i \in 1 .. Len(r) : r[i] \in Selections
  BY <1>0, <1>3, ElementOfSeq
<1>7. r \in Seq(Selections)
  BY <1>2, <1>6
<1> QED
  BY <1>3, <1>5, <1>7 DEF r

LEMMA SelectPartKeeps ==
  ASSUME NEW c, IsComposition(c), NEW p \in PartSpecs
  PROVE  IsComposition(SelectPart(c, p.kind, p.id))
<1> DEFINE S == {sel \in Range(c.parts) : ~ IsOfKind(p.kind, sel.partId)}
           r == Selected(c.parts, S)
           e == [partId |-> p.id, hueShift |-> 0]
<1>1. SelectPart(c, p.kind, p.id) = [c EXCEPT !.parts = Append(r, e)]
  BY Zenon DEF SelectPart
<1>2. c.parts \in Seq(Selections) /\ PartsFit(c.parts)
  BY DEF IsComposition
<1>3. e \in Selections /\ e.partId = p.id /\ SpecOf(p.id) = p
  BY CatalogKnown, MaxHueNat DEF Selections
<1>4. \A sel \in S : ~ IsOfKind(p.kind, sel.partId)
  OBVIOUS
<1>5. /\ r \in Seq(Selections) /\ PartsFit(r)
      /\ \A i \in 1 .. Len(r) : r[i] \in S
  <2> HIDE DEF S
  <2> QED
    BY <1>2, PartsRetained
<1> HIDE DEF r, S, e
<1>6. ASSUME NEW i \in 1 .. Len(r) PROVE SpecOf(r[i].partId).kind # p.kind
  <2>1. r[i] \in Selections
    BY <1>5, ElementOfSeq
  <2>2. r[i].partId \in PartIds
    BY <2>1 DEF Selections
  <2>3. ~ IsOfKind(p.kind, r[i].partId)
    BY <1>4, <1>5
  <2> QED
    BY <2>2, <2>3, OfKindKnown
<1>7. Append(r, e) \in Seq(Selections) /\ PartsFit(Append(r, e))
  BY <1>3, <1>5, <1>6, PartAdded
<1> QED
  BY <1>1, <1>7, PartsKeep

\* One part of each of some kinds.
OneOfEach(s, kinds) ==
  /\ s \in Seq(PartSpecs)
  /\ \A i \in 1 .. Len(s) : s[i].kind \in kinds
  /\ \A i, j \in 1 .. Len(s) : i # j => s[i].kind # s[j].kind

LEMMA OneMore ==
  ASSUME NEW kinds, NEW s, OneOfEach(s, kinds), NEW kind, kind \notin kinds,
         NEW t, t = <<>> \/ \E p \in PartSpecs : p.kind = kind /\ t = <<p>>
  PROVE  OneOfEach(s \o t, kinds \cup {kind})
<1>0. PICK n \in Nat : n = Len(s)
  BY LenProperties DEF OneOfEach
<1>1. CASE t = <<>>
  <2>1. s \o t = s
    BY <1>1, ConcatEmptySeq DEF OneOfEach
  <2> QED
    BY <2>1 DEF OneOfEach
<1>2. ASSUME NEW p \in PartSpecs, p.kind = kind, t = <<p>>
      PROVE  OneOfEach(s \o t, kinds \cup {kind})
  <2> DEFINE q == s \o t
  <2>1. /\ q \in Seq(PartSpecs) /\ Len(q) = n + 1 /\ q[n + 1] = p
        /\ \A i \in 1 .. n : q[i] = s[i]
    <3>1. q = Append(s, p)
      BY <1>2 DEF OneOfEach
    <3> HIDE DEF q
    <3> QED
      BY <1>0, <3>1, AppendProperties DEF OneOfEach
  <2> HIDE DEF q
  <2>2. ASSUME NEW i \in 1 .. n + 1 PROVE q[i].kind \in kinds \cup {kind}
    <3>1. CASE i = n + 1
      BY <1>2, <2>1, <3>1
    <3>2. CASE i # n + 1
      <4>1. i \in 1 .. n
        BY <1>0, <3>2
      <4> QED
        BY <1>0, <2>1, <4>1 DEF OneOfEach
    <3> QED
      BY <3>1, <3>2
  <2>3. ASSUME NEW i \in 1 .. n + 1, NEW j \in 1 .. n + 1, i # j PROVE q[i].kind # q[j].kind
    <3>1. CASE i = n + 1
      <4>1. j \in 1 .. n
        BY <1>0, <2>3, <3>1
      <4> QED
        BY <1>0, <1>2, <2>1, <3>1, <4>1 DEF OneOfEach
    <3>2. CASE j = n + 1
      <4>1. i \in 1 .. n
        BY <1>0, <2>3, <3>2
      <4> QED
        BY <1>0, <1>2, <2>1, <3>2, <4>1 DEF OneOfEach
    <3>3. CASE i # n + 1 /\ j # n + 1
      <4>1. i \in 1 .. n /\ j \in 1 .. n
        BY <1>0, <3>3
      <4> QED
        BY <1>0, <2>1, <2>3, <4>1 DEF OneOfEach
    <3> QED
      BY <3>1, <3>2, <3>3
  <2> QED
    BY <2>1, <2>2, <2>3 DEF OneOfEach, q
<1> QED
  BY <1>1, <1>2

LEMMA FromSheetIsOne ==
  ASSUME NEW palette \in Nat
  PROVE  IsComposition(FromWholeSheet(palette))
<1> DEFINE First(kind) == IF OfKind(kind) = <<>> THEN <<>> ELSE <<OfKind(kind)[1]>>
           options == OfKind("clothing")
           Cyclic == IF options = <<>> THEN <<>> ELSE <<options[(palette % Len(options)) + 1]>>
           specs == First("skin") \o Cyclic \o First("hair") \o First("face") \o First("accessory")
           ps == [i \in DOMAIN specs |-> [partId |-> specs[i].id, hueShift |-> 0]]
           May(t, kind) == t = <<>> \/ \E p \in PartSpecs : p.kind = kind /\ t = <<p>>
<1>1. FromWholeSheet(palette) = [parts |-> ps, palette |-> palette, hueShift |-> 0]
  BY Zenon DEF FromWholeSheet
<1>2. ASSUME NEW kind PROVE May(First(kind), kind)
  <2>1. CASE OfKind(kind) # <<>>
    <3>1. OfKind(kind) \in Seq(PartSpecs)
      BY OfKindKnown
    <3>2. 1 \in DOMAIN OfKind(kind)
      BY <2>1, <3>1, EmptySeq, LenProperties
    <3>3. OfKind(kind)[1] \in PartSpecs /\ OfKind(kind)[1].kind = kind
      BY <3>2, OfKindKnown
    <3> QED
      BY <2>1, <3>3
  <2> QED
    BY <2>1
<1>3. May(Cyclic, "clothing")
  <2>1. CASE options # <<>>
    <3>1. options \in Seq(PartSpecs)
      BY OfKindKnown
    <3>2. PICK n \in Nat : n = Len(options) /\ n > 0 /\ DOMAIN options = 1 .. n
      BY <2>1, <3>1, EmptySeq, LenProperties
    <3>3. (palette % n) + 1 \in 1 .. n
      BY <3>2
    <3>4. options[(palette % n) + 1] \in PartSpecs /\ options[(palette % n) + 1].kind = "clothing"
      BY <3>2, <3>3, OfKindKnown
    <3> QED
      BY <2>1, <3>2, <3>4
  <2> QED
    BY <2>1
<1>4. \E kinds : OneOfEach(specs, kinds)
  <2> HIDE DEF First, Cyclic
  <2>1. OneOfEach(<<>>, {})
    BY EmptySeq DEF OneOfEach
  <2>2. OneOfEach(<<>> \o First("skin"), {} \cup {"skin"})
    BY <1>2, <2>1, OneMore
  <2>3. OneOfEach(First("skin"), {"skin"})
    <3>1. First("skin") \in Seq(PartSpecs)
      <4>1. May(First("skin"), "skin")
        BY <1>2
      <4>2. ASSUME NEW p \in PartSpecs PROVE <<p>> \in Seq(PartSpecs)
        OBVIOUS
      <4>3. <<>> \in Seq(PartSpecs)
        BY EmptySeq
      <4> QED
        BY <4>1, <4>2, <4>3, Zenon
    <3>2. <<>> \o First("skin") = First("skin")
      BY <3>1, ConcatEmptySeq
    <3>3. {} \cup {"skin"} = {"skin"}
      OBVIOUS
    <3> QED
      BY <2>2, <3>2, <3>3
  <2>4. OneOfEach(First("skin") \o Cyclic, {"skin"} \cup {"clothing"})
    <3>1. "clothing" \notin {"skin"}
      OBVIOUS
    <3> QED
      BY <1>3, <2>3, <3>1, OneMore
  <2>5. OneOfEach(First("skin") \o Cyclic \o First("hair"), ({"skin"} \cup {"clothing"}) \cup {"hair"})
    <3>1. "hair" \notin {"skin"} \cup {"clothing"} /\ May(First("hair"), "hair")
      BY <1>2
    <3> QED
      BY <2>4, <3>1, OneMore
  <2>6. OneOfEach(First("skin") \o Cyclic \o First("hair") \o First("face"),
                  (({"skin"} \cup {"clothing"}) \cup {"hair"}) \cup {"face"})
    <3>1. "face" \notin ({"skin"} \cup {"clothing"}) \cup {"hair"} /\ May(First("face"), "face")
      BY <1>2
    <3> QED
      BY <2>5, <3>1, OneMore
  <2>7. OneOfEach(specs, ((({"skin"} \cup {"clothing"}) \cup {"hair"}) \cup {"face"}) \cup {"accessory"})
    <3>1. "accessory" \notin (({"skin"} \cup {"clothing"}) \cup {"hair"}) \cup {"face"}
          /\ May(First("accessory"), "accessory")
      BY <1>2
    <3> QED
      BY <2>6, <3>1, OneMore
  <2> QED
    BY <2>7
<1> HIDE DEF specs
<1>5. PICK n \in Nat : n = Len(specs) /\ DOMAIN specs = 1 .. n
  BY <1>4, LenProperties DEF OneOfEach
<1>6. \A i \in 1 .. n : specs[i] \in PartSpecs
  BY <1>4, <1>5, ElementOfSeq DEF OneOfEach
<1>7. \A i \in 1 .. n : /\ ps[i] = [partId |-> specs[i].id, hueShift |-> 0]
                        /\ ps[i] \in Selections /\ SpecOf(ps[i].partId) = specs[i]
  <2>1. 0 \in 0 .. MaxHue
    BY MaxHueNat
  <2> QED
    BY <1>5, <1>6, <2>1, CatalogKnown DEF Selections
<1>8. ps \in Seq(Selections) /\ Len(ps) = n
  <2>1. ps \in [1 .. n -> Selections]
    BY <1>5, <1>7
  <2> HIDE DEF ps
  <2> QED
    BY <2>1, <1>5
<1>9. PartsFit(ps)
  <2> SUFFICES ASSUME NEW i \in 1 .. n, NEW j \in 1 .. n, i # j
               PROVE  SpecOf(ps[j].partId).kind # SpecOf(ps[i].partId).kind
    BY <1>8 DEF PartsFit
  <2>1. specs[i].kind # specs[j].kind
    BY <1>4, <1>5 DEF OneOfEach
  <2> QED
    BY <1>7, <2>1
<1> HIDE DEF ps
<1>10. 0 \in 0 .. MaxHue
  BY MaxHueNat
<1> QED
  BY <1>1, <1>8, <1>9, <1>10 DEF IsComposition

LEMMA CompositionIsRecord ==
  ASSUME NEW c, IsComposition(c)
  PROVE  IsRecord(Composition(c))
  BY DEF IsRecord, Composition

LEMMA OthersAreRecords ==
  ASSUME NEW p
  PROVE  IsRecord(WholeSheet(p)) /\ IsRecord(NoRecord)
  BY DEF IsRecord, WholeSheet, NoRecord

LEMMA RecordWritten ==
  ASSUME NEW map, AreRecords(map), NEW a \in Wearers, NEW r, IsRecord(r)
  PROVE  AreRecords([map EXCEPT ![a] = r])
<1> DEFINE next == [map EXCEPT ![a] = r]
<1>1. next = [b \in Wearers |-> IF b = a THEN r ELSE map[b]]
  BY DEF AreRecords
<1> HIDE DEF next
<1> QED
  BY <1>1 DEF AreRecords

LEMMA NoRecords == AreRecords([a \in Wearers |-> NoRecord])
  BY OthersAreRecords DEF AreRecords

\* What the page edits is a composition.
LEMMA CurrentIsOne ==
  ASSUME ComposerInv, NEW a \in Wearers
  PROVE  IsComposition(Current(a))
<1>1. CASE drafts[a] # NoDraft
  BY <1>1 DEF Current, ComposerInv, Drafts, IsDraft
<1>2. CASE drafts[a] = NoDraft
  <2>1. IsComposition(Base(a))
    BY EmptyIsOne DEF Base, ComposerInv, Records, AreRecords, IsRecord
  <2> QED
    BY <1>2, <2>1 DEF Current
<1> QED
  BY <1>1, <1>2

-----------------------------------------------------------------------------
LEMMA InitComposer == ComposerInit => ComposerInv
<1> SUFFICES ASSUME ComposerInit PROVE ComposerInv
  OBVIOUS
<1>1. MaxPalette \in Nat
  BY ComposerBounds
<1>2. SheetMaps
  BY <1>1 DEF ComposerInit, SheetMaps
<1>3. Records
  BY NoRecords DEF ComposerInit, Records
<1>4. Awaited
  BY DEF ComposerInit, Awaited
<1>5. Drafts
  <2>1. Wearers # {}
    BY ComposerBounds
  <2> QED
    BY <2>1 DEF ComposerInit, Drafts, IsDraft
<1> QED
  BY <1>2, <1>3, <1>4, <1>5 DEF ComposerInv

\* The draft is a composition, and it is the only one that changes.
LEMMA SetDraftSound ==
  ASSUME ComposerInv, NEW c, IsComposition(c), SetDraft(c)
  PROVE  ComposerInv' /\ \A a \in Wearers : drafts'[a] = NoDraft => drafts[a] = NoDraft
<1>1. submitted = NotSubmitted /\ UNCHANGED <<sheetOf, kept, composed, filling, shown, working,
                                            submitted>>
  BY DEF SetDraft, Editable
<1>2. drafts' = [a \in Wearers |-> IF a = working THEN c ELSE drafts[a]]
  BY DEF SetDraft, ComposerInv, Drafts
<1>3. Drafts'
  BY <1>1, <1>2 DEF ComposerInv, Drafts, IsDraft
<1>4. SheetMaps' /\ Records' /\ Awaited'
  BY <1>1 DEF ComposerInv, SheetMaps, Records, AreRecords, Awaited
<1>5. c # NoDraft
  BY NotAbsent
<1> QED
  BY <1>2, <1>3, <1>4, <1>5 DEF ComposerInv

\* What a step does to the drafts: one is lost only to the answer to its save.
Lost(a) == drafts[a] # NoDraft /\ drafts'[a] = NoDraft
SavedNow(a) ==
  /\ submitted = [agent |-> a, at |-> "written", composition |-> drafts[a]]
  /\ composed'[a] = Composition(drafts[a])

LEMMA StepComposer ==
  ComposerInv /\ [ComposerNext]_composerVars => ComposerInv' /\ \A a \in Wearers : Lost(a) => SavedNow(a)
<1> SUFFICES ASSUME ComposerInv, [ComposerNext]_composerVars
             PROVE  ComposerInv' /\ \A a \in Wearers : Lost(a) => SavedNow(a)
  OBVIOUS
<1> DEFINE Goal == ComposerInv' /\ \A a \in Wearers : Lost(a) => SavedNow(a)
<1>0. MaxPalette \in Nat
  BY ComposerBounds
<1>u. UNCHANGED drafts => \A a \in Wearers : Lost(a) => SavedNow(a)
  BY DEF Lost
<1>s. ASSUME NEW c, IsComposition(c), SetDraft(c) PROVE Goal
  BY <1>s, SetDraftSound DEF Lost
<1>1. CASE PageLoads
  <2>1. SheetMaps'
    BY <1>1, <1>0 DEF PageLoads, ComposerInv, SheetMaps
  <2>2. Records'
    BY <1>1, NoRecords DEF PageLoads, ComposerInv, Records, AreRecords
  <2> QED
    BY <1>1, <1>u, <2>1, <2>2 DEF PageLoads, ComposerInv, Drafts, Awaited
<1>2. CASE PicksAgent
  BY <1>2, <1>u DEF PicksAgent, ComposerInv, SheetMaps, Records, AreRecords, Drafts, Awaited
<1>3. CASE EditsDraft
  <2>1. IsComposition(Current(working))
    BY CurrentIsOne DEF ComposerInv, Drafts
  <2>2. ASSUME NEW i \in DOMAIN PartCatalog,
               SetDraft(SelectPart(Current(working), PartCatalog[i].kind, PartCatalog[i].id))
        PROVE  Goal
    <3>1. PartCatalog[i] \in PartSpecs
      BY DEF PartSpecs, Range
    <3> QED
      BY <1>s, <2>1, <2>2, <3>1, SelectPartKeeps
  <2>3. ASSUME NEW typed \in HueInputs,
               SetDraft([Current(working) EXCEPT !.hueShift = ClampHue(typed)])
        PROVE  Goal
    <3>1. ClampHue(typed) \in 0 .. MaxHue
      BY ComposerBounds, HueClamped
    <3> QED
      BY <1>s, <2>1, <2>3, <3>1, HueKeeps
  <2>4. ASSUME NEW p \in 0 .. MaxPalette, SetDraft([Current(working) EXCEPT !.palette = p])
        PROVE  Goal
    <3>1. p \in Nat
      BY <1>0
    <3> QED
      BY <1>s, <2>1, <2>4, <3>1, PaletteKeeps
  <2> QED
    BY <1>3, <2>2, <2>3, <2>4 DEF EditsDraft
<1>4. CASE Converts
  <2>1. CASE shown.sheets[working] = -1
    BY <1>s, <1>4, <2>1, EmptyIsOne DEF Converts
  <2>2. CASE shown.sheets[working] # -1
    <3>1. shown.sheets[working] \in Nat
      BY <1>0, <2>2 DEF ComposerInv, SheetMaps, Drafts
    <3> QED
      BY <1>s, <1>4, <2>2, <3>1, FromSheetIsOne DEF Converts
  <2> QED
    BY <2>1, <2>2
<1>5. CASE SavesComposition
  <2>1. drafts[working] # NoDraft
    BY <1>5 DEF SavesComposition, Dirty
  <2>2. IsComposition(drafts[working]) /\ Current(working) = drafts[working]
    BY <2>1 DEF ComposerInv, Drafts, IsDraft, Current
  <2>3. submitted' = [agent |-> working, at |-> "asked", composition |-> drafts[working]]
    BY <1>5, <2>2 DEF SavesComposition
  <2>4. Awaited'
    BY <1>5, <2>2, <2>3 DEF SavesComposition, Awaited, ComposerInv, Drafts
  <2> QED
    BY <1>5, <1>u, <2>4 DEF SavesComposition, ComposerInv, SheetMaps, Records, AreRecords, Drafts
<1>6. CASE SaveRefused
  <2>1. submitted # NotSubmitted
    BY <1>6 DEF SaveRefused, NotSubmitted
  <2>2. drafts' = drafts
    BY <1>6, <2>1 DEF SaveRefused, DraftAfterRefusal, ComposerInv, Drafts, Awaited
  <2> QED
    BY <1>6, <1>u, <2>2 DEF SaveRefused, ComposerInv, SheetMaps, Records, AreRecords, Drafts, Awaited
<1>7. CASE SaveAccepted
  <2> DEFINE a == submitted.agent  c == submitted.composition
  <2>1. submitted # NotSubmitted
    BY <1>7 DEF SaveAccepted, NotSubmitted
  <2>2. a \in Wearers /\ c = drafts[a] /\ IsComposition(c)
    BY <2>1 DEF ComposerInv, Awaited
  <2>3. AreRecords(kept')
    BY <1>7, <2>2, CompositionIsRecord, RecordWritten DEF SaveAccepted, ComposerInv, Records
  <2>4. submitted' \in [agent : {a}, at : {"asked", "written"}, composition : {c}]
        /\ submitted'.agent = a
    BY <1>7, <2>1, <2>2 DEF SaveAccepted, ComposerInv, Awaited
  <2>5. Awaited'
    BY <1>7, <2>2, <2>4 DEF SaveAccepted, Awaited
  <2>6. Records'
    BY <1>7, <2>3 DEF SaveAccepted, ComposerInv, Records, AreRecords
  <2> QED
    BY <1>7, <1>u, <2>5, <2>6 DEF SaveAccepted, ComposerInv, SheetMaps, Drafts
<1>8. CASE SaveAnswered
  <2> DEFINE a == submitted.agent  c == submitted.composition
  <2>1. submitted # NotSubmitted
    BY <1>8 DEF SaveAnswered, NotSubmitted
  <2>2. a \in Wearers /\ c = drafts[a] /\ IsComposition(c)
    BY <2>1 DEF ComposerInv, Awaited
  <2>3. submitted = [agent |-> a, at |-> "written", composition |-> drafts[a]]
    BY <1>8, <2>1 DEF SaveAnswered, ComposerInv, Awaited
  <2>4. AreRecords(composed') /\ composed'[a] = Composition(c)
    BY <1>8, <2>2, CompositionIsRecord, RecordWritten DEF SaveAnswered, ComposerInv, Records, AreRecords
  <2>5. drafts' = [b \in Wearers |-> IF b = a THEN NoDraft ELSE drafts[b]]
    BY <1>8 DEF SaveAnswered, ComposerInv, Drafts
  <2>6. Records' /\ Awaited' /\ SheetMaps'
    BY <1>8, <2>4 DEF SaveAnswered, ComposerInv, SheetMaps, Records, AreRecords, Awaited
  <2>7. Drafts'
    BY <1>8, <2>5 DEF SaveAnswered, ComposerInv, Drafts, IsDraft
  <2>8. \A b \in Wearers : Lost(b) => SavedNow(b)
    BY <2>2, <2>3, <2>4, <2>5 DEF Lost, SavedNow
  <2> QED
    BY <2>6, <2>7, <2>8 DEF ComposerInv
<1>9. CASE SheetAssigned
  <2>1. sheetOf' \in [Wearers -> 0 .. MaxPalette]
    BY <1>9 DEF SheetAssigned, ComposerInv, SheetMaps
  <2> QED
    BY <1>9, <1>u, <2>1 DEF SheetAssigned, ComposerInv, SheetMaps, Records, AreRecords, Drafts, Awaited
<1>10. CASE FillStarts
  <2>1. filling' = [agents |-> {a \in Wearers : kept[a] = NoRecord}, found |-> kept]
    BY <1>10 DEF FillStarts
  <2>2. Records'
    BY <1>10, <2>1 DEF FillStarts, ComposerInv, Records, AreRecords
  <2> QED
    BY <1>10, <1>u, <2>2 DEF FillStarts, ComposerInv, SheetMaps, Drafts, Awaited
<1>11. ASSUME NEW a \in Wearers, FillWrites(a) PROVE Goal
  <2>1. AreRecords(filling.found)
    <3>1. filling # NotFilling
      BY <1>11 DEF FillWrites, NotFilling
    <3> QED
      BY <3>1 DEF ComposerInv, Records
  <2>2. AreRecords(kept')
    BY <1>11, OthersAreRecords, RecordWritten DEF FillWrites, ComposerInv, Records
  <2>3. IsRecord(kept'[a])
    BY <2>2 DEF AreRecords
  <2>4. AreRecords([filling.found EXCEPT ![a] = kept'[a]])
    BY <2>1, <2>3, RecordWritten
  <2>5. AreRecords(filling'.found)
    BY <1>11, <2>4 DEF FillWrites
  <2>6. Records'
    BY <1>11, <2>2, <2>5 DEF FillWrites, ComposerInv, Records, AreRecords
  <2> QED
    BY <1>11, <1>u, <2>6 DEF FillWrites, ComposerInv, SheetMaps, Drafts, Awaited
<1>12. CASE FillEnds
  <2>1. AreRecords(composed') /\ filling' = NotFilling
    BY <1>12 DEF FillEnds, ComposerInv, Records
  <2>2. Records'
    BY <1>12, <2>1 DEF FillEnds, ComposerInv, Records, AreRecords
  <2> QED
    BY <1>12, <1>u, <2>2 DEF FillEnds, ComposerInv, SheetMaps, Drafts, Awaited
<1>13. CASE WorkerStartsAnew
  <2>1. AreRecords(composed') /\ filling' = NotFilling
    BY <1>13, NoRecords DEF WorkerStartsAnew
  <2>2. Records'
    BY <1>13, <2>1 DEF WorkerStartsAnew, ComposerInv, Records, AreRecords
  <2> QED
    BY <1>13, <1>u, <2>2 DEF WorkerStartsAnew, ComposerInv, SheetMaps, Drafts, Awaited
<1>14. CASE UNCHANGED composerVars
  BY <1>14, <1>u DEF composerVars, ComposerInv, SheetMaps, Records, AreRecords, Drafts, Awaited
<1> QED
  BY <1>1, <1>2, <1>3, <1>4, <1>5, <1>6, <1>7, <1>8, <1>9, <1>10, <1>11, <1>12, <1>13, <1>14
  DEF ComposerNext

\* character-composer.tsx:263-301: a draft is discarded only by the answer that its save, with
\* exactly that composition, was written, whatever is refused, restarted or edited meanwhile.
THEOREM DraftsAlwaysSaved == ComposerSpec => DraftsSaved
<1>1. ComposerInv /\ [ComposerNext]_composerVars =>
        [\A a \in Wearers : drafts[a] # NoDraft /\ drafts'[a] = NoDraft =>
           /\ submitted = [agent |-> a, at |-> "written", composition |-> drafts[a]]
           /\ composed'[a] = Composition(drafts[a])]_composerVars
  BY StepComposer DEF Lost, SavedNow
<1>2. ComposerInv /\ [ComposerNext]_composerVars => ComposerInv'
  BY StepComposer
<1> QED
  BY InitComposer, <1>1, <1>2, PTL DEF ComposerSpec, DraftsSaved

\* Whatever is selected, typed, converted, saved and answered, in whatever order, a draft passes the
\* validation that its save meets, for every catalog whose identifiers differ (composition.ts
\* :274-343, character-composer.tsx:210-245).
THEOREM DraftsAlwaysValid == ComposerSpec => []DraftsValid
<1>1. ComposerInv => DraftsValid
  BY CompositionPasses DEF ComposerInv, Drafts, IsDraft, DraftsValid
<1>2. ComposerInv /\ [ComposerNext]_composerVars => ComposerInv'
  BY StepComposer
<1> QED
  BY InitComposer, <1>1, <1>2, PTL DEF ComposerSpec

-----------------------------------------------------------------------------
(* AgentCharacters.                                                        *)

\* While a job reads, what it found is its own; from then on it may be the worker's map.
IsJob(j) ==
  /\ j \in [id : {j.id}, at : {"read", "persist"}, roster : Seq(Everyone), left : Seq(Everyone),
            found : {j.found}, shares : BOOLEAN, created : {j.created}]
  /\ j.at = "read" => j.found = [a \in Everyone |-> j.found[a]] /\ ~ j.shares

IsSave(s) == s \in [agent : Everyone, choice : SheetChoices, written : BOOLEAN]

Staffed ==
  /\ hired \in Nat /\ hired <= Len(Staff)
  /\ stored = [a \in Everyone |-> stored[a]]
  /\ \A j \in jobs : IsJob(j)
  /\ saving # NoSave => IsSave(saving)

\* The job has found the agent without a record, and will give it a default.
FoundBy(j, a) ==
  IF j.at = "read" THEN a \in Range(j.roster) \ Range(j.left) /\ j.found[a] = Unassigned
  ELSE a \in Range(j.left)

\* What ChoiceKept says of agent a's record in a step.
RecordKept(a) == Safe(a) => Safe(a)' /\ (stored'[a] # stored[a] => Chosen(a))

LEMMA SafeIsBy ==
  ASSUME NEW a
  PROVE  /\ Safe(a) <=> stored[a] # Unassigned /\ \A j \in jobs : ~ FoundBy(j, a)
         /\ Safe(a)' <=> stored'[a] # Unassigned /\ \A j \in jobs' : ~ FoundBy(j, a)
  BY DEF Safe, FoundWithout, FoundBy

\* A record is kept that stays as it is, if only jobs that had missed it before, or that read that
\* there is none, have missed it after.
LEMMA KeptBy ==
  ASSUME NEW a, stored'[a] = stored[a],
         \A j \in jobs' :
           FoundBy(j, a) => stored[a] = Unassigned \/ \E k \in jobs : FoundBy(k, a)
  PROVE  RecordKept(a)
  BY SafeIsBy DEF RecordKept

LEMMA ChoiceAssigns ==
  ASSUME NEW c \in SheetChoices
  PROVE  c # Unassigned
<1>1. c.sheet \in 1 .. CatalogSize
  BY DEF SheetChoices
<1> QED
  BY <1>1 DEF Unassigned

LEMMA RosterIsSeq ==
  ASSUME NEW n \in Nat, n <= Len(Staff)
  PROVE  Roster(n) \in Seq(Everyone)
<1>1. Staff \in Seq(Everyone)
  BY CharacterBounds DEF Everyone
<1>2. Len(Staff) \in Nat
  BY <1>1, LenProperties
<1>3. \A i \in 1 .. n : Staff[i] \in Everyone
  BY <1>1, <1>2, ElementOfSeq
<1> QED
  BY <1>1, <1>2, <1>3, SubSeqProperties DEF Roster

LEMMA TailRange ==
  ASSUME NEW S, NEW s \in Seq(S), s # <<>>
  PROVE  /\ Head(s) \in S /\ Head(s) \in Range(s) /\ Tail(s) \in Seq(S)
         /\ \A x : x \in Range(s) <=> x = Head(s) \/ x \in Range(Tail(s))
<1>0. PICK n \in Nat : n = Len(s)
  BY LenProperties
<1>1. /\ n >= 1 /\ DOMAIN s = 1 .. n /\ Head(s) = s[1]
      /\ Tail(s) \in Seq(S) /\ DOMAIN Tail(s) = 1 .. n - 1
      /\ \A i \in 1 .. n - 1 : Tail(s)[i] = s[i + 1]
  <2>1. /\ Head(s) = s[1] /\ Tail(s) \in Seq(S) /\ Len(Tail(s)) = Len(s) - 1
        /\ \A i \in 1 .. Len(Tail(s)) : Tail(s)[i] = s[i + 1]
    BY HeadTailProperties
  <2>2. n >= 1 /\ DOMAIN s = 1 .. n
    BY <1>0, EmptySeq, LenProperties
  <2>3. DOMAIN Tail(s) = 1 .. Len(Tail(s))
    BY <2>1, LenProperties
  <2> QED
    BY <1>0, <2>1, <2>2, <2>3
<1>2. s[1] \in S /\ 1 \in 1 .. n
  BY <1>0, <1>1, ElementOfSeq
<1> DEFINE t == Tail(s)
<1>3. Range(s) = {s[i] : i \in 1 .. n} /\ Range(t) = {t[i] : i \in 1 .. n - 1}
  BY <1>1 DEF Range
<1> HIDE DEF t
<1>4. ASSUME NEW x \in Range(s) PROVE x = s[1] \/ x \in Range(t)
  <2>1. PICK i \in 1 .. n : x = s[i]
    BY <1>3
  <2>2. CASE i # 1
    <3>1. i - 1 \in 1 .. n - 1 /\ (i - 1) + 1 = i
      BY <1>0, <2>2
    <3>2. t[i - 1] = s[i]
      BY <1>1, <3>1 DEF t
    <3> QED
      BY <1>3, <2>1, <3>1, <3>2
  <2> QED
    BY <2>1, <2>2
<1>5. ASSUME NEW x \in Range(t) PROVE x \in Range(s)
  <2>1. PICK i \in 1 .. n - 1 : x = t[i]
    BY <1>3, <1>5
  <2>2. i + 1 \in 1 .. n /\ t[i] = s[i + 1]
    BY <1>0, <1>1, <2>1 DEF t
  <2> QED
    BY <1>3, <2>1, <2>2
<1> QED
  BY <1>1, <1>2, <1>3, <1>4, <1>5 DEF t

\* Who gets a default was found without a record, and is on the roster.
LEMMA CreatedFound ==
  ASSUME NEW job, job.roster \in Seq(Everyone)
  PROVE  /\ Created(job) \in Seq(Everyone)
         /\ \A a \in Range(Created(job)) : a \in Range(job.roster) /\ job.found[a] = Unassigned
<1> DEFINE s == job.roster  S == {a \in Everyone : job.found[a] = Unassigned}
           c == Selected(s, S)
<1>0. Len(s) \in Nat /\ DOMAIN s = 1 .. Len(s)
  BY LenProperties
<1>1. PICK h : Embeds(h, c, s, Len(s), S)
  <2> HIDE DEF S, s
  <2> QED
    BY <1>0, SelectedEmbeds
<1>2. c \in Seq(S)
  <2> HIDE DEF S, s
  <2> QED
    BY <1>0, SelectedType
<1>3. Len(c) \in Nat /\ DOMAIN c = 1 .. Len(c)
  BY <1>2, LenProperties
<1>4. Created(job) = c
  BY DEF Created
<1>5. c \in Seq(Everyone)
  <2>1. \A i \in 1 .. Len(c) : c[i] \in Everyone
    BY <1>2, <1>3, ElementOfSeq
  <2>2. S \subseteq Everyone
    OBVIOUS
  <2> HIDE DEF S, c
  <2> QED
    BY <1>2, <2>2, SeqMonotonic
<1>6. ASSUME NEW i \in 1 .. Len(c) PROVE c[i] \in S /\ \E k \in DOMAIN s : c[i] = s[k]
  <2> HIDE DEF S, c, s
  <2> QED
    BY <1>0, <1>1, <1>6 DEF Embeds
<1>7. \A a \in Range(c) : a \in Range(s) /\ a \in S
  <2> HIDE DEF S, c, s
  <2> QED
    BY <1>3, <1>6 DEF Range
<1> QED
  BY <1>4, <1>5, <1>7

LEMMA InitStaffed == CharactersInit => Staffed
<1> SUFFICES ASSUME CharactersInit PROVE Staffed
  OBVIOUS
<1>1. hired \in Nat /\ hired <= Len(Staff)
  BY CharacterBounds DEF CharactersInit
<1> QED
  BY <1>1 DEF CharactersInit, Staffed, NobodyRead

LEMMA StepStaffed ==
  Staffed /\ [CharactersNext]_characterVars => Staffed' /\ \A a \in Everyone : RecordKept(a)
<1> SUFFICES ASSUME Staffed, [CharactersNext]_characterVars
             PROVE  Staffed' /\ \A a \in Everyone : RecordKept(a)
  OBVIOUS
<1>1. CASE Hires
  <2>1. hired' \in Nat /\ hired' <= Len(Staff)
    <3>1. Len(Staff) \in Nat
      BY CharacterBounds, LenProperties
    <3> QED
      BY <1>1, <3>1 DEF Hires, Staffed
  <2>2. Staffed'
    BY <1>1, <2>1 DEF Hires, Staffed
  <2>3. \A a \in Everyone : RecordKept(a)
    BY <1>1, KeptBy DEF Hires
  <2> QED
    BY <2>2, <2>3
<1>2. CASE TickJob
  <2>1. PICK id : jobs' = jobs \cup {[id |-> id, at |-> "read", roster |-> Roster(hired),
                              left |-> Roster(hired), found |-> NobodyRead, shares |-> FALSE,
                              created |-> FALSE]}
    BY <1>2 DEF TickJob
  <2> DEFINE new == [id |-> id, at |-> "read", roster |-> Roster(hired),
                     left |-> Roster(hired), found |-> NobodyRead, shares |-> FALSE,
                     created |-> FALSE]
  <2>2. IsJob(new)
    <3>1. Roster(hired) \in Seq(Everyone)
      BY RosterIsSeq DEF Staffed
    <3> QED
      BY <3>1 DEF IsJob, NobodyRead
  <2>3. \A a : ~ FoundBy(new, a)
    BY DEF FoundBy
  <2> HIDE DEF new
  <2>4. Staffed'
    BY <1>2, <2>1, <2>2 DEF TickJob, Staffed, new
  <2>5. \A a \in Everyone : RecordKept(a)
    BY <1>2, <2>1, <2>3, KeptBy DEF TickJob, new
  <2> QED
    BY <2>4, <2>5
<1>3. ASSUME NEW job \in jobs, ReadRecord(job) PROVE Staffed' /\ \A a \in Everyone : RecordKept(a)
  <2> DEFINE h == Head(job.left)
             f == [job.found EXCEPT ![h] = stored[h]]
             next == [job EXCEPT !.found = f, !.left = Tail(job.left)]
  <2>1. jobs' = (jobs \ {job}) \cup {next}
    BY <1>3 DEF ReadRecord, Goes
  <2>2. IsJob(job) /\ job.at = "read" /\ job.left # <<>>
    BY <1>3 DEF ReadRecord, Staffed
  <2>3. /\ h \in Everyone /\ Tail(job.left) \in Seq(Everyone)
        /\ \A x : x \in Range(job.left) <=> x = h \/ x \in Range(Tail(job.left))
    BY <2>2, TailRange DEF IsJob
  <2>4. /\ next.id = job.id /\ next.at = "read" /\ next.roster = job.roster
        /\ next.left = Tail(job.left) /\ next.shares = job.shares /\ next.created = job.created
        /\ next.found = f
        /\ next \in [id : {job.id}, at : {"read", "persist"}, roster : Seq(Everyone),
                     left : Seq(Everyone), found : {f}, shares : BOOLEAN, created : {job.created}]
    <3> HIDE DEF f, h
    <3> QED
      BY <2>2, <2>3 DEF IsJob
  <2>5. next.found = [a \in Everyone |-> IF a = h THEN stored[h] ELSE job.found[a]]
    BY <2>2, <2>3, <2>4 DEF IsJob
  <2> HIDE DEF next, h
  <2>6. IsJob(next)
    BY <2>2, <2>3, <2>4, <2>5 DEF IsJob
  <2>7. \A a \in Everyone : FoundBy(next, a) => FoundBy(job, a) \/ stored[a] = Unassigned
    BY <2>2, <2>3, <2>4, <2>5 DEF FoundBy
  <2>8. Staffed'
    BY <1>3, <2>1, <2>6 DEF ReadRecord, Staffed
  <2>9. \A a \in Everyone : RecordKept(a)
    BY <1>3, <2>1, <2>7, KeptBy DEF ReadRecord
  <2> QED
    BY <2>8, <2>9
<1>4. ASSUME NEW job \in jobs, Materialize(job) PROVE Staffed' /\ \A a \in Everyone : RecordKept(a)
  <2> DEFINE shut(j) == [j EXCEPT !.shares = FALSE]
             next == [job EXCEPT !.at = "persist", !.found = held', !.left = Created(job),
                                 !.shares = TRUE, !.created = Created(job) # <<>>]
  <2>1. jobs' = {shut(j) : j \in jobs \ {job}} \cup {next}
    BY <1>4 DEF Materialize
  <2>2. IsJob(job) /\ job.at = "read" /\ job.left = <<>>
    BY <1>4 DEF Materialize, Staffed
  <2>3. ASSUME NEW j, IsJob(j)
        PROVE  IsJob(shut(j)) /\ \A a : FoundBy(shut(j), a) => FoundBy(j, a)
    <3>1. /\ shut(j).id = j.id /\ shut(j).at = j.at /\ shut(j).roster = j.roster
          /\ shut(j).left = j.left /\ shut(j).found = j.found /\ shut(j).created = j.created
          /\ shut(j).shares = FALSE
          /\ shut(j) \in [id : {j.id}, at : {"read", "persist"}, roster : Seq(Everyone),
                          left : Seq(Everyone), found : {j.found}, shares : BOOLEAN,
                          created : {j.created}]
      BY <2>3 DEF IsJob
    <3> HIDE DEF shut
    <3> QED
      BY <2>3, <3>1 DEF IsJob, FoundBy
  <2>4. /\ Created(job) \in Seq(Everyone)
        /\ \A a \in Range(Created(job)) : a \in Range(job.roster) /\ job.found[a] = Unassigned
    BY <2>2, CreatedFound DEF IsJob
  <2>5. Range(job.left) = {}
    BY <2>2 DEF Range
  <2>6. IsJob(next) /\ next.at = "persist" /\ next.left = Created(job)
    <3>1. /\ next.at = "persist" /\ next.left = Created(job) /\ next.found = held'
          /\ next.shares = TRUE /\ next.created = (Created(job) # <<>>) /\ next.id = job.id
          /\ next.roster = job.roster
          /\ next \in [id : {job.id}, at : {"read", "persist"}, roster : Seq(Everyone),
                       left : Seq(Everyone), found : {held'}, shares : BOOLEAN,
                       created : {Created(job) # <<>>}]
      BY <2>2, <2>4 DEF IsJob
    <3> HIDE DEF next
    <3> QED
      BY <3>1 DEF IsJob
  <2>7. \A a : FoundBy(next, a) => FoundBy(job, a)
    <3> HIDE DEF next
    <3> QED
      BY <2>2, <2>4, <2>5, <2>6 DEF FoundBy
  <2> HIDE DEF next, shut
  <2>8. \A j \in jobs' : IsJob(j) /\ \A a : FoundBy(j, a) => \E k \in jobs : FoundBy(k, a)
    BY <2>1, <2>3, <2>6, <2>7 DEF Staffed
  <2>9. Staffed'
    BY <1>4, <2>8 DEF Materialize, Staffed
  <2>10. \A a \in Everyone : RecordKept(a)
    BY <1>4, <2>8, KeptBy DEF Materialize
  <2> QED
    BY <2>9, <2>10
<1>5. ASSUME NEW job \in jobs, PersistDefault(job) PROVE Staffed' /\ \A a \in Everyone : RecordKept(a)
  <2> DEFINE h == Head(job.left)
             next == [job EXCEPT !.left = Tail(@)]
  <2>1. /\ jobs' = (jobs \ {job}) \cup {next}
        /\ stored' = [stored EXCEPT ![h] = job.found[h]]
    BY <1>5 DEF PersistDefault, Goes
  <2>2. IsJob(job) /\ job.at = "persist" /\ job.left # <<>>
    BY <1>5 DEF PersistDefault, Staffed
  <2>3. /\ h \in Everyone /\ h \in Range(job.left) /\ Tail(job.left) \in Seq(Everyone)
        /\ \A x : x \in Range(job.left) <=> x = h \/ x \in Range(Tail(job.left))
    BY <2>2, TailRange DEF IsJob
  <2>4. /\ next.at = "persist" /\ next.left = Tail(job.left)
        /\ IsJob(next)
    <3>1. /\ next.id = job.id /\ next.at = "persist" /\ next.left = Tail(job.left)
          /\ next.found = job.found /\ next.created = job.created
          /\ next \in [id : {job.id}, at : {"read", "persist"}, roster : Seq(Everyone),
                       left : Seq(Everyone), found : {job.found}, shares : BOOLEAN,
                       created : {job.created}]
      BY <2>2, <2>3 DEF IsJob
    <3> HIDE DEF next
    <3> QED
      BY <3>1 DEF IsJob
  <2> HIDE DEF next, h
  <2>5. \A a : FoundBy(next, a) => FoundBy(job, a)
    BY <2>2, <2>3, <2>4 DEF FoundBy
  <2>6. FoundBy(job, h)
    BY <2>2, <2>3 DEF FoundBy
  <2>7. stored' = [a \in Everyone |-> IF a = h THEN job.found[h] ELSE stored[a]]
    BY <2>1 DEF Staffed
  <2>8. Staffed'
    BY <1>5, <2>1, <2>4, <2>7 DEF PersistDefault, Staffed
  <2>9. ~ Safe(h)
    BY <2>6, SafeIsBy
  <2>10. ASSUME NEW a \in Everyone PROVE RecordKept(a)
    <3>1. CASE a = h
      BY <2>9, <3>1 DEF RecordKept
    <3>2. CASE a # h
      BY <2>1, <2>5, <2>7, <3>2, KeptBy
    <3> QED
      BY <3>1, <3>2
  <2> QED
    BY <2>8, <2>10
<1>6. ASSUME NEW job \in jobs, Reconciled(job) \/ JobFails(job) PROVE Staffed' /\ \A a \in Everyone : RecordKept(a)
  <2>1. /\ jobs' = jobs \ {job}
        /\ UNCHANGED <<hired, stored, saving>>
    BY <1>6 DEF Reconciled, JobFails
  <2>2. Staffed'
    BY <2>1 DEF Staffed
  <2>3. \A a \in Everyone : RecordKept(a)
    BY <2>1, KeptBy
  <2> QED
    BY <2>2, <2>3
<1>7. ASSUME NEW a \in Everyone, NEW choice \in SheetChoices, Save(a, choice) PROVE Staffed' /\ \A b \in Everyone : RecordKept(b)
  <2>1. saving = NoSave /\ saving' = [agent |-> a, choice |-> choice, written |-> FALSE]
    BY <1>7 DEF Save
  <2>2. IsSave(saving') /\ ~ saving'.written
    BY <2>1 DEF IsSave
  <2>3. Staffed'
    BY <1>7, <2>2 DEF Save, Staffed
  <2>4. \A b \in Everyone : RecordKept(b)
    BY <1>7, KeptBy DEF Save
  <2> QED
    BY <2>3, <2>4
<1>8. CASE SaveWritten
  <2>1. saving # NoSave /\ IsSave(saving) /\ ~ saving.written
    BY <1>8 DEF SaveWritten, Staffed
  <2> DEFINE b == saving.agent  c == saving.choice
  <2>2. b \in Everyone /\ c \in SheetChoices /\ c # Unassigned
    BY <2>1, ChoiceAssigns DEF IsSave
  <2>3. IsSave(saving') /\ saving'.agent = b /\ saving'.choice = c
    BY <1>8, <2>1 DEF SaveWritten, IsSave
  <2>4. stored' = [a \in Everyone |-> IF a = b THEN c ELSE stored[a]]
    BY <1>8, <2>2 DEF SaveWritten, Staffed
  <2>5. Staffed'
    BY <1>8, <2>3, <2>4 DEF SaveWritten, Staffed
  <2>6. UNCHANGED jobs
    BY <1>8 DEF SaveWritten
  <2>7. ASSUME NEW a \in Everyone PROVE RecordKept(a)
    <3>1. CASE a = b
      <4>1. stored'[a] = c /\ Chosen(a)
        BY <2>1, <2>4, <3>1 DEF Chosen
      <4> QED
        BY <2>2, <2>6, <4>1, SafeIsBy DEF RecordKept
    <3>2. CASE a # b
      BY <2>4, <2>6, <3>2, KeptBy
    <3> QED
      BY <3>1, <3>2
  <2> QED
    BY <2>5, <2>7
<1>9. CASE SaveFails
  <2>1. Staffed'
    BY <1>9 DEF SaveFails, Staffed
  <2>2. \A a \in Everyone : RecordKept(a)
    BY <1>9, KeptBy DEF SaveFails
  <2> QED
    BY <2>1, <2>2
<1>10. CASE SaveConfirmed
  <2>1. saving # NoSave /\ IsSave(saving) /\ saving.written
    BY <1>10 DEF SaveConfirmed, Staffed
  <2> DEFINE informed(j) == [j EXCEPT !.found = IF j.shares THEN held' ELSE @]
  <2>2. jobs' = {informed(j) : j \in jobs}
    BY <1>10 DEF SaveConfirmed
  <2>3. ASSUME NEW j, IsJob(j)
        PROVE  IsJob(informed(j)) /\ \A a : FoundBy(informed(j), a) => FoundBy(j, a)
    <3>1. PICK f : f = IF j.shares THEN held' ELSE j.found
      OBVIOUS
    <3>2. informed(j) = [j EXCEPT !.found = f]
      BY <3>1
    <3>3. /\ informed(j).id = j.id /\ informed(j).at = j.at /\ informed(j).roster = j.roster
          /\ informed(j).left = j.left /\ informed(j).found = f /\ informed(j).created = j.created
          /\ informed(j).shares = j.shares
          /\ informed(j) \in [id : {j.id}, at : {"read", "persist"}, roster : Seq(Everyone),
                          left : Seq(Everyone), found : {f}, shares : BOOLEAN,
                          created : {j.created}]
      BY <2>3, <3>2 DEF IsJob
    <3>4. j.at = "read" => f = j.found
      BY <2>3, <3>1 DEF IsJob
    <3> HIDE DEF informed
    <3> QED
      BY <2>3, <3>3, <3>4 DEF IsJob, FoundBy
  <2> HIDE DEF informed
  <2>4. \A j \in jobs' : IsJob(j) /\ \A a : FoundBy(j, a) => \E k \in jobs : FoundBy(k, a)
    BY <2>2, <2>3 DEF Staffed
  <2>5. Staffed'
    BY <1>10, <2>4 DEF SaveConfirmed, Staffed
  <2>6. \A a \in Everyone : RecordKept(a)
    BY <1>10, <2>4, KeptBy DEF SaveConfirmed
  <2> QED
    BY <2>5, <2>6
<1>11. CASE UNCHANGED characterVars
  <2>1. Staffed'
    BY <1>11 DEF characterVars, Staffed
  <2>2. \A a \in Everyone : RecordKept(a)
    BY <1>11, KeptBy DEF characterVars
  <2> QED
    BY <2>1, <2>2
<1> QED
  BY <1>1, <1>2, <1>3, <1>4, <1>5, <1>6, <1>7, <1>8, <1>9, <1>10, <1>11
  DEF CharactersNext, JobStep

\* Once no reconcile is under way that had read an agent's record before there was one, nothing
\* but a save of the user replaces the record, for any number of agents, saves and overlapping
\* jobs, wherever they fail (worker.ts:334-341, persistence.ts:105-144).
THEOREM ChoicesAlwaysKept == CharactersSpec => ChoiceKept
<1>1. Staffed /\ [CharactersNext]_characterVars =>
        [\A a \in Everyone :
           Safe(a) => Safe(a)' /\ (stored'[a] # stored[a] => Chosen(a))]_characterVars
  BY StepStaffed DEF RecordKept
<1>2. Staffed /\ [CharactersNext]_characterVars => Staffed'
  BY StepStaffed
<1> QED
  BY InitStaffed, <1>1, <1>2, PTL DEF CharactersSpec, ChoiceKept

-----------------------------------------------------------------------------
(* The characters that are given by themselves.                            *)

\* No two rounds in which a character can be used give it the same hue.
ShiftsDiffer ==
  \A i, j \in 0 .. Cardinality(Everyone) - 1 : ReuseShift(i) = ReuseShift(j) => i = j

\* What plugin state, the worker and the feed have: a character for each agent, or none.
Maps == [Everyone -> Assignments \cup {Unassigned}]

\* The map after agent a is given x.
Given(map, a, x) == [map EXCEPT ![a] = x]

\* The agents that wear a character, in whatever hue: what Usage counts.
Users(map, sheet) == {a \in Everyone : map[a].sheet = sheet}

\* Everyone's hue is that of a round before the next of the character, and no two look the same.
Ranked(map) ==
  /\ map \in Maps
  /\ \A a \in Everyone : map[a] # Unassigned =>
       \E r \in 0 .. Usage(map, map[a].sheet) - 1 : map[a].hue = ReuseShift(r)
  /\ \A a, b \in Everyone : a # b /\ map[a] # Unassigned => map[a] # map[b]

LEMMA AssignedIsNot ==
  ASSUME NEW x \in Assignments
  PROVE  x # Unassigned /\ x.sheet \in 1 .. CatalogSize /\ x.hue \in 0 .. MaxShift
<1>1. x.sheet \in 1 .. CatalogSize /\ x.hue \in 0 .. MaxShift
  BY DEF Assignments
<1>2. Unassigned.sheet = 0
  BY DEF Unassigned
<1> QED
  BY <1>1, <1>2

LEMMA EveryoneFinite == IsFiniteSet(Everyone) /\ Cardinality(Everyone) <= Len(Staff)
<1>1. Staff \in Seq(Everyone) /\ Everyone = Range(Staff)
  BY CharacterBounds DEF Everyone
<1>2. PICK n \in Nat : n = Len(Staff) /\ DOMAIN Staff = 1 .. n /\ \A i \in 1 .. n : Staff[i] \in Everyone
  BY <1>1, LenProperties, ElementOfSeq
<1>3. Staff \in Surjection(1 .. n, Everyone)
  <2>1. Staff \in [1 .. n -> Everyone]
    BY <1>1, <1>2
  <2>2. \A a \in Everyone : \E i \in 1 .. n : Staff[i] = a
    BY <1>1, <1>2 DEF Range
  <2> QED
    BY <2>1, <2>2 DEF Surjection
<1>4. IsFiniteSet(1 .. n) /\ Cardinality(1 .. n) = n
  BY FS_Interval
<1> QED
  BY <1>2, <1>3, <1>4, FS_Surjection

LEMMA UsageCounts ==
  ASSUME NEW map \in Maps
  PROVE  \A sheet : /\ Usage(map, sheet) = Cardinality(Users(map, sheet))
                    /\ IsFiniteSet(Users(map, sheet)) /\ Usage(map, sheet) \in Nat
<1> TAKE sheet
<1>1. Usage(map, sheet) = Cardinality(Users(map, sheet))
  BY DEF Usage, Users, Maps
<1>2. Users(map, sheet) \in SUBSET Everyone
  BY DEF Users
<1>3. IsFiniteSet(Users(map, sheet))
  BY <1>2, EveryoneFinite, FS_Subset
<1> QED
  BY <1>1, <1>3, FS_CardinalityType

\* One more wears its sheet, which nobody but the others can have worn before.
LEMMA UsageGrows ==
  ASSUME NEW map \in Maps, NEW a \in Everyone, map[a] = Unassigned, NEW x \in Assignments,
         NEW next, next = Given(map, a, x)
  PROVE  /\ next \in Maps
         /\ Usage(next, x.sheet) = Usage(map, x.sheet) + 1
         /\ Usage(map, x.sheet) \in 0 .. Cardinality(Everyone) - 1
         /\ \A sheet \in 1 .. CatalogSize : sheet # x.sheet => Usage(next, sheet) = Usage(map, sheet)
<1>1. /\ next = [b \in Everyone |-> IF b = a THEN x ELSE map[b]] /\ next \in Maps
  BY DEF Maps, Given
<1>2. map[a].sheet = 0 /\ x.sheet \in 1 .. CatalogSize
  BY AssignedIsNot DEF Unassigned
<1>3. Users(next, x.sheet) = Users(map, x.sheet) \cup {a} /\ a \notin Users(map, x.sheet)
  BY <1>1, <1>2 DEF Users
<1>4. \A sheet \in 1 .. CatalogSize : sheet # x.sheet => Users(next, sheet) = Users(map, sheet)
  BY <1>1, <1>2 DEF Users
<1>5. Usage(next, x.sheet) = Usage(map, x.sheet) + 1
  <2>1. /\ Usage(next, x.sheet) = Cardinality(Users(next, x.sheet))
        /\ Usage(map, x.sheet) = Cardinality(Users(map, x.sheet))
        /\ IsFiniteSet(Users(map, x.sheet))
    BY <1>1, UsageCounts
  <2>2. PICK U : U = Users(map, x.sheet)
    OBVIOUS
  <2>3. Cardinality(U \cup {a}) = Cardinality(U) + 1
    BY <1>3, <2>1, <2>2, FS_AddElement
  <2> QED
    BY <1>3, <2>1, <2>2, <2>3
<1>6. \A sheet \in 1 .. CatalogSize : sheet # x.sheet => Usage(next, sheet) = Usage(map, sheet)
  BY <1>1, <1>4, UsageCounts
<1>7. Usage(next, x.sheet) <= Cardinality(Everyone)
  <2>1. Users(next, x.sheet) \in SUBSET Everyone
    BY DEF Users
  <2>2. Cardinality(Users(next, x.sheet)) <= Cardinality(Everyone)
    BY <2>1, EveryoneFinite, FS_Subset
  <2>3. Usage(next, x.sheet) = Cardinality(Users(next, x.sheet))
    BY <1>1, UsageCounts
  <2> QED
    BY <2>2, <2>3
<1>8. Cardinality(Everyone) \in Nat
  BY EveryoneFinite, FS_CardinalityType
<1>9. Usage(map, x.sheet) \in Nat
  BY UsageCounts
<1>10. Usage(map, x.sheet) \in 0 .. Cardinality(Everyone) - 1
  BY <1>5, <1>7, <1>8, <1>9
<1> QED
  BY <1>1, <1>5, <1>6, <1>10

\* What the next round of a character gives, nobody has.
LEMMA RankedGrows ==
  ASSUME ShiftsDiffer, NEW map, Ranked(map), NEW a \in Everyone, map[a] = Unassigned,
         NEW x \in Assignments, x.hue = ReuseShift(Usage(map, x.sheet)),
         NEW next, next = Given(map, a, x)
  PROVE  Ranked(next)
<1>0. map \in Maps
  BY DEF Ranked
<1>1. /\ next \in Maps
      /\ Usage(next, x.sheet) = Usage(map, x.sheet) + 1
      /\ Usage(map, x.sheet) \in 0 .. Cardinality(Everyone) - 1
      /\ \A sheet \in 1 .. CatalogSize : sheet # x.sheet => Usage(next, sheet) = Usage(map, sheet)
  BY <1>0, UsageGrows
<1>2. next[a] = x /\ \A b \in Everyone : b # a => next[b] = map[b]
  BY <1>0 DEF Maps, Given
<1>3. PICK u \in Nat : u = Usage(map, x.sheet) /\ u \in 0 .. Cardinality(Everyone) - 1
  BY <1>1
<1>4. \A b \in Everyone : map[b] # Unassigned => map[b] \in Assignments /\ map[b].sheet \in 1 .. CatalogSize
  BY <1>0, AssignedIsNot DEF Maps
<1>5. ASSUME NEW b \in Everyone, next[b] # Unassigned
      PROVE  \E r \in 0 .. Usage(next, next[b].sheet) - 1 : next[b].hue = ReuseShift(r)
  <2>1. CASE b = a
    <3>1. u \in 0 .. Usage(next, next[b].sheet) - 1 /\ next[b].hue = ReuseShift(u)
      BY <1>1, <1>2, <1>3, <2>1
    <3> QED
      BY <3>1
  <2>2. CASE b # a
    <3>1. next[b] = map[b] /\ map[b].sheet \in 1 .. CatalogSize
      BY <1>2, <1>4, <1>5, <2>2
    <3>2. PICK r \in 0 .. Usage(map, map[b].sheet) - 1 : map[b].hue = ReuseShift(r)
      BY <1>2, <1>5, <2>2 DEF Ranked
    <3>3. Usage(map, map[b].sheet) \in Nat
      BY <1>0, UsageCounts
    <3>4. Usage(next, next[b].sheet) \in {Usage(map, map[b].sheet), Usage(map, map[b].sheet) + 1}
      BY <1>1, <3>1
    <3>5. r \in 0 .. Usage(next, next[b].sheet) - 1
      BY <3>3, <3>4
    <3> QED
      BY <3>1, <3>2, <3>5
  <2> QED
    BY <2>1, <2>2
<1>6. ASSUME NEW b \in Everyone, b # a, map[b] # Unassigned PROVE map[b] # x
  <2>1. SUFFICES ASSUME map[b] = x PROVE FALSE
    OBVIOUS
  <2>2. PICK r \in 0 .. Usage(map, map[b].sheet) - 1 : map[b].hue = ReuseShift(r)
    BY <1>6 DEF Ranked
  <2>3. r \in 0 .. u - 1 /\ ReuseShift(r) = ReuseShift(u)
    BY <1>3, <2>1, <2>2
  <2>4. Cardinality(Everyone) \in Nat
    BY EveryoneFinite, FS_CardinalityType
  <2>5. r \in 0 .. Cardinality(Everyone) - 1 /\ r # u
    BY <1>3, <2>3, <2>4
  <2> QED
    BY <1>3, <2>3, <2>5 DEF ShiftsDiffer
<1>7. x # Unassigned
  BY AssignedIsNot
<1>8. ASSUME NEW b \in Everyone, NEW c \in Everyone, b # c, next[b] # Unassigned PROVE next[b] # next[c]
  <2>1. CASE b = a
    BY <1>2, <1>6, <1>7, <1>8, <2>1
  <2>2. CASE c = a
    BY <1>2, <1>6, <1>8, <2>2
  <2>3. CASE b # a /\ c # a
    BY <1>2, <1>8, <2>3 DEF Ranked
  <2> QED
    BY <2>1, <2>2, <2>3
<1> QED
  BY <1>1, <1>5, <1>8 DEF Ranked
-----------------------------------------------------------------------------
LEMMA ProductNat ==
  ASSUME NEW i \in Nat, NEW j \in Nat
  PROVE  i * j \in Nat
  OBVIOUS

LEMMA Remainder ==
  ASSUME NEW i \in Nat, NEW d \in Nat, d > 0
  PROVE  i % d \in 0 .. d - 1
  OBVIOUS

LEMMA ShiftInRange ==
  ASSUME NEW round \in Nat
  PROVE  ReuseShift(round) \in 0 .. MaxShift
<1>1. MinShift \in Nat /\ Stride \in Nat /\ MaxShift \in Nat /\ MinShift < MaxShift
  BY CharacterBounds
<1>2. CASE round = 0
  BY <1>1, <1>2 DEF ReuseShift
<1>3. CASE round # 0
  <2>1. PICK p \in Nat : p = (round - 1) * Stride
    BY <1>1, <1>3, ProductNat
  <2>2. PICK d \in Nat : d = MaxShift - MinShift /\ d > 0
    BY <1>1
  <2>3. PICK q \in 0 .. d - 1 : q = p % d
    BY <2>2, Remainder
  <2>4. ReuseShift(round) = MinShift + q
    BY <1>3, <2>1, <2>2, <2>3 DEF ReuseShift
  <2> QED
    BY <1>1, <2>2, <2>4
<1> QED
  BY <1>2, <1>3

\* Some character is used least.
LEMMA CandidatesExist ==
  ASSUME NEW map \in Maps
  PROVE  /\ Candidates(map) \in Seq(1 .. CatalogSize)
         /\ Len(Candidates(map)) \in Nat \ {0}
<1> DEFINE N == CatalogSize
           S == {s \in 1 .. N : \A t \in 1 .. N : Usage(map, s) <= Usage(map, t)}
           all == [s \in 1 .. N |-> s]
           c == Selected(all, S)
<1>0. N \in Nat \ {0}
  BY CharacterBounds
<1>1. all \in Seq(1 .. N) /\ Len(all) = N
  BY <1>0
<1>2. PICK least \in 1 .. N : \A t \in 1 .. N : Usage(map, least) <= Usage(map, t)
  <2> DEFINE T == {Usage(map, s) : s \in 1 .. N}
  <2>1. T \subseteq Nat
    BY UsageCounts
  <2>2. T # {}
    BY <1>0
  <2>3. PICK m \in T : \A k \in T : m <= k
    <3> HIDE DEF T
    <3> QED
      BY <2>1, <2>2, LeastElement
  <2> QED
    BY <2>3
<1>3. Candidates(map) = c
  BY DEF Candidates
<1>4. S \subseteq 1 .. N /\ least \in S
  BY <1>2
<1> HIDE DEF S
<1>5. c \in Seq(S)
  <2> HIDE DEF all
  <2> QED
    BY <1>0, <1>1, SelectedType
<1>6. PICK h : Embeds(h, c, all, N, S)
  <2> HIDE DEF all
  <2> QED
    BY <1>0, <1>1, SelectedEmbeds
<1>7. PICK i \in 1 .. Len(c) : h[i] = least
  <2>1. all[least] \in S
    BY <1>2, <1>4
  <2> HIDE DEF all, c
  <2> QED
    BY <1>2, <1>6, <2>1 DEF Embeds
<1> HIDE DEF c
<1>8. Len(c) \in Nat /\ Len(c) # 0
  BY <1>5, <1>7, LenProperties
<1>9. c \in Seq(1 .. N)
  BY <1>4, <1>5, SeqMonotonic
<1> QED
  BY <1>3, <1>8, <1>9

\* A default is a character of the catalog in the hue of its next round.
LEMMA DefaultIsNext ==
  ASSUME draw \in [Everyone -> 0 .. 1], NEW map \in Maps, NEW a \in Everyone,
         NEW x, x = DefaultFor(map, a)
  PROVE  x \in Assignments /\ x.hue = ReuseShift(Usage(map, x.sheet))
<1> DEFINE c == Candidates(map)
<1>1. PICK n \in Nat \ {0} : n = Len(c) /\ c \in Seq(1 .. CatalogSize)
  BY CandidatesExist
<1>2. PICK d \in 0 .. 1 : d = draw[a]
  OBVIOUS
<1>3. ((d * n) \div 2) + 1 \in 1 .. n
  <2>1. CASE d = 0
    BY <2>1
  <2>2. CASE d = 1
    BY <2>2
  <2> QED
    BY <2>1, <2>2
<1>4. PICK s \in 1 .. CatalogSize : s = c[((d * n) \div 2) + 1]
  BY <1>1, <1>3, ElementOfSeq
<1>5. PICK r : r = ReuseShift(Usage(map, s))
  OBVIOUS
<1>6. r \in 0 .. MaxShift
  BY <1>5, UsageCounts, ShiftInRange
<1>7. x = [sheet |-> s, hue |-> r]
  BY <1>1, <1>2, <1>4, <1>5 DEF DefaultFor
<1> QED
  BY <1>5, <1>6, <1>7 DEF Assignments

LEMMA WithDefaultGiven ==
  ASSUME NEW map, NEW a, map[a] = Unassigned
  PROVE  WithDefault(map, a) = Given(map, a, DefaultFor(map, a))
<1>1. {[m EXCEPT ![a] = DefaultFor(m, a)] : m \in {map}} = {Given(map, a, DefaultFor(map, a))}
  BY DEF Given
<1> QED
  BY <1>1 DEF WithDefault

LEMMA WithDefaultType ==
  ASSUME draw \in [Everyone -> 0 .. 1], NEW map \in Maps, NEW a \in Everyone
  PROVE  /\ WithDefault(map, a) \in Maps
         /\ WithDefault(map, a)[a] # Unassigned
         /\ \A b \in Everyone : b # a \/ map[b] # Unassigned => WithDefault(map, a)[b] = map[b]
<1>1. CASE map[a] # Unassigned
  BY <1>1 DEF WithDefault
<1>2. CASE map[a] = Unassigned
  <2>1. PICK x \in Assignments : WithDefault(map, a) = Given(map, a, x)
    BY <1>2, WithDefaultGiven, DefaultIsNext
  <2>2. x # Unassigned
    BY AssignedIsNot
  <2>3. Given(map, a, x) = [b \in Everyone |-> IF b = a THEN x ELSE map[b]]
    BY DEF Given, Maps
  <2> QED
    BY <1>2, <2>1, <2>2, <2>3 DEF Maps
<1> QED
  BY <1>1, <1>2

LEMMA WithDefaultRanked ==
  ASSUME draw \in [Everyone -> 0 .. 1], ShiftsDiffer, NEW map, Ranked(map), NEW a \in Everyone
  PROVE  Ranked(WithDefault(map, a))
<1>1. CASE map[a] # Unassigned
  BY <1>1 DEF WithDefault
<1>2. CASE map[a] = Unassigned
  <2>0. map \in Maps
    BY DEF Ranked
  <2>1. PICK x \in Assignments : /\ WithDefault(map, a) = Given(map, a, x)
                                 /\ x.hue = ReuseShift(Usage(map, x.sheet))
    BY <1>2, <2>0, WithDefaultGiven, DefaultIsNext
  <2> QED
    BY <1>2, <2>1, RankedGrows
<1> QED
  BY <1>1, <1>2
-----------------------------------------------------------------------------
\* f[n] is the map when the first n of the roster have a default.
Completes(f, map, roster) ==
  /\ f \in [0 .. Len(roster) -> Maps]
  /\ f[0] = map
  /\ \A n \in 1 .. Len(roster) : f[n] = WithDefault(f[n - 1], roster[n])

LEMMA CompletedUnrolls ==
  ASSUME draw \in [Everyone -> 0 .. 1], NEW map \in Maps, NEW roster \in Seq(Everyone)
  PROVE  \E f : Completes(f, map, roster) /\ Completed(map, roster) = f[Len(roster)]
<1>0. PICK N \in Nat : N = Len(roster) /\ \A n \in 1 .. N : roster[n] \in Everyone
  BY LenProperties, ElementOfSeq
<1> DEFINE V == Maps
           Rec(g) == g = [n \in 0 .. N |-> IF n = 0 THEN map ELSE WithDefault(g[n - 1], roster[n])]
           f == CHOOSE g : Rec(g)
           F == [n \in 1 .. N |-> [m \in V |-> WithDefault(m, roster[n])]]
<1>1. Completed(map, roster) = f[N]
  BY <1>0 DEF Completed
<1>2. F \in [1 .. N -> [V -> V]]
  <2>1. \A n \in 1 .. N, m \in V : WithDefault(m, roster[n]) \in V
    BY <1>0, WithDefaultType
  <2> HIDE DEF V
  <2> QED
    BY <2>1
<1>3. PICK g : Unrolls(g, V, N, map, F)
  <2> HIDE DEF F
  <2> QED
    BY <1>2, RecursionExists
<1>4. g \in [0 .. N -> V] /\ g[0] = map
  BY <1>3 DEF Unrolls
<1>5. ASSUME NEW n \in 1 .. N
      PROVE  g[n] = WithDefault(g[n - 1], roster[n])
  <2>1. g[n] = F[n][g[n - 1]]
    BY <1>3 DEF Unrolls
  <2>2. g[n - 1] \in V
    BY <1>4
  <2> HIDE DEF V
  <2> QED
    BY <2>1, <2>2
<1> HIDE DEF V, F
<1>6. Rec(g)
  <2>1. ASSUME NEW n \in 0 .. N
        PROVE  g[n] = IF n = 0 THEN map ELSE WithDefault(g[n - 1], roster[n])
    <3>1. CASE n = 0
      BY <1>4, <3>1
    <3>2. CASE n # 0
      <4>1. n \in 1 .. N
        BY <3>2
      <4> QED
        BY <1>5, <3>2, <4>1
    <3> QED
      BY <3>1, <3>2
  <2> QED
    BY <1>4, <2>1
<1>7. Rec(f)
  BY <1>6
<1> HIDE DEF f
<1>8. f[0] = map
  BY <1>7
<1>9. ASSUME NEW n \in 1 .. N
      PROVE  f[n] = WithDefault(f[n - 1], roster[n])
  <2>1. n \in 0 .. N /\ n # 0
    OBVIOUS
  <2> QED
    BY <1>7, <2>1
<1> DEFINE P == {n \in 0 .. N : f[n] \in V}
<1>10. 0 \in P
  BY <1>8 DEF V
<1>11. ASSUME NEW n \in 0 .. N - 1, n \in P
       PROVE  n + 1 \in P
  <2>1. n + 1 \in 1 .. N /\ (n + 1) - 1 = n
    OBVIOUS
  <2>2. f[n + 1] = WithDefault(f[n], roster[n + 1])
    BY <1>9, <2>1
  <2>3. f[n] \in Maps
    BY <1>11 DEF V
  <2>4. f[n + 1] \in Maps
    BY <1>0, <2>1, <2>2, <2>3, WithDefaultType
  <2> QED
    BY <2>1, <2>4 DEF V
<1>12. \A n \in 0 .. N : f[n] \in V
  <2> HIDE DEF P
  <2>1. \A n \in 0 .. N : n \in P
    BY <1>10, <1>11, Induction
  <2> QED
    BY <2>1 DEF P
<1>13. f \in [0 .. N -> V]
  BY <1>7, <1>12
<1> QED
  BY <1>0, <1>1, <1>8, <1>9, <1>13 DEF Completes, V

LEMMA CompletedType ==
  ASSUME draw \in [Everyone -> 0 .. 1], NEW map \in Maps, NEW roster \in Seq(Everyone)
  PROVE  Completed(map, roster) \in Maps
<1>1. PICK f : Completes(f, map, roster) /\ Completed(map, roster) = f[Len(roster)]
  BY CompletedUnrolls
<1> QED
  BY <1>1, LenProperties DEF Completes

\* A map with the entries of another for some of the agents.
Over(map, other, agents) == [a \in Everyone |-> IF a \in agents THEN other[a] ELSE map[a]]

\* Those among the first n of the roster that the map lacks.
Lacking(map, roster, n) == {a \in Everyone : map[a] = Unassigned /\ \E i \in 1 .. n : a = roster[i]}

\* Each map on the way is the one begun with, with what it will have in the end for those that
\* have had their turn; and each is ranked.
LEMMA CompletedOnTheWay ==
  ASSUME draw \in [Everyone -> 0 .. 1], ShiftsDiffer, NEW map, Ranked(map),
         NEW roster \in Seq(Everyone)
  PROVE  \A n \in 0 .. Len(roster) :
           Ranked(Over(map, Completed(map, roster), Lacking(map, roster, n)))
<1>0. PICK N \in Nat : N = Len(roster) /\ \A n \in 1 .. N : roster[n] \in Everyone
  BY LenProperties, ElementOfSeq
<1>1. map \in Maps
  BY DEF Ranked
<1>2. PICK f : Completes(f, map, roster) /\ Completed(map, roster) = f[N]
  BY <1>0, <1>1, CompletedUnrolls
<1>3. /\ \A n \in 0 .. N : f[n] \in Maps
      /\ f[0] = map /\ \A n \in 1 .. N : f[n] = WithDefault(f[n - 1], roster[n])
  BY <1>0, <1>2 DEF Completes
<1>4. ASSUME NEW n \in 0 .. N - 1
      PROVE  /\ n \in 0 .. N /\ n + 1 \in 1 .. N /\ n + 1 \in 0 .. N
             /\ f[n] \in Maps /\ f[n + 1] = WithDefault(f[n], roster[n + 1])
             /\ roster[n + 1] \in Everyone
             /\ f[n + 1][roster[n + 1]] # Unassigned
             /\ \A b \in Everyone : b # roster[n + 1] \/ f[n][b] # Unassigned => f[n + 1][b] = f[n][b]
  <2>1. n \in 0 .. N /\ n + 1 \in 1 .. N /\ n + 1 \in 0 .. N /\ (n + 1) - 1 = n
    BY <1>0
  <2>2. f[n] \in Maps /\ f[n + 1] = WithDefault(f[n], roster[n + 1]) /\ roster[n + 1] \in Everyone
    BY <1>0, <1>3, <2>1
  <2>3. PICK m \in Maps, a \in Everyone : m = f[n] /\ a = roster[n + 1]
    BY <2>2
  <2>4. PICK next : next = f[n + 1] /\ next = WithDefault(m, a)
    BY <2>2, <2>3
  <2>5. /\ next[a] # Unassigned
        /\ \A b \in Everyone : b # a \/ m[b] # Unassigned => next[b] = m[b]
    BY <2>4, WithDefaultType
  <2> QED
    BY <2>1, <2>2, <2>3, <2>4, <2>5
<1> DEFINE Way(n) == /\ Ranked(f[n])
                     /\ \A a \in Everyone : a \notin Lacking(map, roster, n) => f[n][a] = map[a]
                     /\ \A i \in 1 .. n : f[n][roster[i]] # Unassigned
           P == {n \in 0 .. N : Way(n)}
<1>5. 0 \in P
  BY <1>0, <1>3
<1>6. ASSUME NEW n \in 0 .. N - 1, n \in P
      PROVE  n + 1 \in P
  <2>1. Ranked(f[n + 1])
    BY <1>4, <1>6, WithDefaultRanked
  <2>2. ASSUME NEW a \in Everyone, a \notin Lacking(map, roster, n + 1)
        PROVE  f[n + 1][a] = map[a]
    <3>1. a \notin Lacking(map, roster, n)
      BY <2>2 DEF Lacking
    <3>2. f[n][a] = map[a]
      BY <1>6, <3>1
    <3>3. a # roster[n + 1] \/ map[a] # Unassigned
      BY <2>2 DEF Lacking
    <3> QED
      BY <1>4, <3>2, <3>3
  <2>3. ASSUME NEW i \in 1 .. n + 1
        PROVE  f[n + 1][roster[i]] # Unassigned
    <3>1. CASE i = n + 1
      BY <1>4, <3>1
    <3>2. CASE i # n + 1
      <4>1. i \in 1 .. n /\ i \in 1 .. N
        BY <3>2
      <4>2. f[n][roster[i]] # Unassigned /\ roster[i] \in Everyone
        BY <1>0, <1>6, <4>1
      <4> QED
        BY <1>4, <4>2
    <3> QED
      BY <3>1, <3>2
  <2> QED
    BY <1>4, <2>1, <2>2, <2>3
<1>7. \A n \in 0 .. N : n \in P
  <2> HIDE DEF P
  <2> QED
    BY <1>5, <1>6, Induction
<1>8. ASSUME NEW n \in 0 .. N
      PROVE  \A a \in Everyone : f[n][a] # Unassigned => f[N][a] = f[n][a]
  <2> DEFINE Q == {k \in 0 .. N : k >= n => \A a \in Everyone : f[n][a] # Unassigned => f[k][a] = f[n][a]}
  <2>1. 0 \in Q
    BY <1>0
  <2>2. ASSUME NEW k \in 0 .. N - 1, k \in Q
        PROVE  k + 1 \in Q
    <3>1. CASE k >= n
      BY <1>4, <2>2, <3>1
    <3>2. CASE ~ (k >= n)
      <4>1. k + 1 >= n => k + 1 = n
        BY <3>2
      <4> QED
        BY <1>4, <4>1
    <3> QED
      BY <3>1, <3>2
  <2>3. N \in Q
    <3> HIDE DEF Q
    <3>1. \A k \in 0 .. N : k \in Q
      BY <1>0, <2>1, <2>2, Induction
    <3> QED
      BY <1>0, <3>1
  <2> QED
    BY <1>0, <2>3
<1>9. ASSUME NEW n \in 0 .. N
      PROVE  Ranked(Over(map, Completed(map, roster), Lacking(map, roster, n)))
  <2>1. n \in P
    BY <1>7
  <2>2. ASSUME NEW a \in Everyone
        PROVE  f[n][a] = IF a \in Lacking(map, roster, n) THEN f[N][a] ELSE map[a]
    <3>1. CASE a \in Lacking(map, roster, n)
      <4>1. PICK i \in 1 .. n : a = roster[i]
        BY <3>1 DEF Lacking
      <4>2. f[n][a] # Unassigned
        BY <2>1, <4>1
      <4> QED
        BY <1>8, <3>1, <4>2
    <3>2. CASE a \notin Lacking(map, roster, n)
      BY <2>1, <3>2
    <3> QED
      BY <3>1, <3>2
  <2>3. f[n] = [a \in Everyone |-> f[n][a]]
    BY <1>3 DEF Maps
  <2>4. f[n] = Over(map, f[N], Lacking(map, roster, n))
    <3> HIDE DEF P
    <3> QED
      BY <2>2, <2>3 DEF Over
  <2> QED
    BY <1>2, <2>1, <2>4
<1> QED
  BY <1>0, <1>9

\* The first k agents of those whose character is yet to be written.
First(list, k) == {list[i] : i \in 1 .. k}

\* However many of those left get what was found for them, the map is ranked.
Upcoming(map, found, list) ==
  \A k \in 0 .. Len(list) : Ranked(Over(map, found, First(list, k)))

LEMMA CreatedUpcoming ==
  ASSUME draw \in [Everyone -> 0 .. 1], ShiftsDiffer, NEW job, Ranked(job.found),
         job.roster \in Seq(Everyone)
  PROVE  Upcoming(job.found, Completed(job.found, job.roster), Created(job))
<1> DEFINE S == {a \in Everyone : job.found[a] = Unassigned}
<1>1. PICK map, roster : map = job.found /\ roster = job.roster /\ Ranked(map) /\ roster \in Seq(Everyone)
  OBVIOUS
<1>2. PICK N \in Nat : N = Len(roster)
  BY <1>1, LenProperties
<1>3. PICK c : c = Created(job) /\ c = Selected(roster, S)
  BY <1>1 DEF Created
<1>4. S = {a \in Everyone : map[a] = Unassigned}
  BY <1>1
<1> HIDE DEF S
<1>5. PICK h : Embeds(h, c, roster, N, S)
  BY <1>2, <1>3, SelectedEmbeds
<1>6. c \in Seq(S)
  BY <1>2, <1>3, SelectedType
<1>7. PICK M \in Nat : M = Len(c)
  BY <1>6, LenProperties
<1>8. /\ \A i \in 1 .. M : h[i] \in 1 .. N /\ c[i] = roster[h[i]] /\ c[i] \in S
      /\ \A i, j \in 1 .. M : i < j => h[i] < h[j]
      /\ \A k \in 1 .. N : roster[k] \in S => \E i \in 1 .. M : h[i] = k
  BY <1>5, <1>7 DEF Embeds
<1>9. ASSUME NEW k \in 0 .. M
      PROVE  Ranked(Over(map, Completed(map, roster), First(c, k)))
  <2>1. PICK n \in 0 .. N : First(c, k) = Lacking(map, roster, n)
    <3>1. CASE k = 0
      <4>1. First(c, k) = {} /\ Lacking(map, roster, 0) = {} /\ 0 \in 0 .. N
        BY <3>1 DEF First, Lacking
      <4> QED
        BY <4>1
    <3>2. CASE k # 0
      <4>0. k \in 1 .. M
        BY <3>2
      <4>1. PICK n \in 1 .. N : n = h[k]
        BY <1>8, <4>0
      <4>2. ASSUME NEW a \in First(c, k) PROVE a \in Lacking(map, roster, n)
        <5>1. PICK i \in 1 .. k : a = c[i]
          BY DEF First
        <5>2. i \in 1 .. M /\ (i < k \/ i = k)
          BY <4>0
        <5>3. h[i] \in 1 .. n /\ a = roster[h[i]] /\ a \in S
          BY <1>8, <4>0, <4>1, <5>1, <5>2
        <5> QED
          BY <1>4, <5>3 DEF Lacking
      <4>3. ASSUME NEW a \in Lacking(map, roster, n) PROVE a \in First(c, k)
        <5>1. PICK j \in 1 .. n : a = roster[j] /\ a \in S
          BY <1>4 DEF Lacking
        <5>2. j \in 1 .. N
          BY <4>1
        <5>3. PICK i \in 1 .. M : h[i] = j
          BY <1>8, <5>1, <5>2
        <5>4. ~ (k < i)
          <6> SUFFICES ASSUME k < i PROVE FALSE
            OBVIOUS
          <6>1. h[k] < h[i]
            BY <1>8, <4>0
          <6> QED
            BY <4>1, <5>3, <6>1
        <5>5. i \in 1 .. k /\ a = c[i]
          BY <1>8, <4>0, <5>1, <5>3, <5>4
        <5> QED
          BY <5>5 DEF First
      <4>4. First(c, k) = Lacking(map, roster, n)
        BY <4>2, <4>3
      <4> QED
        BY <4>1, <4>4
    <3> QED
      BY <3>1, <3>2
  <2>2. Ranked(Over(map, Completed(map, roster), Lacking(map, roster, n)))
    BY <1>1, <1>2, CompletedOnTheWay
  <2> QED
    BY <2>1, <2>2
<1> QED
  BY <1>1, <1>3, <1>7, <1>9 DEF Upcoming

LEMMA UpcomingOn ==
  ASSUME NEW map \in Maps, NEW found, NEW rest \in Seq(Everyone), rest # <<>>,
         Upcoming(map, found, rest), NEW next, next = [map EXCEPT ![Head(rest)] = found[Head(rest)]]
  PROVE  Upcoming(next, found, Tail(rest))
<1>1. PICK n \in Nat : n + 1 = Len(rest)
  BY EmptySeq, LenProperties
<1>2. PICK h \in Everyone : h = Head(rest) /\ h = rest[1]
  BY <1>1, HeadTailProperties, ElementOfSeq
<1>3. PICK t : t = Tail(rest) /\ Len(t) = n /\ \A i \in 1 .. n : t[i] = rest[i + 1]
  <2>1. Len(Tail(rest)) = n /\ \A i \in 1 .. Len(Tail(rest)) : Tail(rest)[i] = rest[i + 1]
    BY <1>1, HeadTailProperties
  <2> QED
    BY <2>1
<1>4. next = [a \in Everyone |-> IF a = h THEN found[h] ELSE map[a]]
  BY <1>2 DEF Maps
<1>5. ASSUME NEW k \in 0 .. n
      PROVE  Over(next, found, First(t, k)) = Over(map, found, First(rest, k + 1))
  <2>1. ASSUME NEW a PROVE a \in First(rest, k + 1) <=> a = h \/ a \in First(t, k)
    <3>1. ASSUME a \in First(rest, k + 1) PROVE a = h \/ a \in First(t, k)
      <4>1. PICK i \in 1 .. k + 1 : a = rest[i]
        BY <3>1 DEF First
      <4>2. CASE i # 1
        <5>1. i - 1 \in 1 .. k /\ i - 1 \in 1 .. n /\ (i - 1) + 1 = i
          BY <4>2
        <5>2. a = t[i - 1]
          BY <1>3, <4>1, <5>1
        <5> QED
          BY <5>1, <5>2 DEF First
      <4> QED
        BY <1>2, <4>1, <4>2
    <3>2. h \in First(rest, k + 1)
      <4>1. 1 \in 1 .. k + 1
        OBVIOUS
      <4> QED
        BY <1>2, <4>1 DEF First
    <3>3. ASSUME a \in First(t, k) PROVE a \in First(rest, k + 1)
      <4>1. PICK i \in 1 .. k : a = t[i]
        BY <3>3 DEF First
      <4>2. i + 1 \in 1 .. k + 1 /\ a = rest[i + 1]
        BY <1>3, <4>1
      <4> QED
        BY <4>2 DEF First
    <3> QED
      BY <3>1, <3>2, <3>3
  <2> QED
    BY <1>4, <2>1 DEF Over
<1>6. ASSUME NEW k \in 0 .. n PROVE Ranked(Over(next, found, First(t, k)))
  <2>1. k + 1 \in 0 .. Len(rest)
    BY <1>1
  <2>2. Ranked(Over(map, found, First(rest, k + 1)))
    BY <2>1 DEF Upcoming
  <2> QED
    BY <1>5, <2>2
<1> QED
  BY <1>3, <1>6 DEF Upcoming

LEMMA UpcomingRanked ==
  ASSUME NEW map \in Maps, NEW found, NEW rest \in Seq(Everyone), Upcoming(map, found, rest)
  PROVE  Ranked(map)
<1>1. 0 \in 0 .. Len(rest) /\ First(rest, 0) = {}
  BY LenProperties DEF First
<1>2. Over(map, found, {}) = map
  BY DEF Over, Maps
<1> QED
  BY <1>1, <1>2 DEF Upcoming
-----------------------------------------------------------------------------
\* What a job becomes: only the fields named change.
LEMMA JobMoves ==
  ASSUME NEW job, IsJob(job), NEW f, NEW l \in Seq(Everyone), NEW s \in BOOLEAN, NEW c
  PROVE  /\ LET n == [job EXCEPT !.found = f, !.left = l]
            IN  /\ n.id = job.id /\ n.at = job.at /\ n.roster = job.roster
                /\ n.left = l /\ n.found = f
         /\ LET n == [job EXCEPT !.left = l]
            IN  /\ n.id = job.id /\ n.at = job.at /\ n.roster = job.roster
                /\ n.left = l /\ n.found = job.found
         /\ LET n == [job EXCEPT !.found = f]
            IN  n.id = job.id /\ n.at = job.at /\ n.found = f
         /\ LET n == [job EXCEPT !.shares = FALSE]
            IN  n.id = job.id /\ n.at = job.at /\ n.found = job.found
         /\ LET n == [job EXCEPT !.at = "persist", !.found = f, !.left = l, !.shares = s, !.created = c]
            IN  /\ n.id = job.id /\ n.at = "persist" /\ n.roster = job.roster
                /\ n.left = l /\ n.found = f
  BY DEF IsJob

\* A job has an id of its own, and has found characters.
JobsTyped ==
  \A j \in jobs : /\ j.id \in 1 .. MaxOverlaps + 1 /\ j.found \in Maps
                  /\ \A k \in jobs : k.id = j.id => k = j

\* What is needed of the other variables for the types of the module.
CharacterTypes ==
  /\ Staffed
  /\ hired >= Hired
  /\ draw \in [Everyone -> 0 .. 1]
  /\ stored \in Maps /\ held \in Maps /\ worn \in Maps
  /\ tickCount \in 0 .. ResyncEvery - 1
  /\ JobsTyped
  /\ saves \in 0 .. MaxSaves /\ breaks \in 0 .. MaxBreaks
  /\ overlaps \in 0 .. MaxOverlaps

LEMMA TypesOfCharacters == CharacterTypes => CharactersTypeOK
<1> SUFFICES ASSUME CharacterTypes PROVE CharactersTypeOK
  OBVIOUS
<1>1. hired \in Hired .. Len(Staff)
  <2>1. Hired \in Nat /\ Len(Staff) \in Nat
    BY CharacterBounds, LenProperties
  <2> QED
    BY <2>1 DEF CharacterTypes, Staffed
<1>2. \A map \in {stored, held, worn} : \A a \in Everyone : map[a] \in Assignments \cup {Unassigned}
  BY DEF CharacterTypes, Maps
<1>3. \A j \in jobs : j.at \in {"read", "persist"}
  BY DEF CharacterTypes, Staffed, IsJob
<1> QED
  BY <1>1, <1>2, <1>3 DEF CharacterTypes, JobsTyped, CharactersTypeOK

LEMMA NobodyIsMap == NobodyRead \in Maps
  BY DEF NobodyRead, Maps

LEMMA InitCharacterTypes == CharactersInit => CharacterTypes
<1> SUFFICES ASSUME CharactersInit PROVE CharacterTypes
  OBVIOUS
<1>1. draw \in [Everyone -> 0 .. 1]
  BY CharacterBounds DEF CharactersInit, Everyone
<1>2. /\ {ResyncEvery, Hired} \subseteq Nat \ {0} /\ {MaxSaves, MaxBreaks, MaxOverlaps} \subseteq Nat
  BY CharacterBounds
<1>3. JobsTyped
  BY DEF CharactersInit, JobsTyped
<1> QED
  BY <1>1, <1>2, <1>3, InitStaffed, NobodyIsMap DEF CharactersInit, CharacterTypes

\* A job is replaced by what it becomes, under its number.
LEMMA JobReplaced ==
  ASSUME JobsTyped, NEW job \in jobs, NEW next, next.id = job.id, next.found \in Maps,
         jobs' = (jobs \ {job}) \cup {next}
  PROVE  JobsTyped'
  BY DEF JobsTyped

LEMMA MapChanged ==
  ASSUME NEW map \in Maps, NEW a \in Everyone, NEW x \in Assignments \cup {Unassigned}
  PROVE  [map EXCEPT ![a] = x] \in Maps
  BY DEF Maps

LEMMA ChoiceInRange == SheetChoices \subseteq Assignments
<1>1. 0 \in 0 .. MaxShift
  BY CharacterBounds
<1> QED
  BY <1>1 DEF SheetChoices, Assignments

LEMMA StepCharacterTypes == CharacterTypes /\ [CharactersNext]_characterVars => CharacterTypes'
<1> SUFFICES ASSUME CharacterTypes, [CharactersNext]_characterVars PROVE CharacterTypes'
  OBVIOUS
<1>0. Staffed' /\ Staffed /\ JobsTyped
  BY StepStaffed DEF CharacterTypes
<1> DEFINE Rest == /\ hired >= Hired
                   /\ draw \in [Everyone -> 0 .. 1]
                   /\ stored \in Maps /\ held \in Maps /\ worn \in Maps
                   /\ tickCount \in 0 .. ResyncEvery - 1
                   /\ saves \in 0 .. MaxSaves /\ breaks \in 0 .. MaxBreaks
                   /\ overlaps \in 0 .. MaxOverlaps
<1>r. Rest
  BY DEF CharacterTypes
<1>b. MaxSaves \in Nat /\ MaxBreaks \in Nat /\ MaxOverlaps \in Nat /\ ResyncEvery \in Nat \ {0}
  BY CharacterBounds
<1>s. Rest' /\ JobsTyped' => CharacterTypes'
  BY <1>0 DEF CharacterTypes
<1>1. CASE Hires
  <2>1. hired' >= Hired
    <3>1. Hired \in Nat /\ hired \in Nat
      BY <1>0, CharacterBounds DEF Staffed
    <3> QED
      BY <1>1, <1>r, <3>1 DEF Hires
  <2> QED
    BY <1>0, <1>1, <1>r, <1>s, <2>1 DEF Hires, JobsTyped
<1>2. CASE TickJob
  <2>1. PICK id \in 1 .. MaxOverlaps + 1 :
          /\ \A j \in jobs : j.id # id
          /\ jobs' = jobs \cup {[id |-> id, at |-> "read", roster |-> Roster(hired),
                              left |-> Roster(hired), found |-> NobodyRead, shares |-> FALSE,
                              created |-> FALSE]}
    BY <1>2 DEF TickJob
  <2> DEFINE new == [id |-> id, at |-> "read", roster |-> Roster(hired),
                     left |-> Roster(hired), found |-> NobodyRead, shares |-> FALSE,
                     created |-> FALSE]
  <2>a. new.id = id /\ new.found \in Maps /\ jobs' = jobs \cup {new}
    BY <2>1, NobodyIsMap
  <2> HIDE DEF new
  <2>2. JobsTyped'
    BY <1>0, <2>1, <2>a DEF JobsTyped
  <2>3. tickCount' \in 0 .. ResyncEvery - 1
    <3>1. PICK n \in Nat, d \in Nat : n = tickCount + 1 /\ d = ResyncEvery /\ d > 0
      BY <1>b, <1>r
    <3>2. tickCount' = n % d
      BY <1>2, <3>1 DEF TickJob
    <3> QED
      BY <3>1, <3>2, Remainder
  <2>4. overlaps' \in 0 .. MaxOverlaps
    <3>1. MaxOverlaps \in Nat
      BY CharacterBounds
    <3> QED
      BY <1>2, <1>r, <3>1 DEF TickJob
  <2>5. worn' \in Maps
    BY <1>2, <1>r DEF TickJob, WornAtTick
  <2> QED
    BY <1>2, <1>r, <1>s, <2>2, <2>3, <2>4, <2>5 DEF TickJob
<1>3. ASSUME NEW job \in jobs, ReadRecord(job) PROVE CharacterTypes'
  <2>1. IsJob(job) /\ job.found \in Maps /\ job.left # <<>>
    BY <1>0, <1>3 DEF ReadRecord, Staffed, JobsTyped
  <2>2. PICK h \in Everyone, t \in Seq(Everyone) : h = Head(job.left) /\ t = Tail(job.left)
    BY <2>1, TailRange DEF IsJob
  <2>3. PICK f : f = [job.found EXCEPT ![h] = stored[h]]
    OBVIOUS
  <2>4. f \in Maps
    BY <1>r, <2>1, <2>3, MapChanged DEF Maps
  <2>5. PICK next : next = [job EXCEPT !.found = f, !.left = t]
    OBVIOUS
  <2>6. jobs' = (jobs \ {job}) \cup {next}
    BY <1>3, <2>2, <2>3, <2>5 DEF ReadRecord, Goes
  <2>7. next.id = job.id /\ next.found = f
    BY <2>1, <2>5, JobMoves
  <2>8. JobsTyped'
    BY <1>0, <2>4, <2>6, <2>7, JobReplaced
  <2> QED
    BY <1>3, <1>r, <1>s, <2>8 DEF ReadRecord
<1>4. ASSUME NEW job \in jobs, Materialize(job) PROVE CharacterTypes'
  <2>1. IsJob(job) /\ job.found \in Maps
    BY <1>0, <1>4 DEF Staffed, JobsTyped
  <2>2. held' \in Maps
    <3>1. job.roster \in Seq(Everyone)
      BY <2>1 DEF IsJob
    <3> QED
      BY <1>4, <1>r, <2>1, <3>1, CompletedType DEF Materialize
  <2>3. PICK l \in Seq(Everyone) : l = Created(job)
    BY <2>1, CreatedFound DEF IsJob
  <2>4. PICK c \in BOOLEAN : c = (Created(job) # <<>>)
    OBVIOUS
  <2>5. PICK f \in Maps : f = held'
    BY <2>2
  <2> DEFINE shut(j) == [j EXCEPT !.shares = FALSE]
             next == [job EXCEPT !.at = "persist", !.found = f, !.left = l,
                                 !.shares = TRUE, !.created = c]
  <2>6. jobs' = {shut(j) : j \in jobs \ {job}} \cup {next}
    BY <1>4, <2>3, <2>4, <2>5 DEF Materialize
  <2>7. next.id = job.id /\ next.found = f
    BY <2>1, JobMoves
  <2>8. \A j \in jobs : shut(j).id = j.id /\ shut(j).found = j.found
    <3> TAKE j \in jobs
    <3>1. IsJob(j) /\ <<>> \in Seq(Everyone)
      BY <1>0 DEF Staffed
    <3> QED
      BY <3>1, JobMoves
  <2> HIDE DEF next, shut
  <2>9. JobsTyped'
    BY <1>0, <2>6, <2>7, <2>8 DEF JobsTyped
  <2> QED
    BY <1>4, <1>r, <1>s, <2>2, <2>9 DEF Materialize
<1>5. ASSUME NEW job \in jobs, PersistDefault(job) PROVE CharacterTypes'
  <2>1. IsJob(job) /\ job.found \in Maps /\ job.left # <<>>
    BY <1>0, <1>5 DEF PersistDefault, Staffed, JobsTyped
  <2>2. PICK h \in Everyone, t \in Seq(Everyone) : h = Head(job.left) /\ t = Tail(job.left)
    BY <2>1, TailRange DEF IsJob
  <2>3. stored' \in Maps
    <3>1. stored' = [stored EXCEPT ![h] = job.found[h]] /\ job.found[h] \in Assignments \cup {Unassigned}
      BY <1>5, <2>1, <2>2 DEF PersistDefault, Maps
    <3> QED
      BY <1>r, <3>1, MapChanged
  <2>4. PICK next : next = [job EXCEPT !.left = t]
    OBVIOUS
  <2>5. jobs' = (jobs \ {job}) \cup {next}
    BY <1>5, <2>2, <2>4 DEF PersistDefault, Goes
  <2>6. next.id = job.id /\ next.found = job.found
    BY <2>1, <2>4, JobMoves
  <2>7. JobsTyped'
    BY <1>0, <2>1, <2>5, <2>6, JobReplaced
  <2> QED
    BY <1>5, <1>r, <1>s, <2>3, <2>7 DEF PersistDefault
<1>6. ASSUME NEW job \in jobs, Reconciled(job) \/ JobFails(job) PROVE CharacterTypes'
  <2>1. jobs' = jobs \ {job}
    BY <1>6 DEF Reconciled, JobFails
  <2>2. JobsTyped'
    BY <1>0, <2>1 DEF JobsTyped
  <2>3. CASE Reconciled(job)
    BY <1>r, <1>s, <2>2, <2>3 DEF Reconciled
  <2>4. CASE JobFails(job)
    BY <1>b, <1>r, <1>s, <2>2, <2>4 DEF JobFails
  <2> QED
    BY <1>6, <2>3, <2>4
<1>7. ASSUME NEW a \in Everyone, NEW choice \in SheetChoices, Save(a, choice) PROVE CharacterTypes'
  BY <1>0, <1>7, <1>b, <1>r, <1>s DEF Save, JobsTyped
<1>8. CASE SaveWritten
  <2>1. saving # NoSave /\ IsSave(saving)
    BY <1>0, <1>8 DEF SaveWritten, Staffed
  <2>2. PICK a \in Everyone, x \in Assignments : a = saving.agent /\ x = saving.choice
    BY <2>1, ChoiceInRange DEF IsSave
  <2>3. stored' \in Maps
    BY <1>8, <1>r, <2>2, MapChanged DEF SaveWritten
  <2> QED
    BY <1>0, <1>8, <1>r, <1>s, <2>3 DEF SaveWritten, JobsTyped
<1>9. CASE SaveFails
  BY <1>0, <1>9, <1>b, <1>r, <1>s DEF SaveFails, JobsTyped
<1>10. CASE SaveConfirmed
  <2>1. saving # NoSave /\ IsSave(saving)
    BY <1>0, <1>10 DEF SaveConfirmed, Staffed
  <2>2. PICK a \in Everyone, x \in Assignments : a = saving.agent /\ x = saving.choice
    BY <2>1, ChoiceInRange DEF IsSave
  <2>3. held' \in Maps /\ worn' \in Maps
    BY <1>10, <1>r, <2>2, MapChanged DEF SaveConfirmed
  <2> DEFINE informed(j) == [j EXCEPT !.found = IF j.shares THEN held' ELSE @]
  <2>4. jobs' = {informed(j) : j \in jobs}
    BY <1>10 DEF SaveConfirmed
  <2>5. \A j \in jobs : informed(j).id = j.id /\ informed(j).found \in Maps
    <3> TAKE j \in jobs
    <3>1. IsJob(j) /\ j.found \in Maps /\ <<>> \in Seq(Everyone)
      BY <1>0 DEF Staffed, JobsTyped
    <3>2. PICK f \in Maps : f = IF j.shares THEN held' ELSE j.found
      BY <2>3, <3>1
    <3>3. informed(j) = [j EXCEPT !.found = f]
      BY <3>2
    <3> QED
      BY <3>1, <3>2, <3>3, JobMoves
  <2> HIDE DEF informed
  <2>6. JobsTyped'
    BY <1>0, <2>4, <2>5 DEF JobsTyped
  <2> QED
    BY <1>10, <1>r, <1>s, <2>3, <2>6 DEF SaveConfirmed
<1>11. CASE UNCHANGED characterVars
  BY <1>0, <1>11, <1>r, <1>s DEF characterVars, JobsTyped
<1> QED
  BY <1>1, <1>2, <1>3, <1>4, <1>5, <1>6, <1>7, <1>8, <1>9, <1>10, <1>11
  DEF CharactersNext, JobStep

\* The user has chosen nothing and no two reconciles have overlapped.
Calm == saves = MaxSaves /\ overlaps = MaxOverlaps

\* A job that reads has found what plugin state has, and still has when it is done; what a job
\* that persists has yet to write leaves the map ranked after every write.
OnItsWay(job) ==
  /\ Range(job.roster) \subseteq Range(Roster(hired)) /\ Range(job.left) \subseteq Range(job.roster)
  /\ \A a \in Everyone : stored[a] # Unassigned => a \in Range(job.roster)
  /\ job.at = "read" =>
       \A a \in Everyone : /\ job.found[a] \in {stored[a], Unassigned}
                           /\ a \in Range(job.roster) \ Range(job.left) => job.found[a] = stored[a]
  /\ job.at = "persist" => Upcoming(stored, job.found, job.left)

\* Then one job runs at a time, and plugin state is ranked whichever write of it came last.
InTurn ==
  /\ saving = NoSave
  /\ \A j, k \in jobs : j = k
  /\ Ranked(stored)
  /\ \A a \in Everyone : stored[a] # Unassigned => a \in Range(Roster(hired))
  /\ \A j \in jobs : OnItsWay(j)

\* The inductive invariant of DefaultsAlwaysDiffer.
DefaultsInv == CharacterTypes /\ (Calm => InTurn)

LEMMA InitDefaults == CharactersInit => DefaultsInv
<1> SUFFICES ASSUME CharactersInit PROVE DefaultsInv
  OBVIOUS
<1>1. stored = NobodyRead /\ \A a \in Everyone : stored[a] = Unassigned
  BY DEF CharactersInit, NobodyRead
<1>2. Ranked(stored)
  BY <1>1, NobodyIsMap DEF Ranked
<1> QED
  BY <1>1, <1>2, InitCharacterTypes DEF CharactersInit, DefaultsInv, InTurn

LEMMA RosterGrows ==
  ASSUME hired \in Nat, hired + 1 <= Len(Staff)
  PROVE  Range(Roster(hired)) \subseteq Range(Roster(hired + 1))
<1>1. PICK n \in Nat, m \in Nat : n = hired /\ m = Len(Staff) /\ n + 1 <= m
  BY CharacterBounds, LenProperties
<1>2. Staff \in Seq(Everyone)
  BY CharacterBounds DEF Everyone
<1>3. /\ Roster(n) \in Seq(Everyone) /\ Len(Roster(n)) = n /\ \A i \in 1 .. n : Roster(n)[i] = Staff[i]
  BY <1>1, <1>2, SubSeqProperties, ElementOfSeq DEF Roster
<1>4. /\ Roster(n + 1) \in Seq(Everyone) /\ Len(Roster(n + 1)) = n + 1
      /\ \A i \in 1 .. n + 1 : Roster(n + 1)[i] = Staff[i]
  BY <1>1, <1>2, SubSeqProperties, ElementOfSeq DEF Roster
<1>5. DOMAIN Roster(n) = 1 .. n /\ DOMAIN Roster(n + 1) = 1 .. n + 1
  BY <1>3, <1>4, LenProperties
<1> QED
  BY <1>1, <1>3, <1>4, <1>5 DEF Range

LEMMA StepDefaults ==
  ASSUME ShiftsDiffer
  PROVE  DefaultsInv /\ [CharactersNext]_characterVars => DefaultsInv'
<1> SUFFICES ASSUME DefaultsInv, [CharactersNext]_characterVars, Calm' PROVE InTurn'
  BY StepCharacterTypes DEF DefaultsInv
<1>0. CharacterTypes /\ Staffed /\ JobsTyped /\ stored \in Maps /\ draw \in [Everyone -> 0 .. 1]
  BY DEF DefaultsInv, CharacterTypes
<1>b. /\ saves \in 0 .. MaxSaves /\ overlaps \in 0 .. MaxOverlaps
      /\ MaxSaves \in Nat /\ MaxOverlaps \in Nat
  BY CharacterBounds DEF DefaultsInv, CharacterTypes
<1>i. Calm => InTurn
  BY DEF DefaultsInv
<1>o. ASSUME InTurn, NEW job \in jobs
      PROVE  jobs = {job} /\ IsJob(job) /\ job.found \in Maps /\ OnItsWay(job)
  BY <1>0, <1>o DEF InTurn, Staffed, JobsTyped
<1>1. CASE Hires
  <2>1. InTurn
    BY <1>1, <1>i DEF Hires, Calm
  <2>2. Range(Roster(hired)) \subseteq Range(Roster(hired'))
    <3>1. hired \in Nat /\ hired + 1 <= Len(Staff) /\ hired' = hired + 1
      <4>1. Len(Staff) \in Nat
        BY CharacterBounds, LenProperties
      <4> QED
        BY <1>0, <1>1, <4>1 DEF Hires, Staffed
    <3> QED
      BY <3>1, RosterGrows
  <2>3. \A j \in jobs : OnItsWay(j)'
    BY <1>1, <2>1, <2>2 DEF Hires, InTurn, OnItsWay
  <2> QED
    BY <1>1, <2>1, <2>2, <2>3 DEF Hires, InTurn
<1>2. CASE TickJob
  <2>1. jobs = {} /\ Calm
    BY <1>2, <1>b DEF TickJob, Calm
  <2>2. PICK id : jobs' = jobs \cup {[id |-> id, at |-> "read", roster |-> Roster(hired),
                              left |-> Roster(hired), found |-> NobodyRead, shares |-> FALSE,
                              created |-> FALSE]}
    BY <1>2 DEF TickJob
  <2>n. PICK new : new = [id |-> id, at |-> "read", roster |-> Roster(hired),
                          left |-> Roster(hired), found |-> NobodyRead, shares |-> FALSE,
                          created |-> FALSE]
    OBVIOUS
  <2>3. /\ jobs' = {new} /\ new.at = "read" /\ new.roster = Roster(hired)
        /\ new.left = Roster(hired) /\ new.found = NobodyRead
    BY <2>1, <2>2, <2>n
  <2>4. InTurn /\ UNCHANGED <<hired, stored, saving>>
    BY <1>2, <1>i, <2>1 DEF TickJob
  <2>5. OnItsWay(new)'
    BY <2>3, <2>4 DEF OnItsWay, NobodyRead, InTurn
  <2> QED
    BY <2>3, <2>4, <2>5 DEF InTurn
<1>3. ASSUME NEW job \in jobs, ReadRecord(job) PROVE InTurn'
  <2>0. InTurn /\ UNCHANGED <<hired, stored, saving>>
    BY <1>3, <1>i DEF ReadRecord, Calm
  <2>1. jobs = {job} /\ IsJob(job) /\ job.found \in Maps /\ OnItsWay(job)
    BY <1>o, <2>0
  <2>2. job.at = "read" /\ job.left # <<>> /\ job.left \in Seq(Everyone)
    BY <1>3, <2>1 DEF ReadRecord, IsJob
  <2>3. PICK h \in Everyone, t \in Seq(Everyone) :
          /\ h = Head(job.left) /\ t = Tail(job.left)
          /\ \A x : x \in Range(job.left) <=> x = h \/ x \in Range(t)
    BY <2>2, TailRange
  <2>4. PICK f : f = [job.found EXCEPT ![h] = stored[h]]
    OBVIOUS
  <2>5. PICK next : next = [job EXCEPT !.found = f, !.left = t]
    OBVIOUS
  <2>6. jobs' = {next}
    BY <1>3, <2>1, <2>3, <2>4, <2>5 DEF ReadRecord, Goes
  <2>7. /\ next.at = "read" /\ next.roster = job.roster /\ next.left = t
        /\ next.found = [a \in Everyone |-> IF a = h THEN stored[h] ELSE job.found[a]]
    BY <2>1, <2>2, <2>4, <2>5, JobMoves DEF Maps
  <2>8. OnItsWay(next)'
    BY <2>0, <2>1, <2>2, <2>3, <2>7 DEF OnItsWay
  <2> QED
    BY <2>0, <2>6, <2>8 DEF InTurn
<1>4. ASSUME NEW job \in jobs, Materialize(job) PROVE InTurn'
  <2>0. InTurn /\ UNCHANGED <<hired, stored, saving>>
    BY <1>4, <1>i DEF Materialize, Calm
  <2>1. jobs = {job} /\ IsJob(job) /\ job.found \in Maps /\ OnItsWay(job)
    BY <1>o, <2>0
  <2>2. job.at = "read" /\ job.left = <<>> /\ job.roster \in Seq(Everyone)
    BY <1>4, <2>1 DEF Materialize, IsJob
  <2>3. job.found = stored
    <3>1. Range(job.left) = {}
      BY <2>2 DEF Range
    <3>2. \A a \in Everyone : job.found[a] = stored[a]
      BY <2>1, <2>2, <3>1 DEF OnItsWay
    <3> QED
      BY <1>0, <2>1, <3>2 DEF Maps
  <2>4. PICK f : f = held' /\ f = Completed(job.found, job.roster)
    BY <1>4 DEF Materialize
  <2>5. PICK l \in Seq(Everyone) :
          l = Created(job) /\ \A a \in Range(l) : a \in Range(job.roster)
    BY <2>2, CreatedFound
  <2>6. PICK c : c = (Created(job) # <<>>)
    OBVIOUS
  <2>7. Upcoming(stored, f, l)
    BY <1>0, <2>0, <2>2, <2>3, <2>4, <2>5, CreatedUpcoming DEF InTurn
  <2>8. PICK next : next = [job EXCEPT !.at = "persist", !.found = f, !.left = l,
                                      !.shares = TRUE, !.created = c]
    OBVIOUS
  <2>9. jobs' = {next}
    BY <1>4, <2>1, <2>4, <2>5, <2>6, <2>8 DEF Materialize
  <2>10. next.at = "persist" /\ next.roster = job.roster /\ next.left = l /\ next.found = f
    BY <2>1, <2>8, JobMoves
  <2>11. OnItsWay(next)'
    BY <2>0, <2>1, <2>5, <2>7, <2>10 DEF OnItsWay
  <2> QED
    BY <2>0, <2>9, <2>11 DEF InTurn
<1>5. ASSUME NEW job \in jobs, PersistDefault(job) PROVE InTurn'
  <2>0. InTurn /\ UNCHANGED <<hired, saving>>
    BY <1>5, <1>i DEF PersistDefault, Calm
  <2>1. jobs = {job} /\ IsJob(job) /\ job.found \in Maps /\ OnItsWay(job)
    BY <1>o, <2>0
  <2>2. job.at = "persist" /\ job.left # <<>> /\ job.left \in Seq(Everyone)
    BY <1>5, <2>1 DEF PersistDefault, IsJob
  <2>3. PICK h \in Everyone, t \in Seq(Everyone) :
          /\ h = Head(job.left) /\ t = Tail(job.left) /\ h \in Range(job.left)
          /\ \A x : x \in Range(job.left) <=> x = h \/ x \in Range(t)
    BY <2>2, TailRange
  <2>4. PICK next : next = [job EXCEPT !.left = t]
    OBVIOUS
  <2>5. jobs' = {next}
    BY <1>5, <2>1, <2>3, <2>4 DEF PersistDefault, Goes
  <2>6. next.at = "persist" /\ next.roster = job.roster /\ next.left = t /\ next.found = job.found
    BY <2>1, <2>2, <2>4, JobMoves
  <2>7. Upcoming(stored', job.found, t)
    <3>1. stored' = [stored EXCEPT ![Head(job.left)] = job.found[Head(job.left)]]
      BY <1>5 DEF PersistDefault
    <3> QED
      BY <1>0, <2>1, <2>2, <2>3, <3>1, UpcomingOn DEF OnItsWay
  <2>8. stored' \in Maps
    BY StepCharacterTypes DEF DefaultsInv, CharacterTypes
  <2>9. Ranked(stored')
    BY <2>3, <2>7, <2>8, UpcomingRanked
  <2>10. \A a \in Everyone : stored'[a] # Unassigned => a \in Range(job.roster)
    <3>1. stored' = [a \in Everyone |-> IF a = h THEN job.found[h] ELSE stored[a]]
      BY <1>0, <1>5, <2>3 DEF PersistDefault, Maps
    <3> QED
      BY <2>1, <2>3, <3>1 DEF OnItsWay
  <2>11. OnItsWay(next)'
    BY <2>0, <2>1, <2>3, <2>6, <2>7, <2>10 DEF OnItsWay
  <2> QED
    BY <2>0, <2>1, <2>5, <2>9, <2>10, <2>11 DEF InTurn, OnItsWay
<1>6. ASSUME NEW job \in jobs, Reconciled(job) \/ JobFails(job) PROVE InTurn'
  <2>1. jobs' = jobs \ {job} /\ UNCHANGED <<hired, stored, saving, saves, overlaps>>
    BY <1>6 DEF Reconciled, JobFails
  <2>2. InTurn
    BY <1>i, <2>1 DEF Calm
  <2>3. \A j \in jobs' : OnItsWay(j)'
    BY <2>1, <2>2 DEF InTurn, OnItsWay
  <2> QED
    BY <2>1, <2>2, <2>3 DEF InTurn
<1>7. ASSUME NEW a \in Everyone, NEW choice \in SheetChoices, Save(a, choice) PROVE FALSE
  BY <1>7, <1>b DEF Save, Calm
<1>8. CASE SaveWritten \/ SaveFails \/ SaveConfirmed
  <2>1. saving # NoSave /\ UNCHANGED <<saves, overlaps>>
    BY <1>8 DEF SaveWritten, SaveFails, SaveConfirmed
  <2> QED
    BY <1>i, <2>1 DEF Calm, InTurn
<1>9. CASE UNCHANGED characterVars
  <2>1. InTurn /\ UNCHANGED <<hired, stored, saving, jobs>>
    BY <1>9, <1>i DEF characterVars, Calm
  <2>2. \A j \in jobs' : OnItsWay(j)'
    BY <2>1 DEF InTurn, OnItsWay
  <2> QED
    BY <2>1, <2>2 DEF InTurn
<1> QED
  BY <1>1, <1>2, <1>3, <1>4, <1>5, <1>6, <1>7, <1>8, <1>9 DEF CharactersNext, JobStep

\* As long as the user chooses nothing and no two reconciles overlap, no two agents ever have the
\* same character in the same hue in plugin state, however many agents, characters and failures
\* half-way there are, and whatever is drawn (characters.ts:156-205, worker.ts:309-345) -
\* if the hue shifts of the rounds differ, which is so in any company of up to 316 agents.
THEOREM DefaultsAlwaysDiffer ==
  ASSUME ShiftsDiffer
  PROVE  CharactersSpec => []DefaultsDiffer
<1>1. DefaultsInv => DefaultsDiffer
  BY DEF DefaultsInv, Calm, InTurn, Ranked, DefaultsDiffer
<1>2. DefaultsInv /\ [CharactersNext]_characterVars => DefaultsInv'
  BY StepDefaults
<1> QED
  BY InitDefaults, <1>1, <1>2, PTL DEF CharactersSpec

\* 47 is invertible modulo 315: 248 * 47 = 37 * 315 + 1.
Residue(k) == (k * 47) % 315

LEMMA StrideInverts ==
  ASSUME NEW k \in 0 .. 314, NEW l \in 0 .. 314, Residue(k) = Residue(l)
  PROVE  k = l
<1>1. ASSUME NEW n \in Nat PROVE \E m \in Nat : n = 315 * m + (n % 315)
  <2>1. n \div 315 \in Nat /\ n = 315 * (n \div 315) + (n % 315)
    OBVIOUS
  <2> QED
    BY <2>1
<1>2. k * 47 \in Nat /\ l * 47 \in Nat
  OBVIOUS
<1>3. PICK a \in Nat : k * 47 = 315 * a + Residue(k)
  BY <1>1, <1>2 DEF Residue
<1>4. PICK b \in Nat : l * 47 = 315 * b + Residue(l)
  BY <1>1, <1>2 DEF Residue
<1>5. Residue(k) \in Nat
  BY DEF Residue
<1>6. (k - l) * 47 = 315 * (a - b)
  BY <1>3, <1>4, <1>5
<1>7. PICK e \in Int : e = 248 * (a - b) - 37 * (k - l)
  OBVIOUS
<1>8. k - l = 315 * e
  BY <1>6, <1>7
<1>9. e = 0
  BY <1>8
<1> QED
  BY <1>8, <1>9

\* The hue of a round, with the constants of the code.
LEMMA ShiftOfTheCode ==
  ASSUME MinShift = 45, Stride = 47, MaxShift = 360
  PROVE  /\ ReuseShift(0) = 0
         /\ \A k \in 0 .. 314 : ReuseShift(k + 1) = 45 + Residue(k) /\ Residue(k) \in Nat
<1>1. ReuseShift(0) = 0
  BY DEF ReuseShift
<1>2. ASSUME NEW k \in 0 .. 314
      PROVE  ReuseShift(k + 1) = 45 + Residue(k) /\ Residue(k) \in Nat
  <2>1. k + 1 # 0 /\ (k + 1) - 1 = k /\ 360 - 45 = 315
    OBVIOUS
  <2>2. ReuseShift(k + 1) = 45 + ((((k + 1) - 1) * 47) % (360 - 45))
    BY <2>1 DEF ReuseShift
  <2>3. ReuseShift(k + 1) = 45 + Residue(k)
    BY <2>1, <2>2 DEF Residue
  <2> QED
    BY <2>3 DEF Residue
<1> QED
  BY <1>1, <1>2

LEMMA RoundsDiffer ==
  ASSUME MinShift = 45, Stride = 47, MaxShift = 360, NEW i \in 0 .. 315, NEW j \in 0 .. 315,
         ReuseShift(i) = ReuseShift(j)
  PROVE  i = j
<1>1. ASSUME NEW r \in 0 .. 315, r # 0
      PROVE  \E k \in 0 .. 314 : r = k + 1 /\ ReuseShift(r) = 45 + Residue(k) /\ Residue(k) \in Nat
  <2>1. PICK k \in 0 .. 314 : r = k + 1
    BY <1>1
  <2> QED
    BY <2>1, ShiftOfTheCode
<1>2. CASE i = 0 \/ j = 0
  BY <1>1, <1>2, ShiftOfTheCode
<1>3. CASE i # 0 /\ j # 0
  <2>1. PICK k \in 0 .. 314 : i = k + 1 /\ ReuseShift(i) = 45 + Residue(k) /\ Residue(k) \in Nat
    BY <1>1, <1>3
  <2>2. PICK l \in 0 .. 314 : j = l + 1 /\ ReuseShift(j) = 45 + Residue(l) /\ Residue(l) \in Nat
    BY <1>1, <1>3
  <2>3. Residue(k) = Residue(l)
    BY <2>1, <2>2
  <2> QED
    BY <2>1, <2>2, <2>3, StrideInverts
<1> QED
  BY <1>2, <1>3

\* With the constants of the code, the hues of 316 rounds differ: no two agents that wear one
\* character look the same "until 315 reuse rounds" (characters.ts:211).
THEOREM ShiftsOfTheCode ==
  ASSUME MinShift = 45, Stride = 47, MaxShift = 360, Len(Staff) <= 316
  PROVE  ShiftsDiffer
<1>1. Cardinality(Everyone) \in Nat /\ Cardinality(Everyone) <= 316
  <2>1. Len(Staff) \in Nat
    BY CharacterBounds, LenProperties
  <2> QED
    BY <2>1, EveryoneFinite, FS_CardinalityType
<1>2. \A n \in 0 .. Cardinality(Everyone) - 1 : n \in 0 .. 315
  BY <1>1
<1> QED
  BY <1>2, RoundsDiffer DEF ShiftsDiffer

-----------------------------------------------------------------------------
(* BridgeView.                                                             *)

\* A snapshot and a view are records with these fields, whatever these hold.
IsSnapshot(s) ==
  s = [office |-> s.office, agents |-> s.agents, summary |-> s.summary,
       observedAt |-> s.observedAt]
IsView(v) == v \in [snapshot : {v.snapshot}, gap : BOOLEAN, synced : {v.synced}]

\* A snapshot of company o.
SnapshotOf(o, s) == IsSnapshot(s) /\ s.office = o

ViewOf(o, v) == IsView(v) /\ (v.snapshot # NoView => SnapshotOf(o, v.snapshot))

\* What the worker would answer, what it has answered and what is shown are each of the right
\* company.
Answers == /\ worker = [o \in Offices |-> worker[o]]
           /\ \A o \in Offices : SnapshotOf(o, worker[o])
Fetched == fetch.at = "answered" => SnapshotOf(pageOffice, fetch.snapshot)
ShownOwn   == ViewOf(pageOffice, view)

ViewInv == pageOffice \in Offices /\ Answers /\ Fetched /\ ShownOwn

-----------------------------------------------------------------------------
(* The reducer keeps the company of a view.                                 *)

LEMMA SnapshotKeeps ==
  ASSUME NEW o, NEW s, SnapshotOf(o, s), NEW v
  PROVE  ViewOf(o, WithSnapshot(v, s))
  BY DEF ViewOf, IsView, WithSnapshot

LEMMA DeltaKeeps ==
  ASSUME NEW o, NEW v, ViewOf(o, v), NEW e
  PROVE  ViewOf(o, WithDelta(v, e))
<1>1. CASE v.snapshot = NoView
  BY <1>1 DEF ViewOf, IsView, WithDelta
<1>2. CASE v.snapshot # NoView
  <2> DEFINE s == v.snapshot
  <2>1. SnapshotOf(o, s) /\ IsView(v)
    BY <1>2 DEF ViewOf
  <2>2. CASE e.type = "summary"
    <3> DEFINE t == [s EXCEPT !.summary = e.value]
    <3>1. SnapshotOf(o, t)
      BY <2>1 DEF SnapshotOf, IsSnapshot
    <3>2. WithDelta(v, e) = [v EXCEPT !.snapshot = t]
      BY <1>2, <2>2 DEF WithDelta
    <3> QED
      BY <3>1, <3>2, <2>1 DEF ViewOf, IsView
  <2>3. CASE e.type # "summary" /\ e.agent \in DOMAIN v.snapshot.agents
    <3> DEFINE t == [s EXCEPT !.agents = [s.agents EXCEPT ![e.agent] = e.value]]
    <3>1. SnapshotOf(o, t)
      BY <2>1 DEF SnapshotOf, IsSnapshot
    <3>2. WithDelta(v, e) = [v EXCEPT !.snapshot = t]
      BY <1>2, <2>3 DEF WithDelta
    <3> QED
      BY <3>1, <3>2, <2>1 DEF ViewOf, IsView
  <2>4. CASE e.type # "summary" /\ e.agent \notin DOMAIN v.snapshot.agents
    <3>1. WithDelta(v, e) = [v EXCEPT !.gap = TRUE]
      BY <1>2, <2>4 DEF WithDelta
    <3> QED
      BY <3>1, <2>1, <1>2 DEF ViewOf, IsView
  <2> QED
    BY <2>2, <2>3, <2>4
<1> QED
  BY <1>1, <1>2

LEMMA GapClearedKeeps ==
  ASSUME NEW o, NEW v, ViewOf(o, v)
  PROVE  ViewOf(o, [v EXCEPT !.gap = FALSE])
<1> DEFINE cleared == [v EXCEPT !.gap = FALSE]
<1>1. v \in [snapshot : {v.snapshot}, gap : BOOLEAN, synced : {v.synced}]
  BY DEF ViewOf, IsView
<1>2. /\ cleared.snapshot = v.snapshot /\ cleared.synced = v.synced
      /\ cleared \in [snapshot : {v.snapshot}, gap : BOOLEAN, synced : {v.synced}]
  BY <1>1
<1> HIDE DEF cleared
<1> QED
  BY <1>2 DEF ViewOf, IsView

\* A change of the worker's answer for company o leaves every answer of its company.
LEMMA ChangeKeeps ==
  ASSUME Answers, NEW o \in Offices, NEW s, SnapshotOf(o, s),
         worker' = [worker EXCEPT ![o] = s]
  PROVE  Answers'
<1>1. worker' = [p \in Offices |-> IF p = o THEN s ELSE worker[p]]
  BY DEF Answers
<1>2. \A p \in Offices : SnapshotOf(p, worker'[p])
  BY <1>1 DEF Answers
<1> QED
  BY <1>1, <1>2 DEF Answers

-----------------------------------------------------------------------------
LEMMA InitView == ViewInit => ViewInv
<1> SUFFICES ASSUME ViewInit PROVE ViewInv
  OBVIOUS
<1>1. Answers
  BY DEF ViewInit, Answers, SnapshotOf, IsSnapshot
<1>2. Fetched
  BY DEF ViewInit, Fetched, Asked
<1>3. ShownOwn
  BY DEF ViewInit, ShownOwn, ViewOf, IsView, Blank
<1> QED
  BY <1>1, <1>2, <1>3 DEF ViewInit, ViewInv

LEMMA StepView == ViewInv /\ [ViewNext]_viewVars => ViewInv'
<1> SUFFICES ASSUME ViewInv, [ViewNext]_viewVars PROVE ViewInv'
  OBVIOUS
<1> USE DEF ViewInv
<1>1. CASE ClockTicks
  BY <1>1 DEF ClockTicks, Answers, Fetched, ShownOwn
<1>2. ASSUME NEW o \in Offices, SummaryChanges(o) PROVE ViewInv'
  <2>1. SnapshotOf(o, [worker[o] EXCEPT !.summary = @ + 1])
    BY DEF Answers, SnapshotOf, IsSnapshot
  <2>2. Answers'
    BY <1>2, <2>1, ChangeKeeps DEF SummaryChanges, Changes
  <2> QED
    BY <1>2, <2>2 DEF SummaryChanges, Changes, Fetched, ShownOwn
<1>3. ASSUME NEW o \in Offices, NEW a \in Clerks, AgentChanges(o, a) PROVE ViewInv'
  <2>1. PICK n, f : Changes(o, [worker[o] EXCEPT !.agents = f], AgentDelta(a, n))
    BY <1>3 DEF AgentChanges
  <2>2. SnapshotOf(o, [worker[o] EXCEPT !.agents = f])
    BY DEF Answers, SnapshotOf, IsSnapshot
  <2>3. Answers'
    BY <2>1, <2>2, ChangeKeeps DEF Changes
  <2> QED
    BY <2>1, <2>3 DEF Changes, Fetched, ShownOwn
<1>4. ASSUME NEW o \in Offices, Observes(o) PROVE ViewInv'
  <2> DEFINE s == [worker[o] EXCEPT !.observedAt = clock]
  <2>1. SnapshotOf(o, s)
    BY DEF Answers, SnapshotOf, IsSnapshot
  <2>2. worker' = [worker EXCEPT ![o] = s]
    BY <1>4 DEF Observes
  <2>3. Answers'
    BY <2>1, <2>2, ChangeKeeps
  <2> QED
    BY <1>4, <2>3 DEF Observes, Fetched, ShownOwn
<1>5. CASE Refreshes
  BY <1>5 DEF Refreshes, Asked, Answers, Fetched, ShownOwn
<1>6. CASE WorkerAnswers
  BY <1>6 DEF WorkerAnswers, Answers, Fetched, ShownOwn
<1>7. CASE FetchFails
  BY <1>7 DEF FetchFails, NoFetch, Answers, Fetched, ShownOwn
<1>8. CASE SnapshotArrives
  <2>1. ShownOwn'
    BY <1>8, SnapshotKeeps DEF SnapshotArrives, Fetched, ShownOwn
  <2> QED
    BY <1>8, <2>1 DEF SnapshotArrives, NoFetch, Answers, Fetched
<1>9. CASE DeltaArrives
  <2> DEFINE next == WithDelta(view, Head(events))
  <2>1. ViewOf(pageOffice, [next EXCEPT !.gap = FALSE])
    BY DeltaKeeps, GapClearedKeeps DEF ShownOwn
  <2>2. ShownOwn'
    BY <1>9, <2>1 DEF DeltaArrives, ShownOwn
  <2>3. fetch' \in {Asked, fetch}
    BY <1>9 DEF DeltaArrives
  <2> QED
    BY <1>9, <2>2, <2>3 DEF DeltaArrives, Asked, Answers, Fetched
<1>10. CASE SwitchesOffice
  <2>1. ShownOwn'
    BY <1>10 DEF SwitchesOffice, AfterSwitch, Blank, ShownOwn, ViewOf, IsView
  <2> QED
    BY <1>10, <2>1 DEF SwitchesOffice, Asked, Answers, Fetched
<1>11. CASE StreamTurns
  <2>1. fetch' \in {Asked, fetch}
    BY <1>11 DEF StreamTurns
  <2> QED
    BY <1>11, <2>1 DEF StreamTurns, Asked, Answers, Fetched, ShownOwn
<1>12. CASE UNCHANGED viewVars
  BY <1>12 DEF viewVars, Answers, Fetched, ShownOwn
<1> QED
  BY <1>1, <1>2, <1>3, <1>4, <1>5, <1>6, <1>7, <1>8, <1>9, <1>10, <1>11, <1>12 DEF ViewNext

\* use-bridge.ts:93-101: the page never shows, and so never acts on, another company than the
\* one it is at: the worker's answers carry their company, an answer on its way is dropped with
\* the company it is of, and no delta changes the company of a snapshot.
THEOREM PageAlwaysOwn == ViewSpec => []OwnOffice
<1>1. ViewInv => OwnOffice
  BY DEF ViewInv, ShownOwn, ViewOf, SnapshotOf, OwnOffice
<1> QED
  BY InitView, StepView, <1>1, PTL DEF ViewSpec

-----------------------------------------------------------------------------
(* The types of BehaviorPublish.                                           *)

LEMMA VectorInRange ==
  ASSUME NEW time \in Nat, NEW level \in 0 .. Top, NEW at \in 0 .. time, NEW w,
         w = [level |-> level, at |-> at], NEW later \in Nat
  PROVE  Vector(w, later) \in 0 .. Top
<1>1. Top \in Nat /\ Fade \in Nat
  BY PublishBounds
<1> QED
  BY <1>1 DEF Vector

LEMMA PublishKeeps ==
  ASSUME PublishTypeOK, NEW w \in [level : 0 .. Top, at : 0 .. now], NEW time \in 0 .. now,
         NEW force, TryPublish(w, time, force)
  PROVE  pub' \in [at : 0 .. now, value : -1 .. Top, pending : BOOLEAN]
<1>0. now \in Nat /\ Top \in Nat
  BY PublishBounds DEF PublishTypeOK
<1>1. PICK v \in 0 .. Top : v = Vector(w, time)
  <2>1. w = [level |-> w.level, at |-> w.at] /\ w.level \in 0 .. Top /\ w.at \in 0 .. now
    OBVIOUS
  <2> QED
    BY <1>0, <2>1, VectorInRange
<1>2. pub \in [at : 0 .. now, value : -1 .. Top, pending : BOOLEAN]
  BY DEF PublishTypeOK
<1>3. pub' \in {[pub EXCEPT !.pending = FALSE], [at |-> time, value |-> v, pending |-> FALSE],
                [pub EXCEPT !.pending = TRUE]}
  BY <1>1 DEF TryPublish
<1>4. [at |-> time, value |-> v, pending |-> FALSE] \in [at : 0 .. now, value : -1 .. Top, pending : BOOLEAN]
  BY <1>0
<1>5. [pub EXCEPT !.pending = FALSE] \in [at : 0 .. now, value : -1 .. Top, pending : BOOLEAN]
  BY <1>2
<1>6. [pub EXCEPT !.pending = TRUE] \in [at : 0 .. now, value : -1 .. Top, pending : BOOLEAN]
  BY <1>2
<1> QED
  BY <1>3, <1>4, <1>5, <1>6

LEMMA InitPublish == PublishInit => PublishTypeOK
  BY PublishBounds DEF PublishInit, PublishTypeOK

LEMMA StepPublish == PublishTypeOK /\ [PublishNext]_publishVars => PublishTypeOK'
<1> SUFFICES ASSUME PublishTypeOK, [PublishNext]_publishVars PROVE PublishTypeOK'
  OBVIOUS
<1>0. /\ now \in 1 .. MaxTime /\ observed \in 0 .. now
      /\ work \in [level : 0 .. Top, at : 0 .. now]
      /\ pub \in [at : 0 .. now, value : -1 .. Top, pending : BOOLEAN]
      /\ MaxTime \in Nat /\ Top \in Nat /\ now \in Nat
  BY PublishBounds DEF PublishTypeOK
<1>1. CASE TimePasses
  <2>1. now' \in 1 .. MaxTime /\ \A n \in 0 .. now : n \in 0 .. now'
    BY <1>0, <1>1 DEF TimePasses
  <2> QED
    BY <1>0, <1>1, <2>1 DEF TimePasses, PublishTypeOK
<1>2. ASSUME NEW level \in 0 .. Top, NEW time \in 1 .. MaxTime, WorkEvent(level, time)
      PROVE  PublishTypeOK'
  <2>1. work' \in [level : 0 .. Top, at : 0 .. now] /\ observed' \in 0 .. now
    BY <1>0, <1>2 DEF WorkEvent
  <2>2. pub' \in [at : 0 .. now, value : -1 .. Top, pending : BOOLEAN]
    BY <1>2, <2>1, PublishKeeps DEF WorkEvent
  <2> QED
    BY <1>0, <1>2, <2>1, <2>2 DEF WorkEvent, PublishTypeOK
<1>3. ASSUME NEW level \in 0 .. Top, ReconcilePublish(level) PROVE PublishTypeOK'
  <2>1. work' \in [level : 0 .. Top, at : 0 .. now] /\ now \in 0 .. now
    BY <1>0, <1>3 DEF ReconcilePublish
  <2>2. pub' \in [at : 0 .. now, value : -1 .. Top, pending : BOOLEAN]
    BY <1>3, <2>1, PublishKeeps DEF ReconcilePublish
  <2> QED
    BY <1>0, <1>3, <2>1, <2>2 DEF ReconcilePublish, PublishTypeOK
<1>4. CASE FlushBehavior
  <2>1. now \in 0 .. now
    BY <1>0
  <2>2. pub' \in [at : 0 .. now, value : -1 .. Top, pending : BOOLEAN]
    BY <1>0, <1>4, <2>1, PublishKeeps DEF FlushBehavior
  <2> QED
    BY <1>0, <1>4, <2>2 DEF FlushBehavior, PublishTypeOK
<1>5. CASE UNCHANGED publishVars
  BY <1>5 DEF publishVars, PublishTypeOK
<1> QED
  BY <1>1, <1>2, <1>3, <1>4, <1>5 DEF PublishNext

-----------------------------------------------------------------------------
(* The types of CharacterComposer.                                         *)

\* An agent's record is a plain one or a composition, whichever it is.
RecordsTyped(map) == \A a \in Wearers : map[a] \in PlainRecords \/ map[a].mode = "composition"

\* ComposerInv, with the types it leaves out.
ComposerTypes ==
  /\ ComposerInv
  /\ catalogLoads \in BOOLEAN
  /\ RecordsTyped(kept) /\ RecordsTyped(composed) /\ RecordsTyped(shown.records)
  /\ filling # NotFilling => RecordsTyped(filling.found)
  /\ shown.parts \in {{}, PartIds}
  /\ edits \in 0 .. MaxEdits

LEMMA TypesOfComposer == ComposerTypes => ComposerTypeOK
<1> SUFFICES ASSUME ComposerTypes PROVE ComposerTypeOK
  OBVIOUS
<1>1. submitted.at \in {"idle", "asked", "written"}
  <2>1. CASE submitted = NotSubmitted
    BY <2>1 DEF NotSubmitted
  <2>2. CASE submitted # NotSubmitted
    BY <2>2 DEF ComposerTypes, ComposerInv, Awaited
  <2> QED
    BY <2>1, <2>2
<1> QED
  BY <1>1 DEF ComposerTypes, ComposerInv, SheetMaps, Drafts, RecordsTyped, ComposerTypeOK

LEMMA NoRecordsTyped == RecordsTyped([a \in Wearers |-> NoRecord])
  BY DEF RecordsTyped, PlainRecords

LEMMA RecordPut ==
  ASSUME NEW map, map = [a \in Wearers |-> map[a]], RecordsTyped(map), NEW a \in Wearers, NEW r,
         r \in PlainRecords \/ r.mode = "composition"
  PROVE  RecordsTyped([map EXCEPT ![a] = r])
<1>1. [map EXCEPT ![a] = r] = [b \in Wearers |-> IF b = a THEN r ELSE map[b]]
  OBVIOUS
<1> QED
  BY <1>1 DEF RecordsTyped

LEMMA InitComposerTypes == ComposerInit => ComposerTypes
<1> SUFFICES ASSUME ComposerInit PROVE ComposerTypes
  OBVIOUS
<1>1. MaxEdits \in Nat
  BY ComposerBounds
<1>2. shown.records = kept /\ shown.parts = {}
  BY DEF ComposerInit
<1> QED
  BY <1>1, <1>2, InitComposer, NoRecordsTyped DEF ComposerInit, ComposerTypes

LEMMA StepComposerTypes == ComposerTypes /\ [ComposerNext]_composerVars => ComposerTypes'
<1> SUFFICES ASSUME ComposerTypes, [ComposerNext]_composerVars PROVE ComposerTypes'
  OBVIOUS
<1> DEFINE Rest == /\ catalogLoads \in BOOLEAN
                   /\ RecordsTyped(kept) /\ RecordsTyped(composed) /\ RecordsTyped(shown.records)
                   /\ filling # NotFilling => RecordsTyped(filling.found)
                   /\ shown.parts \in {{}, PartIds}
                   /\ edits \in 0 .. MaxEdits
<1>0. ComposerInv' /\ ComposerInv /\ Rest /\ MaxEdits \in Nat
  BY StepComposer, ComposerBounds DEF ComposerTypes
<1>s. SUFFICES Rest'
  BY <1>0 DEF ComposerTypes
<1>a. /\ kept = [a \in Wearers |-> kept[a]] /\ composed = [a \in Wearers |-> composed[a]]
      /\ filling # NotFilling => filling.found = [a \in Wearers |-> filling.found[a]]
  BY <1>0 DEF ComposerInv, Records, AreRecords
<1>b. \A c : Composition(c).mode = "composition"
  BY DEF Composition
<1>1. CASE PageLoads
  <2>1. /\ shown'.parts \in {{}, PartIds} /\ RecordsTyped(shown'.records)
    BY <1>0, <1>1, NoRecordsTyped DEF PageLoads
  <2> QED
    BY <1>0, <1>1, <2>1 DEF PageLoads
<1>2. CASE PicksAgent
  BY <1>0, <1>2 DEF PicksAgent
<1>3. ASSUME NEW c, SetDraft(c) PROVE Rest'
  BY <1>0, <1>3 DEF SetDraft
<1>4. CASE SavesComposition
  BY <1>0, <1>4 DEF SavesComposition
<1>5. CASE SaveRefused
  BY <1>0, <1>5 DEF SaveRefused
<1>6. CASE SaveAccepted \/ SaveAnswered
  <2>1. submitted # NotSubmitted
    BY <1>6 DEF SaveAccepted, SaveAnswered, NotSubmitted
  <2>2. submitted.agent \in Wearers
    BY <1>0, <2>1 DEF ComposerInv, Awaited
  <2>3. CASE SaveAccepted
    <3>1. RecordsTyped(kept')
      BY <1>0, <1>a, <1>b, <2>2, <2>3, RecordPut DEF SaveAccepted
    <3> QED
      BY <1>0, <2>3, <3>1 DEF SaveAccepted
  <2>4. CASE SaveAnswered
    <3>1. RecordsTyped(composed')
      BY <1>0, <1>a, <1>b, <2>2, <2>4, RecordPut DEF SaveAnswered
    <3> QED
      BY <1>0, <2>4, <3>1 DEF SaveAnswered
  <2> QED
    BY <1>6, <2>3, <2>4
<1>7. CASE SheetAssigned
  BY <1>0, <1>7 DEF SheetAssigned
<1>8. CASE FillStarts
  BY <1>0, <1>8 DEF FillStarts
<1>9. ASSUME NEW a \in Wearers, FillWrites(a) PROVE Rest'
  <2>1. PICK r : r = WholeSheet(sheetOf[a]) /\ r \in PlainRecords
    BY <1>0 DEF ComposerInv, SheetMaps, PlainRecords
  <2>2. filling # NotFilling
    BY <1>9 DEF FillWrites, NotFilling
  <2>3. kept' = [kept EXCEPT ![a] = r] /\ kept'[a] = r
    <3>1. kept' = [kept EXCEPT ![a] = r]
      BY <1>9, <2>1 DEF FillWrites
    <3> QED
      BY <1>a, <3>1
  <2>4. filling'.found = [filling.found EXCEPT ![a] = r]
    BY <1>9, <2>3 DEF FillWrites
  <2>5. RecordsTyped(kept')
    BY <1>0, <1>a, <2>1, <2>3, RecordPut
  <2>6. PICK f : f = filling.found /\ f = [b \in Wearers |-> f[b]] /\ RecordsTyped(f)
    BY <1>0, <1>a, <2>2
  <2>7. RecordsTyped([f EXCEPT ![a] = r])
    BY <2>1, <2>6, RecordPut
  <2>8. RecordsTyped(filling'.found)
    BY <2>4, <2>6, <2>7
  <2> QED
    BY <1>0, <1>9, <2>5, <2>8 DEF FillWrites
<1>10. CASE FillEnds
  BY <1>0, <1>10 DEF FillEnds
<1>11. CASE WorkerStartsAnew
  BY <1>0, <1>11, NoRecordsTyped DEF WorkerStartsAnew
<1>12. CASE UNCHANGED composerVars
  BY <1>0, <1>12 DEF composerVars
<1> HIDE DEF Rest
<1> QED
  BY <1>1, <1>2, <1>3, <1>4, <1>5, <1>6, <1>7, <1>8, <1>9, <1>10, <1>11, <1>12
  DEF ComposerNext, EditsDraft, Converts

-----------------------------------------------------------------------------
(* The types of BridgeView.                                                *)

\* A snapshot says when it was taken, and lists agents.
Dated(s) == s.observedAt \in 0 .. clock /\ DOMAIN s.agents \subseteq Clerks

\* ViewInv, with the types it leaves out: no snapshot is from the future.
ViewTypes ==
  /\ ViewInv
  /\ clock \in 0 .. MaxClock
  /\ \A o \in Offices : Dated(worker[o])
  /\ view.gap = FALSE /\ view.synced \in Never .. clock
  /\ fetch.at \in {"idle", "asked", "answered"}
  /\ fetch.at = "answered" => Dated(fetch.snapshot)
  /\ connected \in BOOLEAN /\ arrived \in Never .. clock
  /\ changes \in 0 .. MaxChanges /\ switches \in 0 .. MaxSwitches

LEMMA TypesOfView == ViewTypes => ViewTypeOK
  BY DEF ViewTypes, ViewTypeOK, ViewInv, Answers, SnapshotOf, Dated

LEMMA InitViewTypes == ViewInit => ViewTypes
<1> SUFFICES ASSUME ViewInit PROVE ViewTypes
  OBVIOUS
<1>1. /\ MaxClock \in Nat /\ MaxChanges \in Nat /\ MaxSwitches \in Nat
  BY ViewBounds
<1>2. ASSUME NEW o \in Offices PROVE Dated(worker[o])
  <2>1. worker[o].observedAt = 0 /\ worker[o].agents = [a \in {} |-> 0] /\ clock = 0
    BY DEF ViewInit
  <2> QED
    BY <2>1 DEF Dated
<1>3. view.gap = FALSE /\ view.synced = -1 /\ fetch.at = "asked"
  BY DEF ViewInit, Blank, Asked, Never
<1>4. clock = 0 /\ clock \in 0 .. MaxClock /\ -1 \in Never .. clock
  BY <1>1 DEF ViewInit, Never
<1>5. /\ changes \in 0 .. MaxChanges /\ switches \in 0 .. MaxSwitches
      /\ connected \in BOOLEAN /\ arrived = -1
  <2>1. changes = MaxChanges /\ switches = MaxSwitches /\ connected = FALSE /\ arrived = Never
    BY DEF ViewInit
  <2>2. \A n \in Nat : n \in 0 .. n
    OBVIOUS
  <2> QED
    BY <1>1, <2>1, <2>2 DEF Never
<1>6. fetch.at \in {"idle", "asked", "answered"} /\ fetch.at # "answered"
  BY <1>3
<1>7. ViewInv
  BY InitView
<1> QED
  BY <1>2, <1>3, <1>4, <1>5, <1>6, <1>7 DEF ViewTypes

LEMMA StepViewTypes == ViewTypes /\ [ViewNext]_viewVars => ViewTypes'
<1> SUFFICES ASSUME ViewTypes, [ViewNext]_viewVars PROVE ViewTypes'
  OBVIOUS
<1> DEFINE Kept == /\ clock \in 0 .. MaxClock
                   /\ \A o \in Offices : Dated(worker[o])
                   /\ view.gap = FALSE /\ view.synced \in Never .. clock
                   /\ fetch.at \in {"idle", "asked", "answered"}
                   /\ fetch.at = "answered" => Dated(fetch.snapshot)
                   /\ connected \in BOOLEAN /\ arrived \in Never .. clock
                   /\ changes \in 0 .. MaxChanges /\ switches \in 0 .. MaxSwitches
<1>0. ViewInv' /\ ViewInv /\ Kept
  BY StepView DEF ViewTypes
<1>s. SUFFICES Kept'
  BY <1>0 DEF ViewTypes
<1>b. MaxClock \in Nat /\ MaxChanges \in Nat /\ MaxSwitches \in Nat /\ Never = -1 /\ clock \in Nat
  BY <1>0, ViewBounds DEF Never
<1>w. worker = [o \in Offices |-> worker[o]] /\ \A o \in Offices : IsSnapshot(worker[o])
  BY <1>0 DEF ViewInv, Answers, SnapshotOf
<1>v. IsView(view) /\ (view.snapshot # NoView => IsSnapshot(view.snapshot))
  BY <1>0 DEF ViewInv, ShownOwn, ViewOf, SnapshotOf
<1>1. CASE ClockTicks
  <2>1. /\ clock' \in 0 .. MaxClock /\ \A n \in 0 .. clock : n \in 0 .. clock'
        /\ \A n \in Never .. clock : n \in Never .. clock'
    BY <1>0, <1>1, <1>b DEF ClockTicks
  <2>2. UNCHANGED <<worker, pageOffice, view, fetch, connected, events, arrived, changes, switches>>
    BY <1>1 DEF ClockTicks
  <2>3. \A o \in Offices : Dated(worker[o])'
    BY <1>0, <2>1, <2>2 DEF Dated
  <2>4. fetch'.at = "answered" => Dated(fetch.snapshot)'
    BY <1>0, <2>1, <2>2 DEF Dated
  <2> QED
    BY <1>0, <2>1, <2>2, <2>3, <2>4
<1>2. ASSUME NEW o \in Offices, NEW s, NEW e, s.observedAt = worker[o].observedAt,
             DOMAIN s.agents \subseteq Clerks, Changes(o, s, e)
      PROVE  Kept'
  <2>1. worker' = [p \in Offices |-> IF p = o THEN s ELSE worker[p]]
    BY <1>2, <1>w DEF Changes
  <2>2. /\ changes' \in 0 .. MaxChanges
        /\ UNCHANGED <<clock, pageOffice, view, fetch, connected, arrived, switches>>
    BY <1>0, <1>2, <1>b DEF Changes
  <2>3. \A p \in Offices : Dated(worker[p])'
    BY <1>0, <1>2, <2>1, <2>2 DEF Dated
  <2>4. fetch'.at = "answered" => Dated(fetch.snapshot)'
    BY <1>0, <2>2 DEF Dated
  <2> QED
    BY <1>0, <2>2, <2>3, <2>4
<1>3. ASSUME NEW o \in Offices, SummaryChanges(o) PROVE Kept'
  <2>1. PICK s : s = [worker[o] EXCEPT !.summary = @ + 1]
    OBVIOUS
  <2>2. s.observedAt = worker[o].observedAt /\ s.agents = worker[o].agents
    BY <1>w, <2>1 DEF IsSnapshot
  <2>3. Changes(o, s, SummaryDelta(o)) /\ DOMAIN s.agents \subseteq Clerks
    BY <1>0, <1>3, <2>1, <2>2 DEF SummaryChanges, Dated
  <2> QED
    BY <1>2, <2>2, <2>3
<1>4. ASSUME NEW o \in Offices, NEW a \in Clerks, AgentChanges(o, a) PROVE Kept'
  <2>a. PICK n : Changes(o, [worker[o] EXCEPT !.agents = [b \in DOMAIN @ \cup {a} |->
                                                            IF b = a THEN n ELSE @[b]]],
                         AgentDelta(a, n))
    BY <1>4 DEF AgentChanges
  <2>b. PICK f : f = [b \in DOMAIN worker[o].agents \cup {a} |->
                        IF b = a THEN n ELSE worker[o].agents[b]]
    OBVIOUS
  <2>1. /\ Changes(o, [worker[o] EXCEPT !.agents = f], AgentDelta(a, n))
        /\ DOMAIN f = DOMAIN worker[o].agents \cup {a}
    BY <2>a, <2>b
  <2>2. PICK s : s = [worker[o] EXCEPT !.agents = f]
    OBVIOUS
  <2>3. s.observedAt = worker[o].observedAt /\ s.agents = f
    BY <1>w, <2>2 DEF IsSnapshot
  <2>4. DOMAIN s.agents \subseteq Clerks
    BY <1>0, <2>1, <2>3 DEF Dated
  <2> QED
    BY <1>2, <2>1, <2>2, <2>3, <2>4
<1>5. ASSUME NEW o \in Offices, Observes(o) PROVE Kept'
  <2>1. PICK s : s = [worker[o] EXCEPT !.observedAt = clock]
    OBVIOUS
  <2>2. s.observedAt = clock /\ s.agents = worker[o].agents
    BY <1>w, <2>1 DEF IsSnapshot
  <2>3. worker' = [p \in Offices |-> IF p = o THEN s ELSE worker[p]]
    BY <1>5, <1>w, <2>1 DEF Observes
  <2>4. UNCHANGED <<clock, pageOffice, view, fetch, connected, events, arrived, changes, switches>>
    BY <1>5 DEF Observes
  <2>5. \A p \in Offices : Dated(worker[p])'
    BY <1>0, <1>b, <2>2, <2>3, <2>4 DEF Dated
  <2>6. fetch'.at = "answered" => Dated(fetch.snapshot)'
    BY <1>0, <2>4 DEF Dated
  <2> QED
    BY <1>0, <2>4, <2>5, <2>6
<1>i. NoFetch.at = "idle" /\ Asked.at = "asked" /\ Blank.gap = FALSE /\ Blank.synced = Never
  BY DEF NoFetch, Asked, Blank
<1>6. CASE Refreshes
  <2>1. fetch' = Asked /\ UNCHANGED <<clock, worker, view, connected, arrived, changes, switches>>
    BY <1>6 DEF Refreshes
  <2> QED
    BY <1>0, <1>i, <2>1 DEF Dated
<1>7. CASE WorkerAnswers
  <2>1. /\ fetch'.at = "answered" /\ fetch'.snapshot = worker[pageOffice]
        /\ UNCHANGED <<clock, worker, view, connected, arrived, changes, switches>>
    BY <1>7 DEF WorkerAnswers
  <2>2. Dated(worker[pageOffice])
    BY <1>0 DEF ViewInv
  <2>3. Dated(fetch.snapshot)'
    BY <2>1, <2>2 DEF Dated
  <2> QED
    BY <1>0, <2>1, <2>3 DEF Dated
<1>8. CASE FetchFails
  <2>1. /\ fetch' = NoFetch /\ switches' \in 0 .. MaxSwitches
        /\ UNCHANGED <<clock, worker, view, connected, arrived, changes>>
    BY <1>0, <1>8, <1>b DEF FetchFails
  <2> QED
    BY <1>0, <1>i, <2>1 DEF Dated
<1>9. CASE SnapshotArrives
  <2>1. /\ fetch' = NoFetch /\ arrived' = clock
        /\ UNCHANGED <<clock, worker, connected, changes, switches>>
    BY <1>9 DEF SnapshotArrives
  <2>2. view'.gap = FALSE /\ view'.synced = fetch.snapshot.observedAt
    BY <1>9 DEF SnapshotArrives, WithSnapshot
  <2>3. view'.synced \in Never .. clock /\ arrived' \in Never .. clock
    BY <1>0, <1>9, <1>b, <2>1, <2>2 DEF SnapshotArrives, Dated
  <2> QED
    BY <1>0, <1>i, <2>1, <2>2, <2>3 DEF Dated
<1>10. CASE DeltaArrives
  <2>1. PICK e : e = Head(events)
    OBVIOUS
  <2>2. PICK next : next = WithDelta(view, e)
    OBVIOUS
  <2>3. /\ view' = [next EXCEPT !.gap = FALSE] /\ fetch' \in {Asked, fetch}
        /\ UNCHANGED <<clock, worker, connected, arrived, changes, switches>>
    BY <1>10, <2>1, <2>2 DEF DeltaArrives
  <2>4. IsView(next)
    BY <1>0, <2>2, DeltaKeeps DEF ViewInv, ShownOwn, ViewOf
  <2>5. next.synced = view.synced
    <3>1. PICK snap : \/ next = [view EXCEPT !.gap = TRUE] \/ next = [view EXCEPT !.snapshot = snap]
      <4>1. CASE view.snapshot = NoView
        BY <2>2, <4>1 DEF WithDelta
      <4>2. CASE view.snapshot # NoView
        <5> DEFINE u == view.snapshot
        <5>1. CASE e.type = "summary"
          <6>1. next = [view EXCEPT !.snapshot = [u EXCEPT !.summary = e.value]]
            BY <1>v, <2>2, <4>2, <5>1 DEF WithDelta, IsSnapshot, IsView
          <6> QED
            BY <6>1
        <5>2. CASE e.type # "summary" /\ e.agent \in DOMAIN u.agents
          <6>1. next = [view EXCEPT !.snapshot =
                          [u EXCEPT !.agents = [u.agents EXCEPT ![e.agent] = e.value]]]
            BY <1>v, <2>2, <4>2, <5>2 DEF WithDelta, IsSnapshot, IsView
          <6> QED
            BY <6>1
        <5>3. CASE e.type # "summary" /\ e.agent \notin DOMAIN u.agents
          BY <2>2, <4>2, <5>3 DEF WithDelta
        <5> QED
          BY <5>1, <5>2, <5>3
      <4> QED
        BY <4>1, <4>2
    <3> QED
      BY <1>v, <3>1 DEF IsView
  <2>6. view'.gap = FALSE /\ view'.synced = view.synced
    BY <2>3, <2>4, <2>5 DEF IsView
  <2> QED
    BY <1>0, <1>i, <2>3, <2>6 DEF Dated
<1>11. CASE SwitchesOffice
  <2>1. /\ fetch' = Asked /\ view' = Blank /\ arrived' = Never /\ switches' \in 0 .. MaxSwitches
        /\ UNCHANGED <<clock, worker, connected, changes>>
    BY <1>0, <1>11, <1>b DEF SwitchesOffice, AfterSwitch
  <2>2. Never \in Never .. clock
    BY <1>b
  <2> QED
    BY <1>0, <1>i, <2>1, <2>2 DEF Dated
<1>12. CASE StreamTurns
  <2>1. /\ fetch' \in {Asked, fetch} /\ connected' \in BOOLEAN /\ switches' \in 0 .. MaxSwitches
        /\ UNCHANGED <<clock, worker, view, arrived, changes>>
    BY <1>0, <1>12, <1>b DEF StreamTurns
  <2> QED
    BY <1>0, <1>i, <2>1 DEF Dated
<1>13. CASE UNCHANGED viewVars
  BY <1>0, <1>13 DEF viewVars, Dated
<1> HIDE DEF Kept
<1> QED
  BY <1>1, <1>3, <1>4, <1>5, <1>6, <1>7, <1>8, <1>9, <1>10, <1>11, <1>12, <1>13 DEF ViewNext

-----------------------------------------------------------------------------
(* The types of CommsReader.                                               *)

\* The entries there can be.
Recordings == [seq : 0 .. MaxSeq]

\* What is logged, persisted and shown are numbers that were given.
ReaderTypes ==
  /\ log \in [seq : 0 .. MaxSeq, limit : Nat, entries : Seq(Recordings)]
  /\ onDisk \in [limit : Nat, entries : Seq(Recordings)]
  /\ pageSize \in PageSizes /\ beforeSeq \in 0 .. MaxSeq /\ nextBeforeSeq \in 0 .. MaxSeq
  /\ entries \in Seq(Recordings) /\ top \in 0 .. MaxSeq
  /\ fetched \in BOOLEAN /\ restarted \in BOOLEAN /\ settings \in 0 .. MaxSettings

LEMMA SeqOfMore ==
  ASSUME NEW S, NEW T, S \subseteq T, NEW s \in Seq(S)
  PROVE  s \in Seq(T)
<1>1. PICK n \in Nat : n = Len(s)
  BY LenProperties
<1>2. \A i \in 1 .. n : s[i] \in S
  BY <1>1, ElementOfSeq
<1>3. s \in [1 .. n -> T]
  BY <1>1, <1>2, LenProperties
<1> QED
  BY <1>3

LEMMA TypesOfReader == ReaderTypes => ReaderTypeOK
<1> SUFFICES ASSUME ReaderTypes PROVE ReaderTypeOK
  OBVIOUS
<1>1. Recordings \subseteq Entries
  BY ReaderAssumption DEF Recordings, Entries
<1>2. \A s \in Seq(Recordings) : s \in Seq(Entries)
  BY <1>1, SeqOfMore
<1>3. log \in [seq : 0 .. MaxSeq, limit : Nat, entries : Seq(Entries)]
  BY <1>2 DEF ReaderTypes
<1>4. onDisk \in Compacts /\ entries \in Seq(Entries)
  BY <1>2 DEF ReaderTypes, Compacts
<1> QED
  BY <1>3, <1>4 DEF ReaderTypes, ReaderTypeOK

LEMMA LimitClamped ==
  ASSUME NEW n \in Int
  PROVE  ClampLimit(n) \in Nat /\ ClampLimit(n) >= 1
  BY LogAssumption DEF ClampLimit

LEMMA NewestType ==
  ASSUME NEW S, NEW s \in Seq(S), NEW n \in Nat
  PROVE  Newest(s, n) \in Seq(S)
<1>0. PICK L \in Nat : L = Len(s)
  BY LenProperties
<1>1. CASE L > n
  <2>1. PICK from \in 1 .. L + 1 : from = L - n + 1
    BY <1>1
  <2>2. \A i \in from .. L : s[i] \in S
    BY <1>0, <2>1, ElementOfSeq
  <2>3. SubSeq(s, from, L) \in Seq(S)
    BY <1>0, <2>1, <2>2, SubSeqProperties
  <2> QED
    BY <1>0, <1>1, <2>1, <2>3 DEF Newest
<1>2. CASE ~ (L > n)
  BY <1>0, <1>2 DEF Newest
<1> QED
  BY <1>1, <1>2

LEMMA SelectedOf ==
  ASSUME NEW S, NEW s \in Seq(S), NEW P, P \subseteq Range(s)
  PROVE  Selected(s, P) \in Seq(S)
<1>1. Len(s) \in Nat
  BY LenProperties
<1>2. Selected(s, P) \in Seq(P)
  BY <1>1, SelectedType
<1>3. P \subseteq S
  <2>1. \A i \in DOMAIN s : s[i] \in S
    BY ElementOfSeq, LenProperties
  <2> QED
    BY <2>1 DEF Range
<1> QED
  BY <1>2, <1>3, SeqOfMore

LEMMA ReverseType ==
  ASSUME NEW S, NEW s \in Seq(S)
  PROVE  Reverse(s) \in Seq(S)
<1>0. PICK n \in Nat : n = Len(s)
  BY LenProperties
<1>1. \A i \in 1 .. n : n - i + 1 \in 1 .. n
  BY <1>0
<1>2. Reverse(s) = [i \in 1 .. n |-> s[(n - i) + 1]]
  BY <1>0 DEF Reverse
<1>3. \A i \in 1 .. n : s[i] \in S
  BY <1>0, ElementOfSeq
<1>4. Reverse(s) \in [1 .. n -> S]
  BY <1>1, <1>2, <1>3
<1> QED
  BY <1>0, <1>4

LEMMA InitReaderTypes == ReaderInit => ReaderTypes
<1> SUFFICES ASSUME ReaderInit PROVE ReaderTypes
  OBVIOUS
<1>1. MaxSeq \in Nat /\ MaxSettings \in Nat /\ FirstSize \in PageSizes /\ DefaultLimit \in Nat
  BY ReaderAssumption, LogAssumption
<1>2. <<>> \in Seq(Recordings)
  OBVIOUS
<1>3. EmptyLog \in [seq : 0 .. MaxSeq, limit : Nat, entries : Seq(Recordings)]
  BY <1>1, <1>2 DEF EmptyLog
<1>4. Compact(EmptyLog) \in [limit : Nat, entries : Seq(Recordings)]
  BY <1>3 DEF Compact
<1>5. NoSeq \in 0 .. MaxSeq /\ 0 \in 0 .. MaxSeq /\ MaxSettings \in 0 .. MaxSettings
  BY <1>1 DEF NoSeq
<1> QED
  BY <1>1, <1>2, <1>3, <1>4, <1>5 DEF ReaderInit, ReaderTypes

LEMMA RestoredTypes ==
  ASSUME NEW old \in [seq : 0 .. MaxSeq, limit : Nat, entries : Seq(Recordings)],
         NEW kept0 \in [limit : Nat, entries : Seq(Recordings)]
  PROVE  Restored(old, kept0) \in [seq : 0 .. MaxSeq, limit : Nat, entries : Seq(Recordings)]
<1>1. PICK most \in Nat : most = ClampLimit(kept0.limit)
  BY LimitClamped
<1>2. PICK back \in Seq(Recordings) : back = Newest(kept0.entries, most)
  BY NewestType
<1>3. PICK beside \in Seq(Recordings) : beside = KeptBeside(back, old.entries)
  BY SelectedOf DEF KeptBeside
<1>4. PICK merged \in Seq(Recordings) : merged = back \o beside
  BY ConcatProperties
<1>5. Newest(merged, most) \in Seq(Recordings)
  BY NewestType
<1>6. HighestSeq(old, merged) \in 0 .. MaxSeq
  <2>1. CASE merged = <<>>
    BY <2>1 DEF HighestSeq
  <2>2. CASE merged # <<>>
    <3>1. Len(merged) \in 1 .. Len(merged)
      BY <2>2, EmptySeq, LenProperties
    <3>2. merged[Len(merged)] \in Recordings
      BY <3>1, ElementOfSeq
    <3> QED
      BY <3>2 DEF HighestSeq, Recordings
  <2> QED
    BY <2>1, <2>2
<1>7. Restored(old, kept0) =
        [seq |-> HighestSeq(old, merged), limit |-> most, entries |-> Newest(merged, most)]
  BY <1>1, <1>2, <1>3, <1>4 DEF Restored
<1> QED
  BY <1>5, <1>6, <1>7

LEMMA PageTypes ==
  ASSUME NEW l \in [seq : 0 .. MaxSeq, limit : Nat, entries : Seq(Recordings)],
         NEW limit \in Int, NEW before
  PROVE  /\ Page(l, limit, before).entries \in Seq(Recordings)
         /\ Page(l, limit, before).next \in 0 .. MaxSeq
<1>1. PICK size \in Nat : size = ClampPage(limit) /\ size >= 1
  BY LogAssumption DEF ClampPage
<1>2. PICK below \in Seq(Recordings) : below = Below(l, before)
  <2>1. Below(l, before) \in Seq(Recordings)
    <3>1. PICK s : s = Selected(l.entries, {e \in Range(l.entries) : before = NoSeq \/ e.seq < before})
      OBVIOUS
    <3>2. s \in Seq(Recordings)
      BY <3>1, SelectedOf
    <3> QED
      BY <3>1, <3>2, ReverseType DEF Below
  <2> QED
    BY <2>1
<1>3. PICK L \in Nat : L = Len(below)
  BY LenProperties
<1>4. CASE L > size
  <2>1. Page(l, limit, before) = [entries |-> SubSeq(below, 1, size), next |-> below[size].seq]
    BY <1>1, <1>2, <1>3, <1>4 DEF Page
  <2>2. \A i \in 1 .. size : below[i] \in Recordings
    BY <1>3, <1>4, ElementOfSeq
  <2>3. SubSeq(below, 1, size) \in Seq(Recordings)
    BY <1>1, <1>3, <1>4, <2>2, SubSeqProperties
  <2>4. below[size].seq \in 0 .. MaxSeq
    BY <1>1, <2>2 DEF Recordings
  <2> QED
    BY <2>1, <2>3, <2>4
<1>5. CASE ~ (L > size)
  <2>1. Page(l, limit, before) = [entries |-> below, next |-> NoSeq]
    BY <1>1, <1>2, <1>3, <1>5 DEF Page
  <2> QED
    BY <2>1, ReaderAssumption DEF NoSeq
<1> QED
  BY <1>4, <1>5

LEMMA StepReaderTypes == ReaderTypes /\ [ReaderNext]_readerVars => ReaderTypes'
<1> SUFFICES ASSUME ReaderTypes, [ReaderNext]_readerVars PROVE ReaderTypes'
  OBVIOUS
<1> DEFINE Held == [seq : 0 .. MaxSeq, limit : Nat, entries : Seq(Recordings)]
<1>0. /\ log \in Held /\ onDisk \in [limit : Nat, entries : Seq(Recordings)]
      /\ pageSize \in PageSizes /\ beforeSeq \in 0 .. MaxSeq /\ nextBeforeSeq \in 0 .. MaxSeq
      /\ entries \in Seq(Recordings) /\ top \in 0 .. MaxSeq
      /\ fetched \in BOOLEAN /\ restarted \in BOOLEAN /\ settings \in 0 .. MaxSettings
  BY DEF ReaderTypes
<1>b. /\ MaxSeq \in Nat /\ MaxSettings \in Nat /\ NoSeq \in 0 .. MaxSeq
      /\ \A n \in PageSizes \cup Capacities : n \in Int
  BY ReaderAssumption DEF NoSeq
<1>l. settings > 0 => settings - 1 \in 0 .. MaxSettings
  BY <1>0, <1>b
<1>1. CASE RecordsEntry
  <2>1. PICK e \in Recordings : e = [seq |-> log.seq + 1]
    <3>1. log.seq + 1 \in 0 .. MaxSeq
      BY <1>0, <1>1, <1>b DEF RecordsEntry
    <3> QED
      BY <3>1 DEF Recordings
  <2>2. PICK grown \in Seq(Recordings) : grown = Append(log.entries, e) /\ grown # <<>>
    BY <1>0, AppendProperties, EmptySeq
  <2>3. Tail(grown) \in Seq(Recordings)
    BY <2>2, HeadTailProperties
  <2>4. PICK s \in Seq(Recordings) : s = IF Len(grown) > log.limit THEN Tail(grown) ELSE grown
    BY <2>2, <2>3
  <2>5. log' = [log EXCEPT !.seq = @ + 1, !.entries = s]
    BY <1>1, <2>1, <2>2, <2>4 DEF RecordsEntry, Recorded
  <2>6. log.seq + 1 \in 0 .. MaxSeq
    BY <1>0, <1>1, <1>b DEF RecordsEntry
  <2>7. log' \in Held
    BY <1>0, <2>4, <2>5, <2>6
  <2> QED
    BY <1>0, <1>1, <2>7 DEF RecordsEntry, ReaderTypes
<1>2. ASSUME NEW n \in Capacities, Bounds(n) PROVE ReaderTypes'
  <2>1. PICK most \in Nat : most = ClampLimit(n)
    BY <1>b, LimitClamped
  <2>2. Newest(log.entries, most) \in Seq(Recordings)
    BY <1>0, NewestType
  <2>3. log' \in Held
    BY <1>0, <1>2, <2>1, <2>2 DEF Bounds, Limited
  <2> QED
    BY <1>0, <1>2, <1>l, <2>3 DEF Bounds, ReaderTypes
<1>3. CASE Persists
  <2>1. onDisk' \in [limit : Nat, entries : Seq(Recordings)]
    BY <1>0, <1>3 DEF Persists, Compact
  <2> QED
    BY <1>0, <1>3, <2>1 DEF Persists, ReaderTypes
<1>4. CASE Restarts
  <2>1. EmptyLog \in Held
    BY <1>b, LogAssumption DEF EmptyLog
  <2>2. log' \in Held
    BY <1>0, <1>4, <2>1, RestoredTypes DEF Restarts
  <2> QED
    BY <1>0, <1>4, <1>l, <2>2 DEF Restarts, ReaderTypes
<1>5. CASE Fetches
  <2>1. PICK page : page = Page(log, pageSize, beforeSeq)
    OBVIOUS
  <2>2. page.entries \in Seq(Recordings) /\ page.next \in 0 .. MaxSeq
    BY <1>0, <1>b, <2>1, PageTypes
  <2>3. Merged(entries, page.entries) \in Seq(Recordings)
    <3>1. PICK more : more = Selected(page.entries, {e \in Range(page.entries) :
                                 \A i \in DOMAIN entries : entries[i].seq # e.seq})
      OBVIOUS
    <3>2. more \in Seq(Recordings)
      BY <2>2, <3>1, SelectedOf
    <3> QED
      BY <1>0, <3>1, <3>2, ConcatProperties DEF Merged
  <2>4. entries' \in Seq(Recordings) /\ nextBeforeSeq' \in 0 .. MaxSeq
    BY <1>5, <2>1, <2>2, <2>3 DEF Fetches
  <2>5. top' \in 0 .. MaxSeq /\ restarted' \in BOOLEAN
    BY <1>0, <1>5 DEF Fetches
  <2> QED
    BY <1>0, <1>5, <2>4, <2>5 DEF Fetches, ReaderTypes
<1>6. CASE LoadMore
  BY <1>0, <1>6 DEF LoadMore, ReaderTypes
<1>7. ASSUME NEW size \in PageSizes, Resizes(size) PROVE ReaderTypes'
  <2>1. entries' \in Seq(Recordings)
    BY <1>7 DEF Resizes
  <2> QED
    BY <1>0, <1>7, <1>b, <1>l, <2>1 DEF Resizes, ReaderTypes
<1>8. CASE UNCHANGED readerVars
  BY <1>0, <1>8 DEF readerVars, ReaderTypes
<1> QED
  BY <1>1, <1>2, <1>3, <1>4, <1>5, <1>6, <1>7, <1>8 DEF ReaderNext

-----------------------------------------------------------------------------
(* The types of all parts.                                                 *)

\* The invariants of the parts together: each part keeps its own, and none touches another's.
ServicesInv ==
  /\ part \in Parts
  /\ PollerInv /\ ServerInv /\ CharacterTypes /\ ComposerTypes
  /\ PublishTypeOK /\ ReaderTypes /\ IntakeInv /\ ViewTypes

LEMMA InitServices == MCInit => ServicesInv
  BY InitPoller, InitServer, InitCharacterTypes, InitComposerTypes, InitPublish, InitReaderTypes,
     InitIntake, InitViewTypes
  DEF MCInit, ServicesInv

LEMMA StepServices == ServicesInv /\ [MCNext]_MCVars => ServicesInv'
<1> SUFFICES ASSUME ServicesInv, [MCNext]_MCVars PROVE ServicesInv'
  OBVIOUS
<1>1. /\ part' = part
      /\ [PollerNext]_pollerVars /\ [ServerNext]_serverVars /\ [CharactersNext]_characterVars
      /\ [ComposerNext]_composerVars /\ [PublishNext]_publishVars /\ [ReaderNext]_readerVars
      /\ [IntakeNext]_intakeVars /\ [ViewNext]_viewVars
  BY DEF MCNext, MCVars, Only
<1> QED
  BY <1>1, StepPoller, StepServer, StepCharacterTypes, StepComposerTypes, StepPublish,
     StepReaderTypes, StepIntake, StepViewTypes
  DEF ServicesInv

\* The states of the eight services are of the shapes their modules declare, whatever is asked,
\* answered late, refused, lost or restarted, for every value of their constants: among them that
\* a page never shows a number that no entry was given, though it merges pages of a log that
\* restarts (comms-store.ts:150-215), that the work vector published stays within its range and
\* is never of a later time than now (store.ts), and that no snapshot that the page
\* shows or waits for is of a time to come (use-bridge.ts).
THEOREM ServicesTypeCorrect == MCSpec => []ServicesTypeOK
<1>1. ServicesInv => ServicesTypeOK
  BY TypesOfCharacters, TypesOfComposer, TypesOfReader, TypesOfView
  DEF ServicesInv, ServicesTypeOK, PollerInv, ServerInv, IntakeInv
<1> QED
  BY InitServices, StepServices, <1>1, PTL DEF MCSpec
=============================================================================
