------------------------- MODULE FeedPipelineProofs -------------------------
(***************************************************************************)
(* The safety of FeedPipeline for any names, characters and seats and any  *)
(* bounds on runs, faults, activity and the wire: the batches waiting in   *)
(* the sink lead the surface where the mapper believes it to be.           *)
(***************************************************************************)
EXTENDS FeedPipeline, FeedMapperProofs, SequenceInduction, SequenceTheorems

Shapes == Characters \cup {None}

-----------------------------------------------------------------------------
(* What the batches in the wire make of a character: nothing, if there are *)
(* none; the first can be applied at once; the last is applied last.       *)
Step(batches) == [n \in 1 .. Len(batches) |-> [ch \in Shapes |-> Apply(ch, batches[n])]]

LEMMA ApplyType ==
  ASSUME NEW ch \in Shapes, NEW p \in Patches
  PROVE  Apply(ch, p) \in Shapes
  BY ApplyFields, ApplyAbsent DEF Shapes

LEMMA StepType ==
  ASSUME NEW batches \in Seq(Patches)
  PROVE  /\ Step(batches) \in [1 .. Len(batches) -> [Shapes -> Shapes]]
         /\ \A n \in 1 .. Len(batches), ch \in Shapes : Step(batches)[n][ch] = Apply(ch, batches[n])
<1>1. \A n \in 1 .. Len(batches) : batches[n] \in Patches
  OBVIOUS
<1>2. \A n \in 1 .. Len(batches), ch \in Shapes : Apply(ch, batches[n]) \in Shapes
  BY <1>1, ApplyType
<1> QED
  BY <1>2 DEF Step

\* f[n] is what the first n batches make of the character.
Applies(f, ch, batches) ==
  /\ f \in [0 .. Len(batches) -> Shapes]
  /\ f[0] = ch
  /\ \A n \in 1 .. Len(batches) : f[n] = Apply(f[n - 1], batches[n])

LEMMA AppliesUnrolls ==
  ASSUME NEW ch, NEW batches \in Seq(Patches), NEW f
  PROVE  Applies(f, ch, batches) <=> Unrolls(f, Shapes, Len(batches), ch, Step(batches))
<1> SUFFICES ASSUME f \in [0 .. Len(batches) -> Shapes]
             PROVE  \A n \in 1 .. Len(batches) :
                      Step(batches)[n][f[n - 1]] = Apply(f[n - 1], batches[n])
  <2> DEFINE App == \A n \in 1 .. Len(batches) : f[n] = Apply(f[n - 1], batches[n])
             Unr == \A n \in 1 .. Len(batches) : f[n] = Step(batches)[n][f[n - 1]]
  <2>1. (f \in [0 .. Len(batches) -> Shapes]) =>
          \A n \in 1 .. Len(batches) :
             Step(batches)[n][f[n - 1]] = Apply(f[n - 1], batches[n])
    OBVIOUS
  <2>2. (f \in [0 .. Len(batches) -> Shapes]) => (App <=> Unr)
    BY <2>1
  <2> QED
    BY <2>2 DEF Applies, Unrolls
<1> TAKE n \in 1 .. Len(batches)
<1>1. Len(batches) \in Nat
  OBVIOUS
<1>2. n - 1 \in 0 .. Len(batches)
  BY <1>1
<1>3. f[n - 1] \in Shapes
  BY <1>2
<1> QED
  BY <1>3, StepType

LEMMA ShownApplies ==
  ASSUME NEW ch \in Shapes, NEW batches \in Seq(Patches)
  PROVE  \E f : Applies(f, ch, batches) /\ Shown(ch, batches) = f[Len(batches)]
<1> DEFINE N == Len(batches)
           Rec(g) == g = [n \in 0 .. N |-> IF n = 0 THEN ch ELSE Apply(g[n - 1], batches[n])]
           f == CHOOSE g : Rec(g)
<1>1. Shown(ch, batches) = f[N]
  BY DEF Shown
<1>2. N \in Nat
  OBVIOUS
<1>3. PICK g : Unrolls(g, Shapes, N, ch, Step(batches))
  BY <1>2, StepType, RecursionExists
<1>4. Applies(g, ch, batches)
  BY <1>3, AppliesUnrolls
<1>5. Rec(g)
  BY <1>2, <1>4 DEF Applies
<1>6. Rec(f)
  BY <1>5
<1> HIDE DEF f, N
<1>7. f \in [0 .. N -> Shapes]
  <2> DEFINE P == {n \in 0 .. N : f[n] \in Shapes}
  <2>1. 0 \in P
    BY <1>2, <1>6
  <2>2. ASSUME NEW n \in 0 .. N - 1, n \in P
        PROVE  n + 1 \in P
    <3>1. f[n + 1] = Apply(f[n], batches[n + 1])
      BY <1>2, <1>6
    <3>2. batches[n + 1] \in Patches
      BY <1>2 DEF N
    <3> QED
      BY <1>2, <2>2, <3>1, <3>2, ApplyType
  <2> HIDE DEF P
  <2>3. \A n \in 0 .. N : n \in P
    BY <1>2, <2>1, <2>2, Induction
  <2>4. \A n \in 0 .. N : f[n] \in Shapes
    BY <2>3 DEF P
  <2> QED
    BY <1>6, <2>4
<1>8. f[0] = ch /\ \A n \in 1 .. N : f[n] = Apply(f[n - 1], batches[n])
  BY <1>2, <1>6
<1> QED
  BY <1>1, <1>7, <1>8 DEF Applies, N

\* Any function that starts at ch and applies the batches one by one ends at Shown.
LEMMA ShownIs ==
  ASSUME NEW ch \in Shapes, NEW batches \in Seq(Patches), NEW g, Applies(g, ch, batches)
  PROVE  Shown(ch, batches) = g[Len(batches)]
<1>1. PICK f : Applies(f, ch, batches) /\ Shown(ch, batches) = f[Len(batches)]
  BY ShownApplies
<1>2. Len(batches) \in Nat
  OBVIOUS
<1>3. \A n \in 0 .. Len(batches) : f[n] = g[n]
  BY <1>1, <1>2, AppliesUnrolls, RecursionUnique
<1> QED
  BY <1>1, <1>2, <1>3

LEMMA ShownNothing ==
  ASSUME NEW ch \in Shapes
  PROVE  Shown(ch, <<>>) = ch
<1>1. <<>> \in Seq(Patches) /\ Len(<<>>) = 0
  OBVIOUS
<1>2. PICK f : Applies(f, ch, <<>>) /\ Shown(ch, <<>>) = f[Len(<<>>)]
  BY <1>1, ShownApplies
<1> QED
  BY <1>1, <1>2 DEF Applies

LEMMA ShownType ==
  ASSUME NEW ch \in Shapes, NEW batches \in Seq(Patches)
  PROVE  Shown(ch, batches) \in Shapes
<1>1. PICK f : Applies(f, ch, batches) /\ Shown(ch, batches) = f[Len(batches)]
  BY ShownApplies
<1> QED
  BY <1>1 DEF Applies

LEMMA ShownHead ==
  ASSUME NEW ch \in Shapes, NEW batches \in Seq(Patches), batches # <<>>
  PROVE  Shown(Apply(ch, Head(batches)), Tail(batches)) = Shown(ch, batches)
<1> DEFINE N == Len(batches)
           rest == Tail(batches)
           next == Apply(ch, Head(batches))
<1>1. /\ N \in Nat \ {0}
      /\ Len(rest) = N - 1
      /\ rest \in Seq(Patches)
      /\ Head(batches) = batches[1]
      /\ Head(batches) \in Patches
      /\ \A n \in 1 .. N - 1 : rest[n] = batches[n + 1]
  OBVIOUS
<1>2. next \in Shapes
  BY <1>1, ApplyType
<1>3. PICK f : Applies(f, ch, batches) /\ Shown(ch, batches) = f[N]
  BY ShownApplies
<1>4. f \in [0 .. N -> Shapes] /\ f[0] = ch /\ f[1] = next
  BY <1>1, <1>3 DEF Applies
<1> DEFINE g == [n \in 0 .. N - 1 |-> f[n + 1]]
<1> HIDE DEF rest, next
<1>5. g \in [0 .. Len(rest) -> Shapes] /\ g[0] = next
  BY <1>1, <1>4
<1>6. ASSUME NEW n \in 1 .. Len(rest)
      PROVE  g[n] = Apply(g[n - 1], rest[n])
  <2>1. n + 1 \in 1 .. N /\ g[n] = f[n + 1] /\ g[n - 1] = f[n] /\ (n + 1) - 1 = n
    BY <1>1
  <2>2. f[n + 1] = Apply(f[n], batches[n + 1])
    BY <1>3, <2>1 DEF Applies
  <2> QED
    BY <1>1, <2>1, <2>2
<1>7. Applies(g, next, rest)
  BY <1>5, <1>6 DEF Applies
<1>8. Shown(next, rest) = g[N - 1]
  BY <1>1, <1>2, <1>7, ShownIs
<1> QED
  BY <1>1, <1>3, <1>8 DEF next, rest

LEMMA ShownLast ==
  ASSUME NEW ch \in Shapes, NEW batches \in Seq(Patches), NEW p \in Patches
  PROVE  Shown(ch, batches \o <<p>>) = Apply(Shown(ch, batches), p)
<1> DEFINE N == Len(batches)
           more == batches \o <<p>>
<1>1. /\ N \in Nat
      /\ Len(more) = N + 1
      /\ more \in Seq(Patches)
      /\ more[N + 1] = p
      /\ \A n \in 1 .. N : more[n] = batches[n]
  OBVIOUS
<1>2. PICK f : Applies(f, ch, batches) /\ Shown(ch, batches) = f[N]
  BY ShownApplies
<1>3. f \in [0 .. N -> Shapes] /\ f[0] = ch
  BY <1>2 DEF Applies
<1>4. Apply(f[N], p) \in Shapes
  BY <1>1, <1>3, ApplyType
<1> DEFINE g == [n \in 0 .. N + 1 |-> IF n = N + 1 THEN Apply(f[N], p) ELSE f[n]]
<1> HIDE DEF more
<1>5. g \in [0 .. Len(more) -> Shapes] /\ g[0] = ch
  BY <1>1, <1>3, <1>4
<1>6. ASSUME NEW n \in 1 .. Len(more)
      PROVE  g[n] = Apply(g[n - 1], more[n])
  <2>1. CASE n = N + 1
    BY <1>1, <2>1
  <2>2. CASE n # N + 1
    <3>1. n \in 1 .. N /\ g[n] = f[n] /\ g[n - 1] = f[n - 1]
      BY <1>1, <2>2
    <3>2. f[n] = Apply(f[n - 1], batches[n])
      BY <1>2, <3>1 DEF Applies
    <3> QED
      BY <1>1, <3>1, <3>2
  <2> QED
    BY <2>1, <2>2
<1>7. Applies(g, ch, more)
  BY <1>5, <1>6 DEF Applies
<1>8. Shown(ch, more) = g[N + 1]
  BY <1>1, <1>7, ShownIs
<1> QED
  BY <1>1, <1>2, <1>8 DEF more

-----------------------------------------------------------------------------
(* What a handler does to the mapper's state and the wire.  The handlers   *)
(* of FeedMapperProofs keep a pair sound; here the character is the one    *)
(* the wire will have made, and after a lost batch nothing is known of it. *)
Keeps(s, c) == \A ch : Sound(s, ch) => SoundCell(ch, c)

\* w is waiting, believed says whether all of it will arrive.
Tracks(s, believed, ch, w) ==
  /\ s \in AgentFeedState
  /\ EdgesConsistent(s)
  /\ believed => Agrees(s, Shown(ch, w))

\* The edges do not depend on the surface: some character always agrees.
LEMMA SomeCharacterAgrees ==
  ASSUME NEW s \in AgentFeedState, EdgesConsistent(s)
  PROVE  \E ch : Sound(s, ch)
<1> DEFINE d == [name |-> IdName, seat |-> None]
           ch == [decl |-> d, char |-> s.char,
                  caption |-> IF s.captionOpen THEN "task" ELSE None, status |-> s.status]
<1>1. d \in Declarations
  BY DEF Declarations
<1> HIDE DEF d
<1>2. ch \in Characters
  BY <1>1 DEF Characters, AgentFeedState
<1>3. Agrees(s, ch)
  BY <1>2, NoneIsNew, NoneIsNoCharacter DEF Agrees, Captions
<1> QED
  BY <1>2, <1>3 DEF Sound

LEMMA KeptState ==
  ASSUME NEW s \in AgentFeedState, EdgesConsistent(s), NEW c, Keeps(s, c)
  PROVE  c \in Cells /\ c.s \in AgentFeedState /\ c.p \in Patches /\ EdgesConsistent(c.s)
<1>1. PICK ch : Sound(s, ch)
  BY SomeCharacterAgrees
<1>2. SoundCell(ch, c)
  BY <1>1 DEF Keeps
<1> QED
  BY <1>2 DEF SoundCell, Sound, Cells

LEMMA PushTracks ==
  ASSUME NEW s, NEW believed, NEW ch \in Shapes, NEW w \in Seq(Patches),
         Tracks(s, believed, ch, w), NEW c, Keeps(s, c)
  PROVE  /\ w \o Batches(c.p) \in Seq(Patches)
         /\ Len(w \o Batches(c.p)) <= Len(w) + 1
         /\ Tracks(c.s, believed, ch, w \o Batches(c.p))
<1>1. c.s \in AgentFeedState /\ c.p \in Patches /\ EdgesConsistent(c.s)
  BY KeptState DEF Tracks
<1>2. Shown(ch, w) \in Shapes
  BY ShownType
<1>3. CASE c.p = NoOps
  <2>1. Batches(c.p) = <<>> /\ w \o <<>> = w
    BY <1>3 DEF Batches
  <2>2. Apply(Shown(ch, w), c.p) = Shown(ch, w)
    BY <1>1, <1>2, <1>3, ApplyAbsent DEF Shapes
  <2>3. believed => Agrees(c.s, Shown(ch, w))
    BY <1>2, <2>2 DEF Tracks, Keeps, Sound, SoundCell, Shapes
  <2> QED
    BY <1>1, <2>1, <2>3 DEF Tracks
<1>4. CASE c.p # NoOps
  <2>1. Batches(c.p) = <<c.p>>
    BY <1>4 DEF Batches
  <2>2. w \o <<c.p>> \in Seq(Patches) /\ Len(w \o <<c.p>>) = Len(w) + 1
    BY <1>1
  <2>3. Shown(ch, w \o <<c.p>>) = Apply(Shown(ch, w), c.p)
    BY <1>1, ShownLast
  <2>4. believed => Agrees(c.s, Apply(Shown(ch, w), c.p))
    BY <1>2 DEF Tracks, Keeps, Sound, SoundCell, Shapes
  <2> QED
    BY <1>1, <2>1, <2>2, <2>3, <2>4 DEF Tracks
<1> QED
  BY <1>3, <1>4

\* A new mapper believes nothing, so nothing can contradict it.
LEMMA FreshTracks ==
  ASSUME NEW believed, NEW ch, NEW w
  PROVE  Tracks(Fresh, believed, ch, w)
  BY NoneIsNew DEF Tracks, Fresh, AgentFeedState, EdgesConsistent, Agrees, Statuses

LEMMA HandledKeeps ==
  ASSUME NEW kind \in EventKinds, appearance \in Looks \cup {None}
  PROVE  Keeps(mapper, Handled(kind))
<1> SUFFICES ASSUME NEW ch, Sound(mapper, ch) PROVE SoundCell(ch, Handled(kind))
  BY DEF Keeps
<1>1. CASE kind = "created"
  BY <1>1, NameOfLook, FirstSightSound DEF Handled
<1>2. CASE kind = "checkedOut"
  BY <1>2, CheckedOutSound, BelievedSound DEF Handled, Sound
<1>3. CASE kind = "started"
  BY <1>3, RunStartedSound DEF Handled
<1>4. CASE kind = "ended"
  BY <1>4, RunEndedSound DEF Handled
<1>5. CASE kind = "asked"
  BY <1>5, HumanWaitSound DEF Handled
<1>6. CASE kind = "offline"
  BY <1>6, OfflineSound DEF Handled
<1> QED
  BY <1>1, <1>2, <1>3, <1>4, <1>5, <1>6 DEF EventKinds

-----------------------------------------------------------------------------
(* The inductive invariant: the types, with the bound on the events the    *)
(* host's activity and the faults leave room for; the run edges, which     *)
(* make the falling edge safe; and the belief of the mapper.               *)
Underway(k) == events[k] + activity + faults <= MaxActivity + MaxFaults

IInv ==
  /\ host \in [employment : Employments, runs : 0 .. MaxRuns]
  /\ activity \in 0 .. MaxActivity
  /\ faults \in 0 .. MaxFaults
  /\ events \in [EventKinds -> Nat]
  /\ \A k \in EventKinds : Underway(k)
  /\ appearance \in Looks \cup {None}
  /\ assigned \in Looks \cup {None}
  /\ persisted \in Looks \cup {None}
  /\ job \in Jobs
  /\ wire \in Seq(Patches)
  /\ Len(wire) <= MaxWire
  /\ lossless \in BOOLEAN
  /\ office \in Shapes
  /\ Tracks(mapper, lossless, office, wire)

LEMMA IInvImplies == IInv => TypeOK /\ OfficeFollowsMapper
<1> SUFFICES ASSUME IInv PROVE TypeOK /\ OfficeFollowsMapper
  OBVIOUS
<1>1. \A k \in EventKinds : events[k] \in 0 .. MaxActivity + MaxFaults
  BY PipelineBounds DEF IInv, Underway
<1>2. events \in [EventKinds -> 0 .. MaxActivity + MaxFaults]
  BY <1>1 DEF IInv
<1> QED
  BY <1>2 DEF IInv, Tracks, TypeOK, OfficeFollowsMapper, Shapes

LEMMA InitIInv == Init => IInv
<1> SUFFICES ASSUME Init PROVE IInv
  OBVIOUS
<1>1. job \in Jobs
  BY PipelineBounds DEF Init, Jobs, Phases, Steps
<1>2. wire \in Seq(Patches) /\ Len(wire) <= MaxWire
  BY PipelineBounds DEF Init
<1>3. Tracks(mapper, lossless, office, wire)
  BY FreshTracks DEF Init
<1>4. events \in [EventKinds -> Nat] /\ \A k \in EventKinds : Underway(k)
  BY PipelineBounds DEF Init, Underway
<1>5. activity \in 0 .. MaxActivity /\ faults \in 0 .. MaxFaults
  BY PipelineBounds DEF Init
<1>6. host \in [employment : Employments, runs : 0 .. MaxRuns]
  BY PipelineBounds DEF Init, Employments
<1> QED
  BY <1>1, <1>2, <1>3, <1>4, <1>5, <1>6 DEF Init, IInv, Shapes

-----------------------------------------------------------------------------
(* The actions. *)
\* One event more, after the host or the network has used up one of its turns.
LEMMA MoreUnderway ==
  ASSUME IInv,
         \A k \in EventKinds : events'[k] \in {events[k] - 1, events[k], events[k] + 1},
         \/ activity' = activity - 1 /\ faults' = faults
         \/ activity' = activity /\ faults' = faults - 1
  PROVE  \A k \in EventKinds : Underway(k)'
<1> TAKE k \in EventKinds
<1>1. /\ events[k] \in Nat
      /\ activity \in Int /\ faults \in Int
      /\ MaxActivity \in Int /\ MaxFaults \in Int
      /\ events[k] + activity + faults <= MaxActivity + MaxFaults
  BY PipelineBounds DEF IInv, Underway
<1>2. events'[k] \in {events[k] - 1, events[k], events[k] + 1}
  OBVIOUS
<1> QED
  BY <1>1, <1>2 DEF Underway

LEMMA HostKeeps ==
  ASSUME IInv, HostNext
  PROVE  IInv'
<1>1. ASSUME NEW e \in Employments, NEW r \in 0 .. MaxRuns, NEW kinds, HostDoes(e, r, kinds)
      PROVE  IInv'
  <2>1. activity \in 1 .. MaxActivity /\ activity' = activity - 1
    BY <1>1, PipelineBounds DEF HostDoes, IInv
  <2>2. \A k \in EventKinds : events'[k] \in {events[k], events[k] + 1}
    BY <1>1 DEF HostDoes, Announce, IInv
  <2>3. events' \in [EventKinds -> Nat]
    BY <1>1 DEF HostDoes, Announce, IInv
  <2>4. \A k \in EventKinds : Underway(k)'
    BY <1>1, <2>1, <2>2, MoreUnderway DEF HostDoes, IInv
  <2>5. host' \in [employment : Employments, runs : 0 .. MaxRuns]
    BY <1>1 DEF HostDoes
  <2>6. activity' \in 0 .. MaxActivity
    BY <2>1, PipelineBounds
  <2>7. UNCHANGED <<faults, mapper, appearance, assigned, persisted, job, wire, lossless, office>>
    BY <1>1 DEF HostDoes, mapperVars, charVars
  <2> QED
    BY <2>3, <2>4, <2>5, <2>6, <2>7 DEF IInv, Tracks
<1>2. host.runs \in 0 .. MaxRuns /\ host.employment \in Employments /\ MaxRuns \in Nat
  BY PipelineBounds DEF IInv
<1>3. CASE Hire
  BY <1>1, <1>2, <1>3 DEF Hire, Employments
<1>4. CASE StartRun
  BY <1>1, <1>2, <1>4 DEF StartRun, Employments
<1>5. CASE EndRun
  BY <1>1, <1>2, <1>5 DEF EndRun, Employments
<1>6. CASE AskHuman
  BY <1>1, <1>2, <1>6 DEF AskHuman, Employments
<1>7. CASE LetGo
  BY <1>1, <1>2, <1>7 DEF LetGo, Employments
<1> QED
  BY <1>3, <1>4, <1>5, <1>6, <1>7 DEF HostNext

LEMMA HandleEventKeeps ==
  ASSUME IInv, NEW kind \in EventKinds, HandleEvent(kind)
  PROVE  IInv'
<1> DEFINE c == Handled(kind)
<1>1. /\ events[kind] > 0
      /\ Len(wire) < MaxWire
      /\ events' = [events EXCEPT ![kind] = @ - 1]
      /\ mapper' = c.s
      /\ wire' = wire \o Batches(c.p)
      /\ appearance' \in {None, appearance}
      /\ UNCHANGED <<host, activity, faults, assigned, persisted, job, lossless, office>>
  BY DEF HandleEvent, Push, hostVars, charVars
<1>2. Keeps(mapper, c)
  BY HandledKeeps DEF IInv
<1> HIDE DEF c
<1>3. /\ wire' \in Seq(Patches)
      /\ Len(wire') <= Len(wire) + 1
      /\ Tracks(mapper', lossless', office', wire')
  BY <1>1, <1>2, PushTracks DEF IInv
<1>4. Len(wire') <= MaxWire
  BY <1>1, <1>3, PipelineBounds DEF IInv
<1>5. events' \in [EventKinds -> Nat] /\ \A k \in EventKinds : Underway(k)'
  <2>1. /\ events' \in [EventKinds -> Nat]
        /\ \A k \in EventKinds : events'[k] <= events[k]
    BY <1>1 DEF IInv
  <2>2. \A k \in EventKinds : events[k] \in Nat /\ events'[k] \in Nat
    BY <2>1 DEF IInv
  <2>3. ASSUME NEW k \in EventKinds
        PROVE  Underway(k)'
    <3>1. /\ activity \in Int /\ faults \in Int
          /\ events[k] + activity + faults <= MaxActivity + MaxFaults
          /\ MaxActivity \in Int /\ MaxFaults \in Int
      BY PipelineBounds DEF IInv, Underway
    <3>2. activity' = activity /\ faults' = faults /\ events'[k] <= events[k]
      BY <1>1, <2>1
    <3>3. events[k] \in Int /\ events'[k] \in Int
      BY <2>2
    <3>4. events'[k] + activity' + faults' <= MaxActivity + MaxFaults
      BY <3>1, <3>2, <3>3
    <3> QED
      BY <3>4 DEF Underway
  <2> QED
    BY <2>1, <2>3
<1> QED
  BY <1>1, <1>3, <1>4, <1>5 DEF IInv

LEMMA NextJobType ==
  ASSUME job \in Jobs
  PROVE  NextJob \in Jobs
<1>1. 0 \in 0 .. MaxRuns
  BY PipelineBounds
<1>2. /\ "idle" \in Phases \cup {"idle"} /\ "reconcile" \in Phases \cup {"idle"}
      /\ "agents" \in Steps
  BY DEF Phases, Steps
<1>3. CASE job.phase = "resync"
  BY <1>1, <1>2, <1>3 DEF NextJob, Jobs
<1>4. CASE job.phase # "resync"
  BY <1>1, <1>2, <1>4 DEF NextJob, Jobs
<1> QED
  BY <1>3, <1>4

LEMMA JobKeeps ==
  ASSUME IInv, JobNext
  PROVE  IInv'
<1>1. CASE JobTick
  <2>1. NextTick \in 0 .. ResyncEvery - 1
    <3>1. job.tick \in Nat
      BY PipelineBounds DEF IInv, Jobs
    <3> QED
      BY <3>1, PipelineBounds DEF NextTick
  <2>2. job' = [job EXCEPT !.phase = IF NextTick = 0 THEN "resync" ELSE "reconcile",
                           !.step = "agents", !.tick = NextTick,
                           !.look = IF NextTick = 0 THEN assigned ELSE None]
    BY <1>1 DEF JobTick
  <2>3. job' \in Jobs
    BY <2>1, <2>2 DEF IInv, Jobs, Phases, Steps
  <2>4. UNCHANGED <<host, activity, faults, events, appearance, assigned, persisted,
                    wire, lossless, office>>
    BY <1>1 DEF JobTick, hostVars, charVars
  <2>5. Tracks(mapper', lossless, office, wire)
    BY <1>1, FreshTracks DEF JobTick, MapperAtTick, IInv
  <2> QED
    BY <2>3, <2>4, <2>5 DEF IInv, Underway
<1>2. CASE ReadAgents \/ ReadRuns
  <2>1. job' \in Jobs
    <3>1. job \in Jobs /\ host.runs \in 0 .. MaxRuns
      BY DEF IInv
    <3>2. "runs" \in Steps /\ "ingest" \in Steps /\ "characters" \in Steps
      BY DEF Steps
    <3>3. CASE ReadAgents
      <4>1. PICK listed \in BOOLEAN : job' = [job EXCEPT !.step = "runs", !.listed = listed]
        BY <3>3 DEF ReadAgents
      <4> QED
        BY <3>1, <3>2, <4>1 DEF Jobs
    <3>4. CASE ReadRuns
      <4>1. PICK step \in Steps : job' = [job EXCEPT !.runs = host.runs, !.step = step]
        BY <3>2, <3>4 DEF ReadRuns
      <4> QED
        BY <3>1, <4>1 DEF Jobs
    <3> QED
      BY <1>2, <3>3, <3>4
  <2>2. UNCHANGED <<host, activity, faults, events, mapper, appearance, assigned,
                    persisted, wire, lossless, office>>
    BY <1>2 DEF ReadAgents, ReadRuns, hostVars, mapperVars, charVars
  <2> QED
    BY <2>1, <2>2 DEF IInv, Underway
<1>3. ASSUME NEW look \in Looks, AssignCharacters(look)
      PROVE  IInv'
  <2> DEFINE c == MapAppearance(mapper, look)
  <2>1. /\ Len(wire) < MaxWire
        /\ assigned' \in {look, None}
        /\ persisted' \in {look, persisted}
        /\ \/ /\ mapper' = c.s
              /\ wire' = wire \o Batches(c.p)
              /\ appearance' = look
           \/ UNCHANGED <<mapper, appearance, wire>>
        /\ job' = [job EXCEPT !.step = "ingest"]
        /\ UNCHANGED <<host, activity, faults, events, lossless, office>>
    BY <1>3 DEF AssignCharacters, Push, hostVars
  <2>2. Keeps(mapper, c)
    BY AppearanceSound DEF Keeps
  <2> HIDE DEF c
  <2>3. /\ wire' \in Seq(Patches)
        /\ Len(wire') <= MaxWire
        /\ Tracks(mapper', lossless', office', wire')
        /\ appearance' \in Looks \cup {None}
    <3>1. CASE UNCHANGED <<mapper, appearance, wire>>
      BY <2>1, <3>1 DEF IInv
    <3>2. CASE mapper' = c.s /\ wire' = wire \o Batches(c.p) /\ appearance' = look
      <4>1. /\ wire' \in Seq(Patches)
            /\ Len(wire') <= Len(wire) + 1
            /\ Tracks(mapper', lossless', office', wire')
        BY <2>1, <2>2, <3>2, PushTracks DEF IInv
      <4> QED
        BY <2>1, <3>2, <4>1, PipelineBounds DEF IInv
    <3> QED
      BY <2>1, <3>1, <3>2
  <2>4. job' \in Jobs
    BY <2>1 DEF IInv, Jobs, Steps
  <2> QED
    BY <2>1, <2>3, <2>4 DEF IInv, Underway
<1>4. CASE Ingest
  <2> DEFINE seen == IF job.listed THEN MapSnapshotAgent(mapper, appearance, HostName, job.runs)
                     ELSE Cell(mapper)
             seated == MapAppearance(seen.s, SyncedLook)
  <2>1. /\ Len(wire) + 2 <= MaxWire
        /\ \/ /\ mapper' = seen.s
              /\ wire' = wire \o Batches(seen.p)
              /\ appearance' = appearance
           \/ /\ SyncedLook # None
              /\ mapper' = seated.s
              /\ wire' = wire \o (Batches(seen.p) \o Batches(seated.p))
              /\ appearance' = SyncedLook
        /\ job' = NextJob
        /\ UNCHANGED <<host, activity, faults, events, assigned, persisted, lossless, office>>
    BY <1>4 DEF Ingest, Push, hostVars, charVars
  <2>2. Keeps(mapper, seen)
    <3>1. job.runs \in Nat
      BY PipelineBounds DEF IInv, Jobs
    <3>2. CASE job.listed
      BY <3>1, <3>2, PipelineBounds, SnapshotAgentSound DEF Keeps, IInv
    <3>3. CASE ~job.listed
      <4>1. ASSUME NEW ch, Sound(mapper, ch) PROVE SoundCell(ch, Cell(mapper))
        <5>1. ~Addresses(NoOps) /\ NoOps \in Patches
          BY DEF Addresses, NoOps, Patches
        <5> QED
          BY <4>1, <5>1, ApplyAbsent, FreshCell DEF SoundCell, Sound
      <4> QED
        BY <3>3, <4>1 DEF Keeps
    <3> QED
      BY <3>2, <3>3
  <2>3. seen.s \in AgentFeedState /\ EdgesConsistent(seen.s) /\ seen.p \in Patches
    BY <2>2, KeptState DEF IInv, Tracks
  <2> HIDE DEF seen
  <2>4. SyncedLook \in Looks \cup {None}
    BY <1>4 DEF SyncedLook, Ingest, IInv, Jobs, Phases
  <2>5. SyncedLook # None => Keeps(seen.s, seated)
    BY <2>4, AppearanceSound DEF Keeps
  <2> DEFINE w == wire \o Batches(seen.p)
  <2>6. w \in Seq(Patches) /\ Len(w) <= Len(wire) + 1 /\ Tracks(seen.s, lossless, office, w)
    BY <2>2, PushTracks DEF IInv
  <2> HIDE DEF seated
  <2>7. /\ wire' \in Seq(Patches)
        /\ Len(wire') <= Len(wire) + 2
        /\ Tracks(mapper', lossless, office, wire')
        /\ appearance' \in Looks \cup {None}
    <3>1. CASE mapper' = seen.s /\ wire' = w /\ appearance' = appearance
      BY <2>6, <3>1 DEF IInv
    <3>2. CASE /\ SyncedLook # None
               /\ mapper' = seated.s
               /\ wire' = wire \o (Batches(seen.p) \o Batches(seated.p))
               /\ appearance' = SyncedLook
      <4> HIDE DEF w
      <4>1. /\ w \o Batches(seated.p) \in Seq(Patches)
            /\ Len(w \o Batches(seated.p)) <= Len(w) + 1
            /\ Tracks(seated.s, lossless, office, w \o Batches(seated.p))
        BY <2>5, <2>6, <3>2, PushTracks DEF IInv
      <4>2. seated.p \in Patches
        BY <2>3, <2>5, <3>2, KeptState
      <4>3. wire' = w \o Batches(seated.p)
        <5>1. /\ wire \in Seq(Patches)
              /\ Batches(seen.p) \in Seq(Patches)
              /\ Batches(seated.p) \in Seq(Patches)
          BY <2>3, <4>2 DEF Batches, IInv
        <5>2. (wire \o Batches(seen.p)) \o Batches(seated.p)
                = wire \o (Batches(seen.p) \o Batches(seated.p))
          BY <5>1, ConcatAssociative
        <5> QED
          BY <3>2, <5>2, Zenon DEF w
      <4>4. Len(w) \in Nat /\ Len(wire) \in Nat /\ Len(wire') \in Nat
        BY <2>6, <4>1, <4>3 DEF IInv
      <4> QED
        BY <2>4, <2>6, <3>2, <4>1, <4>3, <4>4
    <3> QED
      BY <2>1, <3>1, <3>2
  <2>8. Len(wire') <= MaxWire
    BY <2>1, <2>7, PipelineBounds DEF IInv
  <2> QED
    BY <2>1, <2>7, <2>8, NextJobType DEF IInv, Underway
<1> QED
  BY <1>1, <1>2, <1>3, <1>4 DEF JobNext

LEMMA SinkKeeps ==
  ASSUME IInv, SinkSend
  PROVE  IInv'
<1>1. /\ wire # <<>>
      /\ office' = Apply(office, Head(wire))
      /\ wire' = Tail(wire)
      /\ UNCHANGED <<host, activity, faults, events, mapper, appearance, assigned,
                     persisted, job, lossless>>
  BY DEF SinkSend, hostVars, mapperVars, charVars
<1>2. /\ Head(wire) \in Patches
      /\ wire' \in Seq(Patches)
      /\ Len(wire') <= MaxWire
  BY <1>1, PipelineBounds DEF IInv
<1>3. office' \in Shapes
  BY <1>1, <1>2, ApplyType DEF IInv
<1>4. Shown(office', wire') = Shown(office, wire)
  BY <1>1, ShownHead DEF IInv
<1> QED
  BY <1>1, <1>2, <1>3, <1>4 DEF IInv, Tracks, Underway

LEMMA FaultKeeps ==
  ASSUME IInv, FaultNext
  PROVE  IInv'
<1>1. faults' \in 0 .. MaxFaults /\ faults' = faults - 1
  BY PipelineBounds
  DEF FaultNext, LoseEvent, DuplicateEvent, ReadFails, SinkFails, Restart, Fault, IInv
<1>2. ASSUME NEW kind \in EventKinds, LoseEvent(kind) \/ DuplicateEvent(kind)
      PROVE  IInv'
  <2>1. events[kind] > 0 /\ events' \in {[events EXCEPT ![kind] = @ - 1],
                                         [events EXCEPT ![kind] = @ + 1]}
    BY <1>2 DEF LoseEvent, DuplicateEvent
  <2>2. UNCHANGED <<host, activity, mapper, appearance, assigned, persisted, job, wire,
                    lossless, office>>
    BY <1>2 DEF LoseEvent, DuplicateEvent, hostVars, mapperVars, charVars
  <2>3. events' \in [EventKinds -> Nat]
    BY <2>1 DEF IInv
  <2>4. \A k \in EventKinds : events'[k] \in {events[k] - 1, events[k], events[k] + 1}
    BY <2>1 DEF IInv
  <2>5. \A k \in EventKinds : Underway(k)'
    BY <1>1, <2>2, <2>4, MoreUnderway DEF IInv
  <2> QED
    BY <1>1, <2>2, <2>3, <2>5 DEF IInv
<1>3. ASSUME events' = events, activity' = activity
      PROVE  events' \in [EventKinds -> Nat] /\ \A k \in EventKinds : Underway(k)'
  <2>1. events' \in [EventKinds -> Nat]
    BY <1>3 DEF IInv
  <2>2. /\ faults' \in Int /\ faults \in Int /\ activity \in Int
        /\ MaxActivity \in Int /\ MaxFaults \in Int
    BY <1>1, PipelineBounds DEF IInv
  <2>3. ASSUME NEW k \in EventKinds
        PROVE  Underway(k)'
    <3>1. events[k] \in Int /\ Underway(k)
      BY DEF IInv
    <3> QED
      BY <1>1, <1>3, <2>2, <3>1 DEF Underway
  <2> QED
    BY <2>1, <2>3
<1>4. CASE ReadFails
  <2>1. UNCHANGED <<host, activity, events, mapper, appearance, assigned, persisted,
                    wire, lossless, office>>
    BY <1>4 DEF ReadFails, hostVars, mapperVars, charVars
  <2>2. job' \in Jobs
    BY <1>4, NextJobType DEF ReadFails, IInv
  <2> QED
    BY <1>1, <1>3, <2>1, <2>2 DEF IInv
<1>5. CASE SinkFails
  <2>1. UNCHANGED <<host, activity, events, mapper, appearance, assigned, persisted,
                    job, office>>
    BY <1>5 DEF SinkFails, hostVars, mapperVars, charVars
  <2>2. wire' \in Seq(Patches) /\ Len(wire') <= MaxWire /\ lossless' = FALSE
    BY <1>5, PipelineBounds DEF SinkFails, IInv
  <2>3. Tracks(mapper', lossless', office', wire')
    BY <2>1, <2>2 DEF Tracks, IInv
  <2> QED
    BY <1>1, <1>3, <2>1, <2>2, <2>3 DEF IInv
<1>6. CASE Restart
  <2>1. /\ UNCHANGED <<host, activity, events, persisted, office>>
        /\ mapper' = Fresh
        /\ appearance' = None
        /\ assigned' = None
        /\ wire' = <<>>
        /\ lossless' = TRUE
    BY <1>6 DEF Restart, hostVars
  <2>2. job' \in Jobs
    BY <1>6, PipelineBounds DEF Restart, Jobs, Phases, Steps
  <2>3. wire' \in Seq(Patches) /\ Len(wire') <= MaxWire
    BY <2>1, PipelineBounds
  <2>4. Tracks(mapper', lossless', office', wire')
    BY <2>1, FreshTracks
  <2> QED
    BY <1>1, <1>3, <2>1, <2>2, <2>3, <2>4 DEF IInv
<1> QED
  BY <1>2, <1>4, <1>5, <1>6 DEF FaultNext

LEMMA NextIInv == IInv /\ [Next]_vars => IInv'
<1> SUFFICES ASSUME IInv, [Next]_vars PROVE IInv'
  OBVIOUS
<1>1. CASE UNCHANGED vars
  BY <1>1 DEF vars, IInv, Underway, Tracks
<1> QED
  BY <1>1, HostKeeps, HandleEventKeeps, JobKeeps, SinkKeeps, FaultKeeps DEF Next

LEMMA SpecIInv == Spec => []IInv
  BY InitIInv, NextIInv, PTL DEF Spec

(* The worker, the sink, the host and the surface never leave their types; *)
(* the events under way never outnumber what the host did and the network  *)
(* duplicated, and the sink never holds more than the model's bound.       *)
THEOREM TypeCorrect == Spec => []TypeOK
  BY SpecIInv, IInvImplies, PTL

(* As long as no post has failed since the mapper was created, the batches *)
(* in the sink lead the surface exactly where the mapper believes it to    *)
(* be: the diffing of feed-mapper.ts is right although feed-sink.ts        *)
(* delivers late, whatever events, snapshots and restarts interleave.      *)
THEOREM OfficeAlwaysFollowsMapper == Spec => []OfficeFollowsMapper
  BY SpecIInv, IInvImplies, PTL
=============================================================================
