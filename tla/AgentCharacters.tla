-------------------------- MODULE AgentCharacters --------------------------
(***************************************************************************)
(* The characters of a company's agents: the assignments kept in plugin    *)
(* state, the worker's copy of them, the defaults that a reconcile gives   *)
(* to agents that have none, the saves of the character picker, and the    *)
(* maps of appearances that are passed on to the feed                      *)
(* (core/domain/characters.ts, persistence.ts, worker.ts, actions.ts,      *)
(* character-picker.tsx).                                                  *)
(*                                                                         *)
(* A reconcile reads the records one after another and awaits every read   *)
(* and every write; ticks of the job may overlap, and saves come in        *)
(* between.                                                                *)
(***************************************************************************)
EXTENDS Integers, FiniteSets, Functions, Selection

CONSTANTS
  Staff,       \* the agents, in the order the host lists them
  Hired,       \* how many of them are there from the start
  Draws,       \* the draws of the generators that are considered
  CatalogSize, \* how many characters the catalog has
  MinShift,    \* HUE_SHIFT_MIN_DEG
  Stride,      \* HUE_SHIFT_STRIDE_DEG
  MaxShift,    \* HUE_SHIFT_MAX_DEG
  ResyncEvery, \* RESYNC_EVERY_N_RECONCILES
  MaxOverlaps, \* reconciles that start while another is under way
  MaxSaves,    \* saves by the user
  MaxBreaks    \* reconciles and saves that fail

ASSUME CharacterBounds ==
  /\ {Hired, CatalogSize, ResyncEvery} \subseteq Nat \ {0}
  /\ Draws \subseteq [Range(Staff) -> 0 .. 1]
  /\ {MaxOverlaps, MaxSaves, MaxBreaks} \subseteq Nat
  /\ Staff \in Seq(Range(Staff)) /\ Hired <= Len(Staff)
  /\ {MinShift, Stride, MaxShift} \subseteq Nat /\ MinShift < MaxShift

VARIABLES
  hired,     \* agents that are there
  draw,      \* what the generator seeded by the agent's id draws: the low or the high half
  stored,    \* AgentCharacterAssignment by agent in plugin state
  held,      \* rt.characterAssignments
  worn,      \* the appearances last passed on to the feed
  tickCount, \* reconciliationTickCount
  jobs,      \* the reconciles under way
  saving,    \* the save whose write is awaited
  saves, breaks,  \* what is left of MaxSaves and MaxBreaks
  overlaps   \* what is left of MaxOverlaps

characterVars == <<hired, draw, stored, held, worn, tickCount, jobs, saving,
                   saves, breaks, overlaps>>

Everyone == Range(Staff)
Unassigned == [sheet |-> 0]
Assignments == [sheet : 1 .. CatalogSize, hue : 0 .. MaxShift]
NoSave == [agent |-> "none"]
Roster(n) == SubSeq(Staff, 1, n)

-----------------------------------------------------------------------------
\* countCharacterUsage over a map of assignments.
Usage(map, sheet) == Cardinality({a \in DOMAIN map : map[a].sheet = sheet})

\* BUG: a character that is used again is worn as it is.
ReuseShiftNone(round) == 0

\* The hue shift of the round in which a character is used again.
ReuseShift(round) ==
  IF round = 0 THEN 0 ELSE MinShift + (((round - 1) * Stride) % (MaxShift - MinShift))

\* The characters that are used least, in the order of the catalog.
Candidates(map) ==
  Selected([s \in 1 .. CatalogSize |-> s],
           {s \in 1 .. CatalogSize : \A t \in 1 .. CatalogSize : Usage(map, s) <= Usage(map, t)})

\* selectDefaultAssignment: one of them by the agent's draw.
DefaultFor(map, a) ==
  LET candidates == Candidates(map)
      sheet      == candidates[((draw[a] * Len(candidates)) \div 2) + 1]
  IN [sheet |-> sheet, hue |-> ReuseShift(Usage(map, sheet))]

\* (The bound m has TLC evaluate the map once.)
WithDefault(map, a) ==
  IF map[a] # Unassigned THEN map
  ELSE CHOOSE next \in {[m EXCEPT ![a] = DefaultFor(m, a)] : m \in {map}} : TRUE

\* ensureAgentAssignments: the map that was read, with a default for everyone it lacks.
Completed(map, roster) ==
  LET after[n \in 0 .. Len(roster)] ==
        IF n = 0 THEN map ELSE WithDefault(after[n - 1], roster[n])
  IN  after[Len(roster)]

NobodyRead == [a \in Everyone |-> Unassigned]

-----------------------------------------------------------------------------
CharactersInit ==
  /\ hired = Hired
  /\ draw \in Draws
  /\ stored = NobodyRead
  /\ held = NobodyRead
  /\ worn = NobodyRead
  /\ tickCount = 0
  /\ jobs = {} /\ saving = NoSave
  /\ saves = MaxSaves /\ breaks = MaxBreaks
  /\ overlaps = MaxOverlaps

\* The host gains an agent.
Hires ==
  /\ hired < Len(Staff) /\ hired' = hired + 1
  /\ UNCHANGED <<draw, stored, held, worn, tickCount, jobs, saving, saves,
                 breaks, overlaps>>

\* A full resync passes on the map as it is held.
WornAtTick(tick) == IF tick = 0 THEN held ELSE worn

\* A tick of the job: its snapshot fixes the roster, and the records are read from the first on.
TickJob ==
  /\ jobs # {} => overlaps > 0
  /\ overlaps' = IF jobs = {} THEN overlaps ELSE overlaps - 1
  /\ \E id \in 1 .. MaxOverlaps + 1 :
       /\ \A j \in jobs : j.id # id
       /\ \A less \in 1 .. id - 1 : \E j \in jobs : j.id = less
       /\ jobs' = jobs \cup {[id |-> id, at |-> "read", roster |-> Roster(hired),
                              left |-> Roster(hired), found |-> NobodyRead, shares |-> FALSE,
                              created |-> FALSE]}
  /\ tickCount' = (tickCount + 1) % ResyncEvery
  /\ worn' = WornAtTick(tickCount')
  /\ UNCHANGED <<hired, draw, stored, held, saving, saves, breaks>>

Goes(job, next) == jobs' = (jobs \ {job}) \cup {next}

ReadRecord(job) ==
  /\ job.at = "read" /\ job.left # <<>>
  /\ Goes(job, [job EXCEPT !.found[Head(job.left)] = stored[Head(job.left)], !.left = Tail(@)])
  /\ UNCHANGED <<hired, draw, stored, held, worn, tickCount, saving, saves,
                 breaks, overlaps>>

\* BUG: every agent of the map is persisted.
CreatedAll(job) == job.roster

\* The agents of the roster that get a default.
Created(job) == Selected(job.roster, {a \in Everyone : job.found[a] = Unassigned})

\* The map that was read, completed, becomes the worker's map, whatever that has become by now.
\* It is one map from here on: a save that changes it changes what the job goes on to persist.
Materialize(job) ==
  /\ job.at = "read" /\ job.left = <<>>
  /\ held' = Completed(job.found, job.roster)
  /\ jobs' = {[j EXCEPT !.shares = FALSE] : j \in jobs \ {job}}
               \cup {[job EXCEPT !.at = "persist", !.found = held', !.left = Created(job),
                                 !.shares = TRUE, !.created = Created(job) # <<>>]}
  /\ UNCHANGED <<hired, draw, stored, worn, tickCount, saving, saves, breaks,
                 overlaps>>

PersistDefault(job) ==
  /\ job.at = "persist" /\ job.left # <<>>
  /\ stored' = [stored EXCEPT ![Head(job.left)] = job.found[Head(job.left)]]
  /\ Goes(job, [job EXCEPT !.left = Tail(@)])
  /\ UNCHANGED <<hired, draw, held, worn, tickCount, saving, saves, breaks,
                 overlaps>>

\* The map is passed on if there were defaults.
Reconciled(job) ==
  /\ job.at = "persist" /\ job.left = <<>>
  /\ worn' = IF job.created THEN held ELSE worn
  /\ jobs' = jobs \ {job}
  /\ UNCHANGED <<hired, draw, stored, held, tickCount, saving, saves, breaks,
                 overlaps>>

\* A read or a write of plugin state fails: the reconcile ends there.
JobFails(job) ==
  /\ breaks > 0 /\ breaks' = breaks - 1
  /\ jobs' = jobs \ {job}
  /\ UNCHANGED <<hired, draw, stored, held, worn, tickCount, saving, saves,
                 overlaps>>

-----------------------------------------------------------------------------
\* The picker saves a choice that validateAssignmentInput lets pass: its hue shift is in range
\* and its palette is that of its character. One save at a time.
Save(a, choice) ==
  /\ saves > 0 /\ saves' = saves - 1
  /\ saving = NoSave
  /\ a \in Range(Roster(hired))
  /\ saving' = [agent |-> a, choice |-> choice, written |-> FALSE]
  /\ UNCHANGED <<hired, draw, stored, held, worn, tickCount, jobs, breaks,
                 overlaps>>

\* A reconcile under way has found the agent without a record.
FoundWithout(a) ==
  \E j \in jobs : IF j.at = "read"
                  THEN a \in Range(j.roster) \ Range(j.left) /\ j.found[a] = Unassigned
                  ELSE a \in Range(j.left)

SaveWritten ==
  /\ saving # NoSave /\ ~ saving.written
  /\ saving' = [saving EXCEPT !.written = TRUE]
  /\ stored' = [stored EXCEPT ![saving.agent] = saving.choice]
  /\ UNCHANGED <<hired, draw, held, worn, tickCount, jobs, saves, breaks, overlaps>>

\* Plugin state refuses the write: the save is answered with an error.
SaveFails ==
  /\ saving # NoSave /\ ~ saving.written
  /\ breaks > 0 /\ breaks' = breaks - 1
  /\ saving' = NoSave
  /\ UNCHANGED <<hired, draw, stored, held, worn, tickCount, jobs, saves, overlaps>>

\* The write is confirmed: the worker's map follows and is passed on.
SaveConfirmed ==
  /\ saving # NoSave /\ saving.written
  /\ held' = [held EXCEPT ![saving.agent] = saving.choice]
  /\ jobs' = {[j EXCEPT !.found = IF j.shares THEN held' ELSE @] : j \in jobs}
  /\ worn' = held'
  /\ saving' = NoSave
  /\ UNCHANGED <<hired, draw, stored, tickCount, saves, breaks, overlaps>>

JobStep == \E job \in jobs : \/ ReadRecord(job) \/ Materialize(job)
                             \/ PersistDefault(job) \/ Reconciled(job)

SheetChoices == {[sheet |-> s, hue |-> 0] : s \in 1 .. CatalogSize}

CharactersNext ==
  \/ Hires
  \/ TickJob \/ JobStep
  \/ \E job \in jobs : JobFails(job)
  \/ \E a \in Everyone, choice \in SheetChoices : Save(a, choice)
  \/ SaveWritten \/ SaveFails \/ SaveConfirmed

(* The job keeps ticking, and what is awaited comes back.                   *)
CharactersStep == TickJob \/ JobStep \/ SaveWritten \/ SaveConfirmed

CharactersSpec ==
  CharactersInit /\ [][CharactersNext]_characterVars /\ WF_characterVars(CharactersStep)

-----------------------------------------------------------------------------
CharactersTypeOK ==
  /\ hired \in Hired .. Len(Staff)
  /\ \A map \in {stored, held, worn} :
       \A a \in Everyone : map[a] \in Assignments \cup {Unassigned}
  /\ tickCount \in 0 .. ResyncEvery - 1
  /\ \A j \in jobs : /\ j.id \in 1 .. MaxOverlaps + 1 /\ j.at \in {"read", "persist"}
                      /\ \A k \in jobs : k.id = j.id => k = j
  /\ saves \in 0 .. MaxSaves /\ breaks \in 0 .. MaxBreaks
  /\ overlaps \in 0 .. MaxOverlaps

\* The record of an agent is what its picker or a reconcile left in plugin state, and no
\* reconcile under way has read it too early to know of it.
Safe(a) == stored[a] # Unassigned /\ ~ FoundWithout(a)

\* A choice is written to plugin state for an agent by the save that is under way.
Chosen(a) == saving # NoSave /\ saving.agent = a /\ stored'[a] = saving.choice

\* Only a reconcile that had read an agent's record before there was one can put its default in
\* the place of a choice: once no such reconcile is under way, nothing but the next save of the
\* user replaces the record, and it stays so, whatever reconciles start, overlap and fail
\* half-way from then on (worker.ts:334-341).
ChoiceKept ==
  [][\A a \in Everyone :
       Safe(a) => Safe(a)' /\ (stored'[a] # stored[a] => Chosen(a))]_characterVars

\* As long as nobody is assigned anything but defaults, and no two reconciles overlap, no two
\* agents look the same, though reconciles fail half-way (characters.ts:209-223).
DefaultsDiffer ==
  saves = MaxSaves /\ overlaps = MaxOverlaps =>
    \A a, b \in Everyone : a # b /\ stored[a] # Unassigned => stored[a] # stored[b]

\* Whatever overlaps and fails, in the end the worker holds, and the feed was given, what
\* plugin state says (worker.ts:328-333, "the next reconcile/write re-applies it").
CharactersAgree == \A a \in Range(Roster(hired)) : held[a] = stored[a] /\ worn[a] = stored[a]

CharactersSettle == <>[]CharactersAgree

\* Violated by the code: the same of every record (worker.ts:720-722, "the single source of
\* truth"). A reconcile that had found the agent without a record persists its default over it.
ChoiceAlwaysKept ==
  [][\A a \in Everyone :
       stored[a] # Unassigned /\ stored'[a] # stored[a] => Chosen(a)]_characterVars
=============================================================================
