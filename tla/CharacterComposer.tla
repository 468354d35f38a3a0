------------------------- MODULE CharacterComposer -------------------------
(***************************************************************************)
(* The character composer: the drafts that the page keeps per agent, their *)
(* conversion from a whole sheet, the save and its validation against the  *)
(* catalog of parts, and the worker's second record per agent, which a     *)
(* reconcile fills with the whole sheet (character-composer.tsx,           *)
(* composition.ts, actions.ts, worker.ts, persistence.ts).                 *)
(***************************************************************************)
EXTENDS Integers, FiniteSets, Functions, Selection

CONSTANTS
  Wearers,     \* agents
  PartCatalog, \* the parts, in the order of the catalog: [id, kind, layer]
  SingleKinds, \* SINGLE_KINDS, kinds of which a composition takes one part
  MaxPalette,  \* palettes typed and assigned
  MaxHue,      \* 360
  HueInputs,   \* hue shifts typed
  MaxEdits, MaxComposed, MaxConverted \* edits, saves, saves of the other picker and restarts

PartIds == {PartCatalog[i].id : i \in DOMAIN PartCatalog}

\* validateCompositionCatalog: identifiers and layers differ.
PartsWellFormed ==
  /\ PartCatalog # <<>> /\ PartCatalog \in Seq(Range(PartCatalog))
  /\ \A i, j \in DOMAIN PartCatalog :
       i # j => /\ PartCatalog[i].id # PartCatalog[j].id
                /\ PartCatalog[i].layer # PartCatalog[j].layer

ASSUME ComposerBounds ==
  /\ PartsWellFormed /\ Wearers # {}
  /\ {MaxPalette, MaxHue, MaxEdits, MaxComposed, MaxConverted} \subseteq Nat
  /\ HueInputs \subseteq Int

VARIABLES
  catalogLoads, \* loadCompositionPartCatalog succeeds
  sheetOf,      \* the palette of the agent's whole sheet, in plugin state and in the worker
  kept,         \* the second record per agent in plugin state
  composed,     \* rt.compositions
  filling,      \* the reconcile that fills the second records
  shown,        \* the visual settings that the page got last
  working,      \* workingAgentId
  drafts,       \* drafts
  submitted,    \* the save that is awaited
  edits, left   \* what is left of MaxEdits, and of MaxComposed and MaxConverted

composerVars == <<catalogLoads, sheetOf, kept, composed, filling, shown, working, drafts,
                  submitted, edits, left>>

Empty == [parts |-> <<>>, palette |-> 0, hueShift |-> 0]
NoDraft == [parts |-> <<>>, palette |-> -1, hueShift |-> 0]
NoRecord == [mode |-> "none"]
WholeSheet(palette) == [mode |-> "wholeSheet", palette |-> palette]
Composition(c) == [mode |-> "composition", composition |-> c]
NotFilling == [agents |-> {}, found |-> <<>>]
NotSubmitted == [agent |-> "none", at |-> "idle", composition |-> Empty]

-----------------------------------------------------------------------------
(* Drafts.                                                                  *)

OfKind(kind) == Selected(PartCatalog, {p \in Range(PartCatalog) : p.kind = kind})
IsOfKind(kind, id) == \E i \in DOMAIN OfKind(kind) : OfKind(kind)[i].id = id
SpecOf(id) == CHOOSE p \in Range(PartCatalog) : p.id = id

\* clampHue.
ClampHue(raw) == IF raw < 0 THEN 0 ELSE IF raw > MaxHue THEN MaxHue ELSE raw

\* BUG: the part that was selected before stays.
SelectPartAdding(c, kind, id) == [c EXCEPT !.parts = Append(@, [partId |-> id, hueShift |-> 0])]

\* selectPart: the part takes the place of the others of its kind, at the end.
SelectPart(c, kind, id) ==
  LET retained == Selected(c.parts, {sel \in Range(c.parts) : ~ IsOfKind(kind, sel.partId)})
  IN [c EXCEPT !.parts = Append(retained, [partId |-> id, hueShift |-> 0])]

\* compositionFromWholeSheet: the first part of each kind, clothing by the palette. (The hue of
\* a sheet, which the composition takes over, is zero here.)
FromWholeSheet(palette) ==
  LET First(kind) == IF OfKind(kind) = <<>> THEN <<>> ELSE <<OfKind(kind)[1]>>
      options     == OfKind("clothing")
      Cyclic      == IF options = <<>> THEN <<>>
                     ELSE <<options[(palette % Len(options)) + 1]>>
      specs       == First("skin") \o Cyclic \o First("hair") \o First("face") \o First("accessory")
  IN [parts    |-> [i \in DOMAIN specs |-> [partId |-> specs[i].id, hueShift |-> 0]],
      palette  |-> palette, hueShift |-> 0]

\* What the page edits when the agent has no draft.
Base(a) ==
  IF shown.records[a].mode = "composition" THEN shown.records[a].composition ELSE Empty

Current(a) == IF drafts[a] = NoDraft THEN Base(a) ELSE drafts[a]

\* isDirty.
Dirty(a) ==
  /\ drafts[a] # NoDraft
  /\ CASE shown.records[a] = NoRecord -> drafts[a].parts # <<>>
       [] shown.records[a].mode = "wholeSheet" -> TRUE
       [] OTHER -> drafts[a] # shown.records[a].composition

-----------------------------------------------------------------------------
(* Validation.                                                              *)

\* validateCompositionState finds nothing: the parts are known and differ, at most one of each
\* single kind, and the hues and the palette are in range.
ValidComposition(c) ==
  /\ \A i \in DOMAIN c.parts :
       c.parts[i].partId \in PartIds /\ c.parts[i].hueShift \in 0 .. MaxHue
  /\ \A i, j \in DOMAIN c.parts :
       i # j => /\ c.parts[i].partId # c.parts[j].partId
                /\ SpecOf(c.parts[i].partId).kind \in SingleKinds =>
                     SpecOf(c.parts[j].partId).kind # SpecOf(c.parts[i].partId).kind
  /\ c.palette \in Nat
  /\ c.hueShift \in 0 .. MaxHue

\* validateAppearanceAssignmentV2 finds nothing: the value carries an appearance, and that is
\* a whole sheet or a valid composition.
ValidAssignment(value) ==
  /\ "appearance" \in DOMAIN value
  /\ CASE value.appearance.mode = "composition" -> ValidComposition(value.appearance.composition)
       [] value.appearance.mode = "wholeSheet" -> TRUE
       [] OTHER -> FALSE

-----------------------------------------------------------------------------
ComposerInit ==
  /\ catalogLoads = TRUE
  /\ sheetOf \in [Wearers -> 0 .. MaxPalette]
  /\ kept = [a \in Wearers |-> NoRecord] /\ composed = kept
  /\ filling = NotFilling
  /\ shown = [parts |-> {}, records |-> kept, sheets |-> [a \in Wearers |-> -1]]
  /\ working = CHOOSE a \in Wearers : TRUE
  /\ drafts = [a \in Wearers |-> NoDraft]
  /\ submitted = NotSubmitted
  /\ edits = MaxEdits /\ left = [composed |-> MaxComposed, converted |-> MaxConverted]

\* The visual settings arrive: nothing but empty maps when the catalog does not load.
PageLoads ==
  /\ shown' = IF catalogLoads
              THEN [parts |-> PartIds, records |-> composed, sheets |-> sheetOf]
              ELSE [parts |-> {}, records |-> [a \in Wearers |-> NoRecord],
                    sheets |-> [a \in Wearers |-> -1]]
  /\ UNCHANGED <<catalogLoads, sheetOf, kept, composed, filling, working, drafts, submitted,
                 edits, left>>

\* The fields are shown with a catalog and enabled while no save is awaited.
Editable == shown.parts # {} /\ submitted = NotSubmitted

PicksAgent ==
  /\ Editable
  /\ working' \in Wearers \ {working}
  /\ UNCHANGED <<catalogLoads, sheetOf, kept, composed, filling, shown, drafts, submitted,
                 edits, left>>

SetDraft(c) ==
  /\ Editable
  /\ edits > 0 /\ edits' = edits - 1
  /\ drafts' = [drafts EXCEPT ![working] = c]
  /\ UNCHANGED <<catalogLoads, sheetOf, kept, composed, filling, shown, working, submitted, left>>

\* selectPart, applyHue and applyPalette. (applyPartHue is never called: its field is there only
\* while the hue of the layer is above zero, and selecting and converting set it to zero.)
EditsDraft ==
  \/ \E i \in DOMAIN PartCatalog :
       SetDraft(SelectPart(Current(working), PartCatalog[i].kind, PartCatalog[i].id))
  \/ \E raw \in HueInputs : SetDraft([Current(working) EXCEPT !.hueShift = ClampHue(raw)])
  \/ \E p \in 0 .. MaxPalette : SetDraft([Current(working) EXCEPT !.palette = p])

\* migrateFromWholeSheet, offered while the record shown is a whole sheet.
Converts ==
  /\ shown.records[working].mode = "wholeSheet"
  /\ SetDraft(IF shown.sheets[working] = -1 THEN Empty ELSE FromWholeSheet(shown.sheets[working]))

\* handleSave.
SavesComposition ==
  /\ Editable
  /\ Dirty(working) /\ Current(working).parts # <<>>
  /\ left.composed > 0 /\ left' = [left EXCEPT !.composed = @ - 1]
  /\ submitted' = [agent |-> working, at |-> "asked", composition |-> Current(working)]
  /\ UNCHANGED <<catalogLoads, sheetOf, kept, composed, filling, shown, working, drafts, edits>>

\* handleSetAgentComposition: the validator is given the appearance itself, and nothing is
\* validated when the catalog does not load.
Accepted(appearance) == catalogLoads => ValidAssignment(appearance)

\* BUG: the draft is discarded, whatever the answer.
RefusedDraft(a) == NoDraft

DraftAfterRefusal(a) == drafts[a]

\* The worker refuses the save, or the host no longer knows the agent, or the write fails.
SaveRefused ==
  /\ submitted.at = "asked"
  /\ drafts' = [drafts EXCEPT ![submitted.agent] = DraftAfterRefusal(submitted.agent)]
  /\ submitted' = NotSubmitted
  /\ UNCHANGED <<catalogLoads, sheetOf, kept, composed, filling, shown, working, edits, left>>

SaveAccepted ==
  /\ submitted.at = "asked" /\ Accepted(Composition(submitted.composition))
  /\ kept' = [kept EXCEPT ![submitted.agent] = Composition(submitted.composition)]
  /\ submitted' = [submitted EXCEPT !.at = "written"]
  /\ UNCHANGED <<catalogLoads, sheetOf, composed, filling, shown, working, drafts, edits, left>>

SaveAnswered ==
  /\ submitted.at = "written"
  /\ composed' = [composed EXCEPT ![submitted.agent] = Composition(submitted.composition)]
  /\ drafts' = [drafts EXCEPT ![submitted.agent] = NoDraft]
  /\ submitted' = NotSubmitted
  /\ UNCHANGED <<catalogLoads, sheetOf, kept, filling, shown, working, edits, left>>

-----------------------------------------------------------------------------
\* The other picker assigns a sheet: the second record is left as it is.
SheetAssigned ==
  /\ left.converted > 0 /\ left' = [left EXCEPT !.converted = @ - 1]
  /\ \E a \in Wearers, p \in 0 .. MaxPalette : sheetOf' = [sheetOf EXCEPT ![a] = p]
  /\ UNCHANGED <<catalogLoads, kept, composed, filling, shown, working, drafts, submitted, edits>>

\* A reconcile reads the second records.
FillStarts ==
  /\ filling = NotFilling
  /\ filling' = [agents |-> {a \in Wearers : kept[a] = NoRecord}, found |-> kept]
  /\ UNCHANGED <<catalogLoads, sheetOf, kept, composed, shown, working, drafts, submitted,
                 edits, left>>

\* It gives those that have none the whole sheet, one after another.
FillWrites(a) ==
  /\ a \in filling.agents
  /\ kept' = [kept EXCEPT ![a] = WholeSheet(sheetOf[a])]
  /\ filling' = [agents |-> filling.agents \ {a}, found |-> [filling.found EXCEPT ![a] = kept'[a]]]
  /\ UNCHANGED <<catalogLoads, sheetOf, composed, shown, working, drafts, submitted, edits, left>>

\* The map it read and filled becomes the worker's.
FillEnds ==
  /\ filling # NotFilling /\ filling.agents = {}
  /\ composed' = filling.found
  /\ filling' = NotFilling
  /\ UNCHANGED <<catalogLoads, sheetOf, kept, shown, working, drafts, submitted, edits, left>>

\* The worker starts anew: nothing is cached, and the catalog may not load any more. A save that
\* was awaited comes back as an error.
WorkerStartsAnew ==
  /\ left.converted > 0 /\ left' = [left EXCEPT !.converted = @ - 1]
  /\ catalogLoads' \in BOOLEAN
  /\ composed' = [a \in Wearers |-> NoRecord]
  /\ filling' = NotFilling
  /\ submitted' = NotSubmitted
  /\ UNCHANGED <<sheetOf, kept, shown, working, drafts, edits>>

ComposerNext ==
  \/ PageLoads \/ PicksAgent \/ EditsDraft \/ Converts
  \/ SavesComposition \/ SaveRefused \/ SaveAccepted \/ SaveAnswered
  \/ SheetAssigned
  \/ FillStarts \/ FillEnds \/ \E a \in Wearers : FillWrites(a)
  \/ WorkerStartsAnew

ComposerSpec == ComposerInit /\ [][ComposerNext]_composerVars

-----------------------------------------------------------------------------
PlainRecords == {NoRecord} \cup {WholeSheet(p) : p \in 0 .. MaxPalette}

ComposerTypeOK ==
  /\ catalogLoads \in BOOLEAN
  /\ sheetOf \in [Wearers -> 0 .. MaxPalette]
  /\ \A a \in Wearers : \A r \in {kept[a], composed[a], shown.records[a]} :
       r \in PlainRecords \/ r.mode = "composition"
  /\ shown.parts \in {{}, PartIds}
  /\ working \in Wearers /\ submitted.at \in {"idle", "asked", "written"}
  /\ edits \in 0 .. MaxEdits

\* Whatever is selected, typed and converted, in whatever order, a draft passes the validation
\* that a save meets (composition.ts:260-345, character-composer.tsx:201-245).
DraftsValid == \A a \in Wearers : drafts[a] # NoDraft => ValidComposition(drafts[a])

\* A draft that is no longer there has been saved as it was: no refusal, restart or edit under
\* way loses it (character-composer.tsx:263-301).
DraftsSaved ==
  [][\A a \in Wearers : drafts[a] # NoDraft /\ drafts'[a] = NoDraft =>
       /\ submitted = [agent |-> a, at |-> "written", composition |-> drafts[a]]
       /\ composed'[a] = Composition(drafts[a])]_composerVars

\* Violated by the code: what the composer sends, the worker's validation can let pass
\* (actions.ts:49-53, "a composition branch is validated fail-closed"; the composer's header,
\* "Save flows through the agent.set-pixel-composition bridge action using the canonical
\* byte-exact v2 appearance payload"). The validation expects a value that carries the
\* appearance and is given the appearance itself.
SaveCanPass == submitted.at = "asked" => Accepted(Composition(submitted.composition))

\* Violated by the code: the whole sheet that the composer's banner names is the one the agent
\* has, once a reconcile has gone by (character-composer.tsx, "currently uses the whole sheet").
\* The second record is filled once and never follows the other picker.
BannerCurrent ==
  filling = NotFilling =>
    \A a \in Wearers : composed[a].mode = "wholeSheet" => composed[a].palette = sheetOf[a]
=============================================================================
