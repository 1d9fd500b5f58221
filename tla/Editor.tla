-------------------------------- MODULE Editor --------------------------------
(***************************************************************************)
(* A pattern being written in the editor: the form in the browser          *)
(* (view/pattern_editor_templ.go), the fragments it asks the server for    *)
(* (handler/pattern.go, HandleAddPart and HandleAddEntry), and a save,     *)
(* which parses the form, looks the stitches up in the library one by one  *)
(* (service/pattern.go) and stores the pattern in a transaction.           *)
(*                                                                         *)
(* Meanwhile the user changes the library in another window; the library   *)
(* is StitchLibrary, which Server implements.  Responses arrive in any     *)
(* order or not at all: it is up to Datastar whether a second click on a   *)
(* button cancels the request of the first.                                *)
(***************************************************************************)
EXTENDS Integers, FiniteSetsExt, SequencesExt

CONSTANTS
  Users, Abbreviations, Nobody,
  Libraries,    \* what the library may be at first
  Patterns,     \* patterns that may be stored at first, NoPattern among them
  MaxClicks,    \* bound: times "+ Add Part" or "+ Add Stitch" is clicked
  MaxChanges,   \* bound: changes of the library
  MaxSaves      \* bound: times the form is submitted

ASSUME EditorAssumptions ==
  /\ MaxClicks \in Nat /\ MaxChanges \in Nat /\ MaxSaves \in Nat
  /\ \A lib \in Libraries :
       /\ DOMAIN lib \subseteq Nat \ {0}
       /\ lib \in [DOMAIN lib -> [abbr  : Abbreviations,
                                 owner : Users \cup {Nobody},
                                 had   : SUBSET Abbreviations]]
  /\ \A p \in Patterns :
       /\ p \in [stitches : Seq([abbr : Abbreviations, lib : Nat \ {0}]),
                groups   : Seq(Seq(Nat))]
       /\ \A g \in DOMAIN p.groups : \A e \in DOMAIN p.groups[g] :
            p.groups[g][e] \in DOMAIN p.stitches

VARIABLES
  library,    \* the table stitches: a function from ids to stitches
  stored,     \* the pattern in the database
  page,       \* the form in the browser
  arriving,   \* fragments on their way to it
  overtaken,  \* for checking only: a fragment has overtaken an earlier one
  saving,     \* the submitted form, and what the save has looked up so far
  clicks, changes, saves

vars == << library, stored, page, arriving, overtaken, saving, clicks, changes, saves >>
counters == << clicks, changes, saves >>

Lib == INSTANCE StitchLibrary

\* A pattern: its stitches in order, each with the abbreviation copied from the
\* library and the id it was copied from, and the groups, each the sequence of
\* its entries' stitches, by place.
NoPattern == [stitches |-> << >>, groups |-> << >>]

NoStitch == 0

\* A row of the form: its index, the option selected and, for checking only, the
\* one the user has last selected for it.
Entry(ei, stitch, meant) == [ei |-> ei, stitch |-> stitch, meant |-> meant]

Blank(ei) == Entry(ei, NoStitch, NoStitch)

\* groupFields: a part without entries gets a blank one.
GroupFields(gi, entries) ==
  [gi |-> gi, entries |-> IF entries = << >> THEN << Blank(0) >> ELSE entries]

NoPage == [from |-> "none", parts |-> << >>, next |-> 0]
NotSaving == [step |-> "none", form |-> << >>, found |-> << >>]

Init ==
  /\ library \in Libraries
  /\ stored \in Patterns
  /\ page = NoPage
  /\ arriving = {}
  /\ overtaken = FALSE
  /\ saving = NotSaving
  /\ clicks = 0 /\ changes = 0 /\ saves = 0

-----------------------------------------------------------------------------
(***************************************************************************)
(* Rendering.  Groups are given as sequences of what isStitchSelected      *)
(* takes for the library id of each entry, and what was meant.             *)
(***************************************************************************)

\* Counts the parts only.
NextSignalIndexOfParts(groups) == Len(groups)

\* editorNextSignalIndex: beyond all indices that are rendered.
NextSignalIndex(groups) ==
  Max({0} \cup {g - 1 : g \in DOMAIN groups}
          \cup UNION {{e - 1 : e \in DOMAIN groups[g]} : g \in DOMAIN groups}) + 100

\* The option that is selected, if the library still has it.
Selected(id) == IF id \in DOMAIN library THEN id ELSE NoStitch

\* PatternEditorPage: a pattern without groups is shown with one part.
EditorPage(from, groups) ==
  LET part(g) == GroupFields(g - 1,
                   [e \in DOMAIN groups[g] |->
                      Entry(e - 1, Selected(groups[g][e].id), groups[g][e].meant)])
  IN  [from  |-> from,
       parts |-> IF groups = << >> THEN << GroupFields(0, << >>) >>
                 ELSE [g \in DOMAIN groups |-> part(g)],
       next  |-> NextSignalIndex(groups)]

Show(p) == page' = p /\ arriving' = {} /\ overtaken' = FALSE

\* HandleNew.
OpenNew ==
  /\ page = NoPage /\ saving = NotSaving /\ stored = NoPattern
  /\ saves < MaxSaves
  /\ Show(EditorPage("new", << >>))
  /\ UNCHANGED << library, stored, saving, counters >>

\* The row id itself.
RowId(k) == k

\* buildPSToLibraryMap: the library id of the pattern's stitch k.
LibraryId(k) == stored.stitches[k].lib

\* HandleEdit.  Its GetByID is several queries, taken as one: the pattern is
\* saved by this editor only, which is not open yet.
OpenEdit ==
  /\ page = NoPage /\ saving = NotSaving /\ stored # NoPattern
  /\ saves < MaxSaves
  /\ Show(EditorPage("stored",
       [g \in DOMAIN stored.groups |-> [e \in DOMAIN stored.groups[g] |->
          LET k == stored.groups[g][e]
          IN  [id |-> LibraryId(k), meant |-> stored.stitches[k].lib]]]))
  /\ UNCHANGED << library, stored, saving, counters >>

-----------------------------------------------------------------------------
(***************************************************************************)
(* The form.                                                               *)
(***************************************************************************)

Fragment(part, kind) == [kind |-> kind, part |-> part, index |-> page.next]

Click(part, kind) ==
  /\ page # NoPage /\ saving = NotSaving /\ clicks < MaxClicks
  /\ clicks' = clicks + 1
  /\ arriving' = arriving \cup {Fragment(part, kind)}
  /\ page' = [page EXCEPT !.next = @ + 1]
  /\ UNCHANGED << library, stored, overtaken, saving, changes, saves >>

AddPart == Click(0, "part")
AddEntry(p) == Click(page.parts[p].gi, "entry")

\* What a fragment does to the form: it is appended to #pattern-parts or to the
\* entries of its part, or to nothing if the part has been removed.
Appended(parts, f) ==
  IF f.kind = "part" THEN Append(parts, GroupFields(f.index, << >>))
  ELSE [p \in DOMAIN parts |->
          IF parts[p].gi = f.part
            THEN [parts[p] EXCEPT !.entries = Append(@, Blank(f.index))]
            ELSE parts[p]]

Deliver(f) ==
  /\ page' = [page EXCEPT !.parts = Appended(@, f)]
  /\ arriving' = arriving \ {f}
  /\ overtaken' = (overtaken \/ \E g \in arriving :
       g.kind = f.kind /\ g.part = f.part /\ g.index < f.index)
  /\ UNCHANGED << library, stored, saving, counters >>

\* The request or its response is lost, or cancelled.
Lose(f) ==
  /\ arriving' = arriving \ {f}
  /\ UNCHANGED << library, stored, page, overtaken, saving, counters >>

\* removePartOnclick and removeEntryOnclick, in the browser.
RemovePart(p) ==
  /\ saving = NotSaving
  /\ page' = [page EXCEPT !.parts = RemoveAt(@, p)]
  /\ UNCHANGED << library, stored, arriving, overtaken, saving, counters >>

RemoveEntry(p, e) ==
  /\ saving = NotSaving
  /\ page' = [page EXCEPT !.parts[p].entries = RemoveAt(@, e)]
  /\ UNCHANGED << library, stored, arriving, overtaken, saving, counters >>

\* The user selects a stitch.  (One deleted since the form was rendered can be
\* selected as well; that is like deleting it after it was selected.)
Choose(p, e, id) ==
  /\ saving = NotSaving
  /\ page.parts[p].entries[e].stitch # id
  /\ page' = [page EXCEPT !.parts[p].entries[e] = Entry(@.ei, id, id)]
  /\ UNCHANGED << library, stored, arriving, overtaken, saving, counters >>

\* "Discard unsaved changes?"
Discard ==
  /\ page # NoPage /\ saving = NotSaving
  /\ Show(NoPage)
  /\ UNCHANGED << library, stored, saving, counters >>

-----------------------------------------------------------------------------
(***************************************************************************)
(* Saving.                                                                 *)
(***************************************************************************)

\* reportValidity: every select is `required'.
Complete(parts) ==
  \A p \in DOMAIN parts : \A e \in DOMAIN parts[p].entries : parts[p].entries[e].stitch # NoStitch

\* Sorts the keys as texts: "100" before "2".
CollectAsTexts(indices) ==
  LET key(n) == IF n < 10 THEN 1000 * n - 1 ELSE 10 * n
  IN  SetToSortSeq(indices, LAMBDA m, n : key(m) < key(n))

\* collectFormIndices: the indices found in the keys of the form, sorted.
CollectFormIndices(indices) ==
  CHOOSE s \in [1 .. Cardinality(indices) -> indices] :
    \A i, j \in DOMAIN s : i < j => s[i] < s[j]

\* parsePatternForm: parts and entries in the order of their indices.
Parsed(parts) ==
  LET part(gi) == parts[CHOOSE p \in DOMAIN parts : parts[p].gi = gi].entries
      entry(es, ei) == es[CHOOSE e \in DOMAIN es : es[e].ei = ei]
      order(es) == CollectFormIndices({es[e].ei : e \in DOMAIN es})
      groups == CollectFormIndices({parts[p].gi : p \in DOMAIN parts})
  IN  [g \in DOMAIN groups |->
         LET es == part(groups[g])
         IN  [e \in DOMAIN es |-> LET x == entry(es, order(es)[e])
                                  IN  [id |-> x.stitch, meant |-> x.meant]]]

\* The form as the user sees it.
Displayed(parts) ==
  [p \in DOMAIN parts |-> [e \in DOMAIN parts[p].entries |-> parts[p].entries[e].stitch]]

Submit ==
  /\ page # NoPage /\ saving = NotSaving /\ Complete(page.parts)
  /\ saves < MaxSaves
  /\ saves' = saves + 1
  /\ saving' = [step |-> "validate", form |-> Parsed(page.parts), found |-> << >>]
  /\ arriving' = {}
  /\ UNCHANGED << library, stored, page, overtaken, clicks, changes >>

\* renderEditorWithError, with what the entries hold by then.
Rerender(from, groups) ==
  /\ Show(EditorPage(IF page.from = "refused" THEN "refused" ELSE from, groups))
  /\ saving' = NotSaving

\* validate: a pattern has groups; a name or a label may be too long, too.
Validate ==
  /\ saving.step = "validate"
  /\ \/ saving.form # << >> /\ saving' = [saving EXCEPT !.step = "resolve"]
        /\ UNCHANGED << page, arriving, overtaken >>
     \/ Rerender("invalid", saving.form)
  /\ UNCHANGED << library, stored, counters >>

\* resolvePatternStitches: the library ids of the form in order ...
WantedIds ==
  FlattenSeq([g \in DOMAIN saving.form |->
                [e \in DOMAIN saving.form[g] |-> saving.form[g][e].id]])

\* ... the place of the first that has not been looked up, or 0 ...
Unresolved ==
  LET seen == {saving.found[k].lib : k \in DOMAIN saving.found}
  IN  SelectInSeq(WantedIds, LAMBDA id : id \notin seen)

\* The index of a library id among the stitches found, counted from 0.
IndexOf(id) == SelectInSeq(saving.found, LAMBDA s : s.lib = id) - 1

\* The form when its entries have been remapped to such indices.
Remapped ==
  [g \in DOMAIN saving.form |-> [e \in DOMAIN saving.form[g] |->
     [saving.form[g][e] EXCEPT !.id = IndexOf(@)]]]

\* ... and one query for it.
Resolve ==
  LET id == WantedIds[Unresolved]
  IN  /\ saving.step = "resolve" /\ Unresolved # 0
      /\ IF id \in DOMAIN library
           THEN /\ saving' = [saving EXCEPT
                     !.found = Append(@, [abbr |-> library[id].abbr, lib |-> id])]
                /\ UNCHANGED << page, arriving, overtaken >>
           ELSE Rerender("invalid", saving.form)
      /\ UNCHANGED << library, stored, counters >>

\* The transaction of patternRepo.Create or Update: UNIQUE(pattern_id,
\* abbreviation) refuses two stitches that are abbreviated the same.  By then
\* the entries hold indices.
StorePattern ==
  LET found == saving.found
      refused == \E j, k \in DOMAIN found : j # k /\ found[j].abbr = found[k].abbr
  IN  /\ saving.step = "resolve" /\ Unresolved = 0
      /\ IF refused THEN Rerender("refused", Remapped) /\ UNCHANGED stored
         ELSE /\ stored' = [stitches |-> found,
                            groups |-> [g \in DOMAIN saving.form |->
                              [e \in DOMAIN saving.form[g] |-> IndexOf(saving.form[g][e].id) + 1]]]
              /\ Show(NoPage)
              /\ saving' = NotSaving
      /\ UNCHANGED << library, counters >>

-----------------------------------------------------------------------------
\* The user's other window: the library changes as StitchLibrary allows.
ChangeLibrary ==
  /\ changes < MaxChanges
  /\ changes' = changes + 1
  /\ \E id \in DOMAIN library : Lib!Remove(id) \/ \E a \in Abbreviations : Lib!Rename(id, a)
  /\ UNCHANGED << stored, page, arriving, overtaken, saving, clicks, saves >>

Next ==
  \/ OpenNew \/ OpenEdit \/ Discard
  \/ AddPart
  \/ \E p \in DOMAIN page.parts :
       \/ AddEntry(p) \/ RemovePart(p)
       \/ \E e \in DOMAIN page.parts[p].entries :
            RemoveEntry(p, e) \/ \E id \in DOMAIN library : Choose(p, e, id)
  \/ \E f \in arriving : Deliver(f) \/ Lose(f)
  \/ Submit \/ Validate \/ Resolve \/ StorePattern
  \/ ChangeLibrary

Spec == Init /\ [][Next]_vars

-----------------------------------------------------------------------------
Distinct(s) == \A i, j \in DOMAIN s : s[i] = s[j] => i = j

\* handler/pattern.go:539, "supports non-contiguous indices": one counter serves
\* parts and entries, rendered or added, and no two rows of the form have the
\* same index, which would lose one of them.
TypeOK ==
  /\ page.from \in {"none", "new", "stored", "invalid", "refused"}
  /\ Distinct([p \in DOMAIN page.parts |-> page.parts[p].gi])
  /\ \A p \in DOMAIN page.parts :
       LET es == page.parts[p].entries IN Distinct([e \in DOMAIN es |-> es[e].ei])
  /\ \A g \in DOMAIN stored.groups : \A e \in DOMAIN stored.groups[g] :
       stored.groups[g][e] \in DOMAIN stored.stitches
  /\ clicks \in 0 .. MaxClicks /\ changes \in 0 .. MaxChanges /\ saves \in 0 .. MaxSaves

SavedIds(p) ==
  [g \in DOMAIN p.groups |-> [e \in DOMAIN p.groups[g] |-> p.stitches[p.groups[g][e]].lib]]

\* What is stored is the form as it was displayed, every part and every entry
\* in its place, whatever was added, removed and lost - unless a fragment has
\* overtaken an earlier one: then the order is that of the clicks.
SavedAsShown ==
  [][stored' # stored /\ ~ overtaken => SavedIds(stored') = Displayed(page.parts)]_vars

\* No form shows a stitch that the user did not select, or leaves the user's
\* selection out while the library has it: not when a stored pattern is opened,
\* nor when a form is shown again because it was invalid.  (When it is shown
\* again because the database refused it, the entries hold indices, and the
\* form shows the stitches that happen to have these ids.)
FormsKeepSelections ==
  page.from # "refused" =>
    \A p \in DOMAIN page.parts : \A e \in DOMAIN page.parts[p].entries :
      LET x == page.parts[p].entries[e]
      IN  x.stitch = x.meant \/ (x.stitch = NoStitch /\ x.meant \notin DOMAIN library)

=============================================================================
