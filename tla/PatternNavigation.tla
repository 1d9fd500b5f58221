------------------------- MODULE PatternNavigation -------------------------
(***************************************************************************)
(* The pure part of a work session (internal/service/worksession.go): how  *)
(* a position moves through a pattern, and what the tracker shows there.   *)
(*                                                                         *)
(* A pattern is a sequence of instruction groups.  A group has a repeat    *)
(* count and a sequence of stitch entries; an entry is "work `stitch'      *)
(* `count' times, `repeat' times over".  Positions keep the indices of the *)
(* source, which count from 0: group gi is p[gi + 1].                      *)
(***************************************************************************)
EXTENDS Integers, Sequences, FiniteSetsExt

(***************************************************************************)
(* What validatePattern guarantees of every stored pattern: at least one   *)
(* group, and positive repeats and counts.  A group may have no entries.   *)
(***************************************************************************)
StitchEntry == [count : Nat \ {0}, repeat : Nat \ {0}, stitch : STRING]

InstructionGroup == [repeat : Nat \ {0}, entries : Seq(StitchEntry)]

ValidPattern(p) == p \in Seq(InstructionGroup) /\ p # << >>

(***************************************************************************)
(* The five counters of domain.WorkSession.                                *)
(***************************************************************************)
Position == [gi : Nat, gr : Nat, si : Nat, sr : Nat, sc : Nat]

\* Group g in repeat r, entry e in repeat er, after c of its stitches.
At(g, r, e, er, c) == [gi |-> g, gr |-> r, si |-> e, sr |-> er, sc |-> c]

AtGroup(g) == At(g, 0, 0, 0, 0)

Start == AtGroup(0)

GroupAt(p, g) == p[g + 1]
EntriesAt(p, g) == p[g + 1].entries
EntryAt(p, g, e) == p[g + 1].entries[e + 1]

IsEmptyGroup(p, g) == EntriesAt(p, g) = << >>

-----------------------------------------------------------------------------
(***************************************************************************)
(* Forward.                                                                *)
(***************************************************************************)

\* The pattern is done exactly when the position has left the last group:
\* this is the Boolean that NavigateForward and advanceGroup return.
PastEnd(p, pos) == pos.gi >= Len(p)

NonEmptyFrom(p, g) == {h \in g .. Len(p) - 1 : ~ IsEmptyGroup(p, h)}

\* advanceGroup: the next group that has entries, or one past the last group.
AdvanceGroup(p, pos) ==
  LET later == NonEmptyFrom(p, pos.gi + 1)
  IN  AtGroup(IF later = {} THEN Len(p) ELSE Min(later))

\* Forgets to start the next repeat of the group from its first entry.
AdvanceGroupRepeatKeepsEntry(p, pos) ==
  IF pos.gr + 1 < GroupAt(p, pos.gi).repeat
    THEN At(pos.gi, pos.gr + 1, pos.si, 0, 0)
    ELSE AdvanceGroup(p, pos)

AdvanceGroupRepeat(p, pos) ==
  IF pos.gr + 1 < GroupAt(p, pos.gi).repeat
    THEN At(pos.gi, pos.gr + 1, 0, 0, 0)
    ELSE AdvanceGroup(p, pos)

\* One stitch forward within a group that has an entry at pos.si.
AdvanceInGroup(p, pos) ==
  LET entry == EntryAt(p, pos.gi, pos.si)
  IN  CASE pos.sc + 1 < entry.count ->
             At(pos.gi, pos.gr, pos.si, pos.sr, pos.sc + 1)
        [] pos.sc + 1 >= entry.count /\ pos.sr + 1 < entry.repeat ->
             At(pos.gi, pos.gr, pos.si, pos.sr + 1, 0)
        [] /\ pos.sc + 1 >= entry.count
           /\ pos.sr + 1 >= entry.repeat
           /\ pos.si + 1 < Len(EntriesAt(p, pos.gi)) ->
             At(pos.gi, pos.gr, pos.si + 1, 0, 0)
        [] OTHER -> AdvanceGroupRepeat(p, pos)

NavigateForward(p, pos) ==
  CASE PastEnd(p, pos) -> pos
    [] ~ PastEnd(p, pos) /\ pos.si >= Len(EntriesAt(p, pos.gi)) ->
         AdvanceGroup(p, pos)
    [] OTHER -> AdvanceInGroup(p, pos)

-----------------------------------------------------------------------------
(***************************************************************************)
(* Backward.                                                               *)
(***************************************************************************)

\* Counts the last repeat and the last stitch from 1.
EndOfEntryFromOne(p, g, r, e) ==
  At(g, r, e, EntryAt(p, g, e).repeat, EntryAt(p, g, e).count)

\* The last stitch of the last repetition of an entry.
EndOfEntry(p, g, r, e) ==
  At(g, r, e, EntryAt(p, g, e).repeat - 1, EntryAt(p, g, e).count - 1)

EndOfGroupRepeat(p, g, r) == EndOfEntry(p, g, r, Len(EntriesAt(p, g)) - 1)

NonEmptyBefore(p, g) == {h \in 0 .. g - 1 : ~ IsEmptyGroup(p, h)}

\* Without the test for the first group, and without skipping empty ones.
RetreatUnchecked(p, pos) == AtGroup(pos.gi - 1)

\* retreatToPreviousGroup, called with all other counters at 0.  When every
\* earlier group is empty the loop ends with the group index counted down to 0.
RetreatToPreviousGroup(p, pos) ==
  LET earlier == NonEmptyBefore(p, pos.gi)
  IN  IF earlier = {} THEN Start
      ELSE LET g == Max(earlier)
           IN  EndOfGroupRepeat(p, g, GroupAt(p, g).repeat - 1)

NavigateBackward(p, pos) ==
  CASE pos.sc > 0 -> At(pos.gi, pos.gr, pos.si, pos.sr, pos.sc - 1)
    [] pos.sc = 0 /\ pos.sr > 0 ->
         At(pos.gi, pos.gr, pos.si, pos.sr - 1, EntryAt(p, pos.gi, pos.si).count - 1)
    [] pos.sc = 0 /\ pos.sr = 0 /\ pos.si > 0 ->
         EndOfEntry(p, pos.gi, pos.gr, pos.si - 1)
    [] pos.sc = 0 /\ pos.sr = 0 /\ pos.si = 0 /\ pos.gr > 0 ->
         EndOfGroupRepeat(p, pos.gi, pos.gr - 1)
    [] OTHER -> RetreatToPreviousGroup(p, pos)

\* The Boolean NavigateBackward returns: was there a stitch to go back to?
RetreatReported(p, pos) ==
  \/ pos.sc > 0 \/ pos.sr > 0 \/ pos.si > 0 \/ pos.gr > 0
  \/ NonEmptyBefore(p, pos.gi) # {}

HasEntry(p, g, e) == g < Len(p) /\ e >= 0 /\ e < Len(EntriesAt(p, g))

\* The slice accesses of NavigateBackward that are out of range, when the
\* position was stored under another shape of the pattern: Go panics.
BackwardPanics(p, pos) ==
  /\ pos.sc = 0
  /\ CASE pos.sr > 0 -> ~ HasEntry(p, pos.gi, pos.si)
       [] pos.sr = 0 /\ pos.si > 0 -> ~ HasEntry(p, pos.gi, pos.si - 1)
       [] pos.sr = 0 /\ pos.si = 0 /\ pos.gr > 0 -> ~ HasEntry(p, pos.gi, 0)
       [] OTHER -> pos.gi > Len(p)

-----------------------------------------------------------------------------
(***************************************************************************)
(* Progress (ComputeProgress, StitchCount, GroupStitchCount).              *)
(***************************************************************************)

\* Sum of the first n weights.  Written as a recursive function, not with a
\* fold, so that facts about it stay within reach of a proof.
PrefixSum(w, n) ==
  LET s[k \in Nat] == IF k = 0 THEN 0 ELSE s[k - 1] + w[k] IN s[n]

Weights(g) == [i \in DOMAIN g.entries |-> g.entries[i].count * g.entries[i].repeat]

GroupStitchCount(g) == PrefixSum(Weights(g), Len(g.entries))

GroupWeights(p) == [i \in DOMAIN p |-> GroupStitchCount(p[i]) * p[i].repeat]

StitchCount(p) == PrefixSum(GroupWeights(p), Len(p))

AtMost(a, b) == IF a < b THEN a ELSE b

\* Stitches worked in the current group, as the overall bar counts them.
CompletedInCurrentGroup(p, pos) ==
  LET g == GroupAt(p, pos.gi)
  IN  GroupStitchCount(g) * pos.gr
        + PrefixSum(Weights(g), AtMost(pos.si, Len(g.entries)))
        + (IF HasEntry(p, pos.gi, pos.si)
             THEN EntryAt(p, pos.gi, pos.si).count * pos.sr + pos.sc
             ELSE 0)

CompletedStitches(p, pos) ==
  PrefixSum(GroupWeights(p), AtMost(pos.gi, Len(p)))
    + (IF PastEnd(p, pos) THEN 0 ELSE CompletedInCurrentGroup(p, pos))

\* The bars of the single groups; index 0 is the first group.
TotalInGroup(p, g) == GroupStitchCount(GroupAt(p, g)) * GroupAt(p, g).repeat

GroupStatus(p, pos, g) ==
  CASE g < pos.gi -> "completed"
    [] g = pos.gi -> "current"
    [] g > pos.gi -> "upcoming"

\* Stitches worked of each entry of a group in its current repeat.
WorkedOfEntries(g, pos) ==
  [i \in DOMAIN g.entries |->
     CASE i - 1 < pos.si -> g.entries[i].count * g.entries[i].repeat
       [] i - 1 = pos.si -> g.entries[i].count * pos.sr + pos.sc
       [] i - 1 > pos.si -> 0]

\* Leaves out the finished repeats of the current group.
CompletedInRepeat(p, pos, g) ==
  CASE GroupStatus(p, pos, g) = "completed" -> TotalInGroup(p, g)
    [] GroupStatus(p, pos, g) = "current" ->
         PrefixSum(WorkedOfEntries(GroupAt(p, g), pos), Len(EntriesAt(p, g)))
    [] GroupStatus(p, pos, g) = "upcoming" -> 0

CompletedInGroup(p, pos, g) ==
  CASE GroupStatus(p, pos, g) = "completed" -> TotalInGroup(p, g)
    [] GroupStatus(p, pos, g) = "current" ->
         GroupStitchCount(GroupAt(p, g)) * pos.gr
           + PrefixSum(WorkedOfEntries(GroupAt(p, g), pos), Len(EntriesAt(p, g)))
    [] GroupStatus(p, pos, g) = "upcoming" -> 0

-----------------------------------------------------------------------------
(***************************************************************************)
(* The labels of the tracker: current, previous and next stitch.           *)
(***************************************************************************)
NoStitch == ""

StitchAt(p, g, e) == IF HasEntry(p, g, e) THEN EntryAt(p, g, e).stitch ELSE NoStitch

LastStitchOf(p, g) == StitchAt(p, g, Len(EntriesAt(p, g)) - 1)
FirstStitchOf(p, g) == StitchAt(p, g, 0)

CurrentStitch(p, pos) == IF PastEnd(p, pos) THEN NoStitch ELSE StitchAt(p, pos.gi, pos.si)

PrevStitch(p, pos) ==
  CASE pos.sc > 0 \/ pos.sr > 0 -> StitchAt(p, pos.gi, pos.si)
    [] pos.sc = 0 /\ pos.sr = 0 /\ pos.si > 0 -> StitchAt(p, pos.gi, pos.si - 1)
    [] pos.sc = 0 /\ pos.sr = 0 /\ pos.si = 0 /\ pos.gr > 0
         /\ ~ IsEmptyGroup(p, pos.gi) -> LastStitchOf(p, pos.gi)
    [] OTHER -> LET earlier == NonEmptyBefore(p, pos.gi)
                IN  IF earlier = {} THEN NoStitch ELSE LastStitchOf(p, Max(earlier))

\* Looks at the next group of the pattern without skipping empty ones.
FirstStitchAfterNoSkip(p, g) ==
  IF g + 1 < Len(p) THEN FirstStitchOf(p, g + 1) ELSE NoStitch

FirstStitchAfter(p, g) ==
  LET later == NonEmptyFrom(p, g + 1)
  IN  IF later = {} THEN NoStitch ELSE FirstStitchOf(p, Min(later))

NextStitch(p, pos) ==
  IF PastEnd(p, pos) \/ ~ HasEntry(p, pos.gi, pos.si) THEN NoStitch
  ELSE LET entry == EntryAt(p, pos.gi, pos.si)
       IN  CASE pos.sc + 1 < entry.count \/ pos.sr + 1 < entry.repeat -> entry.stitch
             [] /\ pos.sc + 1 >= entry.count /\ pos.sr + 1 >= entry.repeat
                /\ pos.si + 1 < Len(EntriesAt(p, pos.gi)) ->
                  StitchAt(p, pos.gi, pos.si + 1)
             [] /\ pos.sc + 1 >= entry.count /\ pos.sr + 1 >= entry.repeat
                /\ pos.si + 1 >= Len(EntriesAt(p, pos.gi))
                /\ pos.gr + 1 < GroupAt(p, pos.gi).repeat ->
                  FirstStitchOf(p, pos.gi)
             [] OTHER -> FirstStitchAfter(p, pos.gi)

\* The slice accesses of getPrevStitchAbbr that are out of range when the
\* position was stored under another shape of the pattern.  ComputeProgress,
\* and with it every page of the tracker, panics.
ProgressPanics(p, pos) ==
  /\ ~ PastEnd(p, pos)
  /\ IF pos.sc > 0 \/ pos.sr > 0 THEN ~ HasEntry(p, pos.gi, pos.si)
     ELSE pos.si > 0 /\ ~ HasEntry(p, pos.gi, pos.si - 1)

-----------------------------------------------------------------------------
(***************************************************************************)
(* A position that a session over p can be in: one past the last group, or *)
(* an existing repetition of an existing entry, or the start of a group    *)
(* without entries.                                                        *)
(***************************************************************************)
WithinGroup(g, pos) ==
  \/ g.entries = << >> /\ pos = AtGroup(pos.gi)
  \/ /\ pos.gr < g.repeat
     /\ pos.si < Len(g.entries)
     /\ pos.sr < g.entries[pos.si + 1].repeat
     /\ pos.sc < g.entries[pos.si + 1].count

FitsPattern(p, pos) ==
  /\ pos \in Position
  /\ \/ pos = AtGroup(Len(p))
     \/ pos.gi < Len(p) /\ WithinGroup(GroupAt(p, pos.gi), pos)

=============================================================================
