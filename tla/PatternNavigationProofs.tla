----------------------- MODULE PatternNavigationProofs -----------------------
(***************************************************************************)
(* Lemmas about PatternNavigation, for every valid pattern: where the      *)
(* moves lead, how many stitches they work and what the labels show.       *)
(* NavigationProofs and WorkSessionProofs rest on them.                    *)
(***************************************************************************)
EXTENDS PatternNavigation, WellFoundedInduction, TLAPS

\* A non-empty set of naturals has a least element.
LEMMA LeastNatural ==
  ASSUME NEW S \in SUBSET Nat, S # {}
  PROVE  \E x \in S : \A y \in S : x <= y
<1>1. PICK x \in S : \A y \in S : ~ (<< y, x >> \in OpToRel(<, Nat))
  BY NatLessThanWellFounded, WFMin
<1>2. \A y \in S : ~ (y < x)
  BY <1>1 DEF OpToRel
<1>3. QED
  BY <1>2

\* Min of a non-empty set of naturals is its least element.
LEMMA MinOfNaturals ==
  ASSUME NEW S \in SUBSET Nat, S # {}
  PROVE  /\ Min(S) \in S
         /\ \A y \in S : Min(S) <= y
BY LeastNatural DEF Min

\* Max of a non-empty bounded set of naturals is its greatest element.
LEMMA MaxOfNaturals ==
  ASSUME NEW n \in Nat, NEW S \in SUBSET (0 .. n), S # {}
  PROVE  /\ Max(S) \in S
         /\ \A y \in S : Max(S) >= y
<1> DEFINE T == {n - y : y \in S}
<1>1. T \in SUBSET Nat /\ T # {}
  <2>1. \A y \in S : n - y \in Nat
    OBVIOUS
  <2>2. T \in SUBSET Nat
    BY <2>1
  <2>3. PICK y \in S : TRUE
    OBVIOUS
  <2>4. n - y \in T
    OBVIOUS
  <2>5. QED
    BY <2>2, <2>4
<1>2. PICK t \in T : \A u \in T : t <= u
  BY <1>1, LeastNatural
<1>3. PICK x \in S : t = n - x
  BY <1>2
<1>4. \A y \in S : n - x <= n - y
  BY <1>2, <1>3
<1>5. \A y \in S : x >= y
  BY <1>4
<1>6. QED
  BY <1>5 DEF Max

-----------------------------------------------------------------------------
(***************************************************************************)
(* Where the moves of a session lead.                                      *)
(***************************************************************************)

\* Types of the parts of a valid pattern.
LEMMA GroupTyped ==
  ASSUME NEW p, ValidPattern(p), NEW g \in 0 .. Len(p) - 1
  PROVE  /\ Len(p) \in Nat
         /\ GroupAt(p, g) \in InstructionGroup
         /\ GroupAt(p, g).repeat \in Nat \ {0}
         /\ GroupAt(p, g).entries = EntriesAt(p, g)
         /\ EntriesAt(p, g) \in Seq(StitchEntry)
         /\ Len(EntriesAt(p, g)) \in Nat
         /\ ~ IsEmptyGroup(p, g) => Len(EntriesAt(p, g)) > 0
<1>1. GroupAt(p, g) \in InstructionGroup /\ Len(p) \in Nat
  BY DEF ValidPattern, GroupAt
<1>2. EntriesAt(p, g) = GroupAt(p, g).entries
  BY DEF EntriesAt, GroupAt
<1>3. EntriesAt(p, g) \in Seq(StitchEntry) /\ GroupAt(p, g).repeat \in Nat \ {0}
  BY <1>1, <1>2 DEF InstructionGroup
<1>4. QED
  BY <1>1, <1>2, <1>3 DEF IsEmptyGroup

\* An entry of a valid pattern has a positive count and a positive repeat.
LEMMA EntryTyped ==
  ASSUME NEW p, ValidPattern(p), NEW g \in 0 .. Len(p) - 1,
         NEW e \in 0 .. Len(EntriesAt(p, g)) - 1
  PROVE  /\ EntryAt(p, g, e) \in StitchEntry
         /\ EntryAt(p, g, e).count \in Nat \ {0}
         /\ EntryAt(p, g, e).repeat \in Nat \ {0}
<1>1. EntriesAt(p, g) \in Seq(StitchEntry)
  BY GroupTyped
<1>2. EntryAt(p, g, e) = EntriesAt(p, g)[e + 1]
  BY DEF EntryAt, EntriesAt
<1>3. EntryAt(p, g, e) \in StitchEntry
  BY <1>1, <1>2
<1>4. QED
  BY <1>3 DEF StitchEntry

\* The start of a group is a position whose other counters are 0.
LEMMA AtGroupIsPosition ==
  ASSUME NEW g \in Nat
  PROVE  /\ AtGroup(g) \in Position
         /\ AtGroup(g).gi = g /\ AtGroup(g).gr = 0 /\ AtGroup(g).si = 0
         /\ AtGroup(g).sr = 0 /\ AtGroup(g).sc = 0
BY DEF AtGroup, At, Position

\* The start of any group of the pattern is a position of the pattern.
LEMMA GroupStartFits ==
  ASSUME NEW p, ValidPattern(p), NEW g \in 0 .. Len(p)
  PROVE  FitsPattern(p, AtGroup(g))
<1>1. AtGroup(g) \in Position
  BY AtGroupIsPosition DEF ValidPattern
<1>2. CASE g = Len(p)
  BY <1>1, <1>2 DEF FitsPattern
<1>3. CASE g < Len(p)
  <2>1. p[g + 1] \in InstructionGroup
    BY <1>3 DEF ValidPattern
  <2>2. CASE p[g + 1].entries = << >>
    BY <1>1, <1>3, <2>2, AtGroupIsPosition DEF FitsPattern, WithinGroup, GroupAt
  <2>3. CASE p[g + 1].entries # << >>
    <3>1. Len(p[g + 1].entries) > 0 /\ p[g + 1].entries[1] \in StitchEntry
      BY <2>1, <2>3 DEF InstructionGroup
    <3>2. QED
      BY <1>1, <1>3, <2>1, <3>1, AtGroupIsPosition
      DEF FitsPattern, WithinGroup, GroupAt, InstructionGroup, StitchEntry
  <2>4. QED
    BY <2>2, <2>3
<1>4. QED
  BY <1>2, <1>3 DEF ValidPattern

\* advanceGroup leads to a later group of the pattern, or to its end.
LEMMA AdvanceGroupFits ==
  ASSUME NEW p, ValidPattern(p), NEW pos0 \in Position, pos0.gi < Len(p)
  PROVE  /\ FitsPattern(p, AdvanceGroup(p, pos0))
         /\ AdvanceGroup(p, pos0).gi > pos0.gi
<1> DEFINE later == NonEmptyFrom(p, pos0.gi + 1)
<1>1. pos0.gi \in Nat /\ Len(p) \in Nat
  BY DEF Position, ValidPattern
<1>2. CASE later = {}
  BY <1>1, <1>2, GroupStartFits, AtGroupIsPosition DEF AdvanceGroup
<1>3. CASE later # {}
  <2>1. later \in SUBSET Nat
    BY <1>1 DEF NonEmptyFrom
  <2>2. Min(later) \in later
    BY <1>3, <2>1, MinOfNaturals
  <2>3. Min(later) \in pos0.gi + 1 .. Len(p) - 1
    BY <2>2 DEF NonEmptyFrom
  <2>4. AdvanceGroup(p, pos0) = AtGroup(Min(later))
    BY <1>3 DEF AdvanceGroup
  <2>5. QED
    BY <1>1, <2>3, <2>4, GroupStartFits, AtGroupIsPosition
<1>4. QED
  BY <1>2, <1>3

\* Facts about the group and the entry a position within the pattern points at.
LEMMA FittingPosition ==
  ASSUME NEW p, ValidPattern(p), NEW pos0, FitsPattern(p, pos0), ~ PastEnd(p, pos0)
  PROVE  /\ pos0 \in Position
         /\ Len(p) \in Nat /\ pos0.gi < Len(p)
         /\ GroupAt(p, pos0.gi) \in InstructionGroup
         /\ WithinGroup(GroupAt(p, pos0.gi), pos0)
         /\ ~ IsEmptyGroup(p, pos0.gi) =>
              /\ pos0.si < Len(EntriesAt(p, pos0.gi))
              /\ EntryAt(p, pos0.gi, pos0.si) \in StitchEntry
<1>1. pos0 \in Position /\ Len(p) \in Nat /\ pos0.gi \in Nat /\ pos0.si \in Nat
  BY DEF FitsPattern, ValidPattern, Position
<1>2. pos0.gi < Len(p)
  BY <1>1 DEF PastEnd
<1>3. WithinGroup(GroupAt(p, pos0.gi), pos0)
  BY <1>1, <1>2, AtGroupIsPosition DEF FitsPattern
<1>4. GroupAt(p, pos0.gi) \in InstructionGroup
  BY <1>1, <1>2 DEF GroupAt, ValidPattern
<1>5. ASSUME ~ IsEmptyGroup(p, pos0.gi)
      PROVE  /\ pos0.si < Len(EntriesAt(p, pos0.gi))
             /\ EntryAt(p, pos0.gi, pos0.si) \in StitchEntry
  <2>1. pos0.si < Len(EntriesAt(p, pos0.gi))
    BY <1>3, <1>5 DEF WithinGroup, IsEmptyGroup, EntriesAt, GroupAt
  <2>2. EntriesAt(p, pos0.gi) \in Seq(StitchEntry)
    BY <1>4 DEF EntriesAt, GroupAt, InstructionGroup
  <2>3. QED
    BY <1>1, <2>1, <2>2 DEF EntryAt, EntriesAt
<1>6. QED
  BY <1>1, <1>2, <1>3, <1>4, <1>5

\* Introduction rule: a position within a non-empty group fits.
LEMMA WithinNonEmptyGroupFits ==
  ASSUME NEW p, ValidPattern(p), NEW q \in Position, q.gi < Len(p),
         ~ IsEmptyGroup(p, q.gi),
         q.gr < GroupAt(p, q.gi).repeat,
         q.si < Len(EntriesAt(p, q.gi)),
         q.sr < EntryAt(p, q.gi, q.si).repeat,
         q.sc < EntryAt(p, q.gi, q.si).count
  PROVE  FitsPattern(p, q)
BY DEF FitsPattern, WithinGroup, GroupAt, EntriesAt, EntryAt, IsEmptyGroup

\* NavigateForward stays within the pattern.
LEMMA ForwardFits ==
  ASSUME NEW p, ValidPattern(p), NEW pos0, FitsPattern(p, pos0), ~ PastEnd(p, pos0)
  PROVE  FitsPattern(p, NavigateForward(p, pos0))
<1> DEFINE E == EntriesAt(p, pos0.gi)
           entry == EntryAt(p, pos0.gi, pos0.si)
           g == GroupAt(p, pos0.gi)
<1>1. /\ pos0 \in Position /\ Len(p) \in Nat /\ pos0.gi < Len(p)
      /\ g \in InstructionGroup /\ WithinGroup(g, pos0)
  BY FittingPosition
<1>2. FitsPattern(p, AdvanceGroup(p, pos0))
  BY <1>1, AdvanceGroupFits
<1>3. CASE pos0.si >= Len(E)
  BY <1>2, <1>3 DEF NavigateForward
<1>4. CASE pos0.si < Len(E)
  <2>1. NavigateForward(p, pos0) = AdvanceInGroup(p, pos0)
    BY <1>1, <1>4 DEF NavigateForward, Position, InstructionGroup, EntriesAt, GroupAt
  <2>2. /\ E \in Seq(StitchEntry) /\ E # << >> /\ ~ IsEmptyGroup(p, pos0.gi)
        /\ \A i \in 0 .. Len(E) - 1 : EntryAt(p, pos0.gi, i) \in StitchEntry
    BY <1>1, <1>4 DEF InstructionGroup, EntriesAt, GroupAt, IsEmptyGroup, EntryAt, Position
  <2>3. entry \in StitchEntry
    BY <1>1, <1>4, <2>2 DEF Position
  <2>4. pos0.gr < g.repeat /\ pos0.sr < entry.repeat /\ pos0.sc < entry.count
    BY <1>1, <2>2 DEF WithinGroup, EntriesAt, GroupAt, EntryAt, IsEmptyGroup
  <2>5. CASE pos0.sc + 1 < entry.count
    <3> DEFINE q == At(pos0.gi, pos0.gr, pos0.si, pos0.sr, pos0.sc + 1)
    <3>1. AdvanceInGroup(p, pos0) = q
      BY <1>1, <2>3, <2>5 DEF AdvanceInGroup, Position, StitchEntry
    <3>2. /\ q \in Position /\ q.gi = pos0.gi /\ q.gr = pos0.gr /\ q.si = pos0.si
          /\ q.sr = pos0.sr /\ q.sc = pos0.sc + 1
      BY <1>1 DEF Position, At
    <3>3. QED
      BY <1>1, <1>4, <2>1, <2>2, <2>4, <2>5, <3>1, <3>2, WithinNonEmptyGroupFits
  <2>6. CASE pos0.sc + 1 >= entry.count /\ pos0.sr + 1 < entry.repeat
    <3> DEFINE q == At(pos0.gi, pos0.gr, pos0.si, pos0.sr + 1, 0)
    <3>1. AdvanceInGroup(p, pos0) = q
      BY <1>1, <2>3, <2>6 DEF AdvanceInGroup, Position, StitchEntry
    <3>2. /\ q \in Position /\ q.gi = pos0.gi /\ q.gr = pos0.gr /\ q.si = pos0.si
          /\ q.sr = pos0.sr + 1 /\ q.sc = 0
      BY <1>1 DEF Position, At
    <3>3. 0 < entry.count
      BY <2>3 DEF StitchEntry
    <3>4. QED
      BY <1>1, <1>4, <2>1, <2>2, <2>4, <2>6, <3>1, <3>2, <3>3, WithinNonEmptyGroupFits
  <2>7. CASE /\ pos0.sc + 1 >= entry.count /\ pos0.sr + 1 >= entry.repeat
             /\ pos0.si + 1 < Len(E)
    <3> DEFINE q == At(pos0.gi, pos0.gr, pos0.si + 1, 0, 0)
    <3>1. AdvanceInGroup(p, pos0) = q
      BY <1>1, <2>3, <2>7 DEF AdvanceInGroup, Position, StitchEntry
    <3>2. /\ q \in Position /\ q.gi = pos0.gi /\ q.gr = pos0.gr /\ q.si = pos0.si + 1
          /\ q.sr = 0 /\ q.sc = 0
      BY <1>1 DEF Position, At
    <3>3. EntryAt(p, q.gi, q.si) \in StitchEntry
      BY <1>1, <2>2, <2>7, <3>2 DEF Position
    <3>4. 0 < EntryAt(p, q.gi, q.si).count /\ 0 < EntryAt(p, q.gi, q.si).repeat
      BY <3>3 DEF StitchEntry
    <3>5. QED
      BY <1>1, <2>1, <2>2, <2>4, <2>7, <3>1, <3>2, <3>4, WithinNonEmptyGroupFits
  <2>8. CASE /\ pos0.sc + 1 >= entry.count /\ pos0.sr + 1 >= entry.repeat
             /\ pos0.si + 1 >= Len(E)
    <3>1. AdvanceInGroup(p, pos0) = AdvanceGroupRepeat(p, pos0)
      BY <1>1, <2>2, <2>3, <2>8 DEF AdvanceInGroup, Position, StitchEntry
    <3>2. CASE pos0.gr + 1 < g.repeat
      <4> DEFINE q == At(pos0.gi, pos0.gr + 1, 0, 0, 0)
      <4>1. AdvanceGroupRepeat(p, pos0) = q
        BY <3>2 DEF AdvanceGroupRepeat
      <4>2. /\ q \in Position /\ q.gi = pos0.gi /\ q.gr = pos0.gr + 1 /\ q.si = 0
            /\ q.sr = 0 /\ q.sc = 0
        BY <1>1 DEF Position, At
      <4>3. 0 < Len(E) /\ EntryAt(p, q.gi, q.si) \in StitchEntry
        BY <1>1, <1>4, <2>2, <4>2 DEF Position
      <4>4. 0 < EntryAt(p, q.gi, q.si).count /\ 0 < EntryAt(p, q.gi, q.si).repeat
        BY <4>3 DEF StitchEntry
      <4>5. QED
        BY <1>1, <2>1, <2>2, <3>1, <3>2, <4>1, <4>2, <4>3, <4>4, WithinNonEmptyGroupFits
    <3>3. CASE ~ (pos0.gr + 1 < g.repeat)
      BY <1>2, <2>1, <3>1, <3>3 DEF AdvanceGroupRepeat
    <3>4. QED
      BY <3>2, <3>3
  <2>9. QED
    BY <1>1, <2>2, <2>3, <2>5, <2>6, <2>7, <2>8 DEF Position, StitchEntry
<1>5. QED
  BY <1>1, <1>3, <1>4 DEF Position, InstructionGroup, EntriesAt, GroupAt

\* The last stitch of an existing repetition of an existing entry fits.
LEMMA EndOfEntryFits ==
  ASSUME NEW p, ValidPattern(p), NEW g \in 0 .. Len(p) - 1, ~ IsEmptyGroup(p, g),
         NEW r \in 0 .. GroupAt(p, g).repeat - 1,
         NEW e \in 0 .. Len(EntriesAt(p, g)) - 1
  PROVE  FitsPattern(p, EndOfEntry(p, g, r, e))
<1> DEFINE q == EndOfEntry(p, g, r, e)
<1>1. GroupAt(p, g).repeat \in Nat /\ Len(p) \in Nat /\ Len(EntriesAt(p, g)) \in Nat
  BY GroupTyped
<1>2. EntryAt(p, g, e).repeat \in Nat \ {0} /\ EntryAt(p, g, e).count \in Nat \ {0}
  BY EntryTyped
<1>3. /\ q \in Position /\ q.gi = g /\ q.gr = r /\ q.si = e
      /\ q.sr = EntryAt(p, g, e).repeat - 1 /\ q.sc = EntryAt(p, g, e).count - 1
  <2>0. g \in Nat /\ r \in Nat /\ e \in Nat
    BY <1>1
  <2>1. /\ EntryAt(p, g, e).repeat - 1 \in Nat /\ EntryAt(p, g, e).count - 1 \in Nat
    BY <1>2
  <2> DEFINE er == EntryAt(p, g, e).repeat - 1
             c  == EntryAt(p, g, e).count - 1
  <2>2. q = At(g, r, e, er, c)
    BY DEF EndOfEntry
  <2>3. er \in Nat /\ c \in Nat
    BY <2>1
  <2> HIDE DEF er, c, q
  <2>4. /\ q \in Position /\ q.gi = g /\ q.gr = r /\ q.si = e /\ q.sr = er /\ q.sc = c
    BY <2>0, <2>2, <2>3 DEF At, Position
  <2>5. QED
    BY <2>4 DEF er, c
<1>4. /\ q.gi < Len(p) /\ q.gr < GroupAt(p, g).repeat /\ q.si < Len(EntriesAt(p, g))
      /\ q.sr < EntryAt(p, g, e).repeat /\ q.sc < EntryAt(p, g, e).count
  BY <1>1, <1>2, <1>3
<1>5. QED
  BY <1>3, <1>4, WithinNonEmptyGroupFits

\* The last stitch of a repeat of a group with entries is in the pattern.
LEMMA EndOfGroupRepeatFits ==
  ASSUME NEW p, ValidPattern(p), NEW g \in 0 .. Len(p) - 1, ~ IsEmptyGroup(p, g),
         NEW r \in 0 .. GroupAt(p, g).repeat - 1
  PROVE  FitsPattern(p, EndOfGroupRepeat(p, g, r))
<1>1. Len(EntriesAt(p, g)) \in Nat /\ Len(EntriesAt(p, g)) > 0
  BY GroupTyped
<1>2. Len(EntriesAt(p, g)) - 1 \in 0 .. Len(EntriesAt(p, g)) - 1
  BY <1>1
<1>3. QED
  BY <1>2, EndOfEntryFits DEF EndOfGroupRepeat

\* retreatToPreviousGroup leads to a position of the pattern.
LEMMA RetreatToPreviousGroupFits ==
  ASSUME NEW p, ValidPattern(p), NEW pos0 \in Position, pos0.gi <= Len(p)
  PROVE  FitsPattern(p, RetreatToPreviousGroup(p, pos0))
<1> DEFINE earlier == NonEmptyBefore(p, pos0.gi)
<1>1. pos0.gi \in Nat /\ Len(p) \in Nat
  BY DEF Position, ValidPattern
<1>2. CASE earlier = {}
  <2>1. RetreatToPreviousGroup(p, pos0) = AtGroup(0)
    BY <1>2 DEF RetreatToPreviousGroup, Start
  <2>2. QED
    BY <1>1, <2>1, GroupStartFits
<1>3. CASE earlier # {}
  <2>1. earlier \in SUBSET (0 .. Len(p))
    BY <1>1 DEF NonEmptyBefore
  <2>2. Max(earlier) \in earlier
    BY <1>1, <1>3, <2>1, MaxOfNaturals
  <2> DEFINE g == Max(earlier)
  <2>3. g \in 0 .. Len(p) - 1 /\ ~ IsEmptyGroup(p, g)
    BY <1>1, <2>2 DEF NonEmptyBefore
  <2>4. GroupAt(p, g).repeat - 1 \in 0 .. GroupAt(p, g).repeat - 1
    <3>1. GroupAt(p, g).repeat \in Nat \ {0}
      BY <2>3, GroupTyped
    <3>2. QED
      BY <3>1
  <2>5. RetreatToPreviousGroup(p, pos0) = EndOfGroupRepeat(p, g, GroupAt(p, g).repeat - 1)
    BY <1>3 DEF RetreatToPreviousGroup
  <2>6. QED
    BY <2>3, <2>4, <2>5, EndOfGroupRepeatFits
<1>4. QED
  BY <1>2, <1>3

\* NavigateBackward stays within the pattern, and never moves past its end.
LEMMA BackwardFits ==
  ASSUME NEW p, ValidPattern(p), NEW pos0, FitsPattern(p, pos0), ~ PastEnd(p, pos0)
  PROVE  FitsPattern(p, NavigateBackward(p, pos0))
<1> DEFINE E == EntriesAt(p, pos0.gi)
           g == GroupAt(p, pos0.gi)
<1>1. /\ pos0 \in Position /\ Len(p) \in Nat /\ pos0.gi < Len(p)
      /\ g \in InstructionGroup /\ WithinGroup(g, pos0)
  BY FittingPosition
<1>2. CASE pos0.sc = 0 /\ pos0.sr = 0 /\ pos0.si = 0 /\ pos0.gr = 0
  <2>1. NavigateBackward(p, pos0) = RetreatToPreviousGroup(p, pos0)
    BY <1>2 DEF NavigateBackward
  <2>2. QED
    BY <1>1, <2>1, RetreatToPreviousGroupFits DEF Position
<1>3. CASE ~ (pos0.sc = 0 /\ pos0.sr = 0 /\ pos0.si = 0 /\ pos0.gr = 0)
  <2>1. E # << >> /\ ~ IsEmptyGroup(p, pos0.gi)
    BY <1>1, <1>3, AtGroupIsPosition DEF WithinGroup, EntriesAt, GroupAt, IsEmptyGroup, Position
  <2>2. /\ pos0.gi \in 0 .. Len(p) - 1 /\ pos0.gr \in 0 .. g.repeat - 1
        /\ pos0.si \in 0 .. Len(E) - 1
    BY <1>1, <2>1 DEF WithinGroup, EntriesAt, GroupAt, Position, InstructionGroup
  <2> DEFINE entry == EntryAt(p, pos0.gi, pos0.si)
  <2>a. g.repeat \in Nat \ {0} /\ Len(E) \in Nat
    BY <1>1, <2>2, GroupTyped
  <2>3. entry \in StitchEntry /\ pos0.sr < entry.repeat /\ pos0.sc < entry.count
    BY <1>1, <2>1, <2>2
    DEF WithinGroup, EntriesAt, GroupAt, EntryAt, InstructionGroup
  <2>b. entry.count \in Nat \ {0} /\ entry.repeat \in Nat \ {0}
    BY <2>3 DEF StitchEntry
  <2>4. CASE pos0.sc > 0
    <3> DEFINE q == At(pos0.gi, pos0.gr, pos0.si, pos0.sr, pos0.sc - 1)
    <3>1. NavigateBackward(p, pos0) = q
      BY <1>1, <2>4 DEF NavigateBackward, Position
    <3>2. /\ q \in Position /\ q.gi = pos0.gi /\ q.gr = pos0.gr /\ q.si = pos0.si
          /\ q.sr = pos0.sr /\ q.sc = pos0.sc - 1
      BY <1>1, <2>4 DEF Position, At
    <3> HIDE DEF q
    <3>3. q.sc < entry.count /\ q.gr < g.repeat /\ q.si < Len(E)
      BY <1>1, <2>2, <2>3, <2>a, <2>b, <3>2 DEF Position
    <3>4. QED
      BY <1>1, <2>1, <2>3, <3>1, <3>2, <3>3, WithinNonEmptyGroupFits
  <2>5. CASE pos0.sc = 0 /\ pos0.sr > 0
    <3> DEFINE q == At(pos0.gi, pos0.gr, pos0.si, pos0.sr - 1, entry.count - 1)
    <3>1. NavigateBackward(p, pos0) = q
      BY <1>1, <2>5 DEF NavigateBackward, Position
    <3>2. /\ q \in Position /\ q.gi = pos0.gi /\ q.gr = pos0.gr /\ q.si = pos0.si
          /\ q.sr = pos0.sr - 1 /\ q.sc = entry.count - 1
      BY <1>1, <2>3, <2>5 DEF Position, At, StitchEntry
    <3> HIDE DEF q
    <3>3. /\ q.sr < entry.repeat /\ q.sc < entry.count /\ q.gr < g.repeat
          /\ q.si < Len(E)
      BY <1>1, <2>2, <2>3, <2>a, <2>b, <3>2 DEF Position
    <3>4. QED
      BY <1>1, <2>1, <3>1, <3>2, <3>3, WithinNonEmptyGroupFits
  <2>6. CASE pos0.sc = 0 /\ pos0.sr = 0 /\ pos0.si > 0
    <3>1. NavigateBackward(p, pos0) = EndOfEntry(p, pos0.gi, pos0.gr, pos0.si - 1)
      BY <1>1, <2>6 DEF NavigateBackward, Position
    <3>2. pos0.si - 1 \in 0 .. Len(E) - 1
      BY <2>2, <2>6
    <3>3. QED
      BY <2>1, <2>2, <3>1, <3>2, EndOfEntryFits
  <2>7. CASE pos0.sc = 0 /\ pos0.sr = 0 /\ pos0.si = 0 /\ pos0.gr > 0
    <3>1. NavigateBackward(p, pos0) = EndOfGroupRepeat(p, pos0.gi, pos0.gr - 1)
      BY <1>1, <2>7 DEF NavigateBackward, Position
    <3>2. pos0.gr - 1 \in 0 .. g.repeat - 1
      BY <1>1, <2>2, <2>7 DEF InstructionGroup
    <3>3. QED
      BY <2>1, <2>2, <3>1, <3>2, EndOfGroupRepeatFits
  <2>8. QED
    BY <1>1, <1>3, <2>4, <2>5, <2>6, <2>7 DEF Position
<1>4. QED
  BY <1>2, <1>3

\* An active position stays active when it goes back: only Forward completes.
LEMMA BackwardNotPastEnd ==
  ASSUME NEW p, ValidPattern(p), NEW pos0, FitsPattern(p, pos0), ~ PastEnd(p, pos0)
  PROVE  ~ PastEnd(p, NavigateBackward(p, pos0))
<1>1. pos0 \in Position /\ Len(p) \in Nat /\ pos0.gi < Len(p)
  BY FittingPosition
<1>2. RetreatToPreviousGroup(p, pos0).gi \in 0 .. Len(p) - 1
  <2> DEFINE earlier == NonEmptyBefore(p, pos0.gi)
  <2>1. CASE earlier = {}
    BY <1>1, <2>1, AtGroupIsPosition DEF RetreatToPreviousGroup, Start, Position
  <2>2. CASE earlier # {}
    <3>a. earlier \in SUBSET (0 .. Len(p))
      BY <1>1 DEF NonEmptyBefore, Position
    <3>1. Max(earlier) \in earlier
      BY <1>1, <2>2, <3>a, MaxOfNaturals
    <3>2. Max(earlier) \in 0 .. Len(p) - 1
      BY <1>1, <3>1 DEF NonEmptyBefore, Position
    <3>3. RetreatToPreviousGroup(p, pos0).gi = Max(earlier)
      BY <2>2 DEF RetreatToPreviousGroup, EndOfGroupRepeat, EndOfEntry, At
    <3>4. QED
      BY <3>2, <3>3
  <2>3. QED
    BY <2>1, <2>2
<1>3. NavigateBackward(p, pos0).gi \in {pos0.gi, RetreatToPreviousGroup(p, pos0).gi}
  BY <1>1 DEF NavigateBackward, EndOfGroupRepeat, EndOfEntry, At, Position
<1>4. QED
  BY <1>1, <1>2, <1>3 DEF PastEnd, Position

-----------------------------------------------------------------------------
(***************************************************************************)
(* The moves on a copy of a pattern that fits the position no more, or of  *)
(* which a part is missing: still positions, if they do not panic.         *)
(***************************************************************************)

\* Groups and entries of such a copy.
LEMMA CopyTyped ==
  ASSUME NEW p \in Seq(InstructionGroup), NEW g \in Nat, NEW e \in Nat, HasEntry(p, g, e)
  PROVE  /\ GroupAt(p, g) \in InstructionGroup
         /\ Len(EntriesAt(p, g)) \in Nat
         /\ EntryAt(p, g, e) \in StitchEntry
<1>1. Len(p) \in Nat /\ p[g + 1] \in InstructionGroup
  BY DEF HasEntry
<1>2. p[g + 1].entries \in Seq(StitchEntry) /\ e < Len(p[g + 1].entries)
  BY <1>1 DEF HasEntry, InstructionGroup, EntriesAt
<1>3. p[g + 1].entries[e + 1] \in StitchEntry /\ Len(p[g + 1].entries) \in Nat
  BY <1>2
<1>4. QED
  BY <1>1, <1>3 DEF GroupAt, EntriesAt, EntryAt

\* The counters of a position.
LEMMA AtTyped ==
  ASSUME NEW g \in Nat, NEW r \in Nat, NEW e \in Nat, NEW er \in Nat, NEW c \in Nat
  PROVE  At(g, r, e, er, c) \in Position
BY DEF At, Position

\* advanceGroup on any copy.
LEMMA AdvanceGroupTyped ==
  ASSUME NEW p \in Seq(InstructionGroup), NEW pos0 \in Position
  PROVE  AdvanceGroup(p, pos0) \in Position
<1> DEFINE later == NonEmptyFrom(p, pos0.gi + 1)
<1>1. pos0.gi \in Nat /\ Len(p) \in Nat
  BY DEF Position
<1>2. later \in SUBSET Nat
  BY <1>1 DEF NonEmptyFrom
<1>3. later # {} => Min(later) \in Nat
  BY <1>2, MinOfNaturals
<1>4. QED
  BY <1>1, <1>3, AtGroupIsPosition DEF AdvanceGroup

\* NavigateForward on any copy.
LEMMA ForwardTyped ==
  ASSUME NEW p \in Seq(InstructionGroup), NEW pos0 \in Position
  PROVE  NavigateForward(p, pos0) \in Position
<1>1. /\ pos0.gi \in Nat /\ pos0.gr \in Nat /\ pos0.si \in Nat /\ pos0.sr \in Nat
      /\ pos0.sc \in Nat
  BY DEF Position
<1>2. AdvanceGroup(p, pos0) \in Position
  BY AdvanceGroupTyped
<1>3. AdvanceGroupRepeat(p, pos0) \in Position
  BY <1>1, <1>2, AtTyped DEF AdvanceGroupRepeat
<1>4. CASE PastEnd(p, pos0)
  BY <1>4 DEF NavigateForward
<1>5. CASE ~ PastEnd(p, pos0) /\ pos0.si >= Len(EntriesAt(p, pos0.gi))
  BY <1>2, <1>5 DEF NavigateForward
<1>6. CASE ~ PastEnd(p, pos0) /\ ~ (pos0.si >= Len(EntriesAt(p, pos0.gi)))
  <2> DEFINE entry == EntryAt(p, pos0.gi, pos0.si)
  <2>1. NavigateForward(p, pos0) = AdvanceInGroup(p, pos0)
    BY <1>6 DEF NavigateForward
  <2>2. Len(p) \in Nat /\ Len(EntriesAt(p, pos0.gi)) \in Nat /\ HasEntry(p, pos0.gi, pos0.si)
    <3>1. Len(p) \in Nat /\ pos0.gi < Len(p)
      BY <1>1, <1>6 DEF PastEnd
    <3>2. p[pos0.gi + 1] \in InstructionGroup
      BY <1>1, <3>1
    <3>3. Len(EntriesAt(p, pos0.gi)) \in Nat
      BY <3>2 DEF EntriesAt, InstructionGroup
    <3>4. QED
      BY <1>1, <1>6, <3>1, <3>3 DEF HasEntry
  <2>3. entry.count \in Nat /\ entry.repeat \in Nat
    <3>1. entry \in StitchEntry
      BY <1>1, <2>2, CopyTyped
    <3>2. QED
      BY <3>1 DEF StitchEntry
  <2> HIDE DEF entry
  <2>4. AdvanceInGroup(p, pos0) \in
          { At(pos0.gi, pos0.gr, pos0.si, pos0.sr, pos0.sc + 1),
            At(pos0.gi, pos0.gr, pos0.si, pos0.sr + 1, 0),
            At(pos0.gi, pos0.gr, pos0.si + 1, 0, 0),
            AdvanceGroupRepeat(p, pos0) }
    BY <1>1, <2>2, <2>3 DEF AdvanceInGroup, entry
  <2>5. /\ At(pos0.gi, pos0.gr, pos0.si, pos0.sr, pos0.sc + 1) \in Position
        /\ At(pos0.gi, pos0.gr, pos0.si, pos0.sr + 1, 0) \in Position
        /\ At(pos0.gi, pos0.gr, pos0.si + 1, 0, 0) \in Position
    <3>1. /\ pos0.sc + 1 \in Nat /\ pos0.sr + 1 \in Nat /\ pos0.si + 1 \in Nat /\ 0 \in Nat
      BY <1>1
    <3>2. QED
      BY <1>1, <3>1, AtTyped
  <2>6. QED
    BY <1>3, <2>1, <2>4, <2>5
<1>7. QED
  BY <1>4, <1>5, <1>6

\* NavigateBackward on any copy on which it does not panic.
LEMMA BackwardTyped ==
  ASSUME NEW p \in Seq(InstructionGroup), NEW pos0 \in Position, ~ BackwardPanics(p, pos0)
  PROVE  NavigateBackward(p, pos0) \in Position
<1>1. /\ pos0.gi \in Nat /\ pos0.gr \in Nat /\ pos0.si \in Nat /\ pos0.sr \in Nat
      /\ pos0.sc \in Nat /\ Len(p) \in Nat
  BY DEF Position
<1>2. ASSUME NEW g \in Nat, NEW r \in Nat, NEW e \in Nat, HasEntry(p, g, e)
      PROVE  EndOfEntry(p, g, r, e) \in Position
  <2>1. EntryAt(p, g, e).count - 1 \in Nat /\ EntryAt(p, g, e).repeat - 1 \in Nat
    <3>1. EntryAt(p, g, e) \in StitchEntry
      BY <1>2, CopyTyped
    <3>2. QED
      BY <3>1 DEF StitchEntry
  <2>2. QED
    BY <2>1, AtTyped DEF EndOfEntry
<1>3. CASE pos0.sc > 0
  BY <1>1, <1>3, AtTyped DEF NavigateBackward
<1>4. CASE pos0.sc = 0 /\ pos0.sr > 0
  <2>1. HasEntry(p, pos0.gi, pos0.si)
    BY <1>1, <1>4 DEF BackwardPanics
  <2>2. EntryAt(p, pos0.gi, pos0.si).count - 1 \in Nat
    <3>1. EntryAt(p, pos0.gi, pos0.si) \in StitchEntry
      BY <1>1, <2>1, CopyTyped
    <3>2. QED
      BY <3>1 DEF StitchEntry
  <2>3. NavigateBackward(p, pos0) = At(pos0.gi, pos0.gr, pos0.si, pos0.sr - 1,
                                       EntryAt(p, pos0.gi, pos0.si).count - 1)
    BY <1>1, <1>4 DEF NavigateBackward
  <2>4. pos0.sr - 1 \in Nat
    BY <1>1, <1>4
  <2>5. QED
    BY <1>1, <2>2, <2>3, <2>4, AtTyped
<1>5. CASE pos0.sc = 0 /\ pos0.sr = 0 /\ pos0.si > 0
  <2>1. HasEntry(p, pos0.gi, pos0.si - 1) /\ pos0.si - 1 \in Nat
    BY <1>1, <1>5 DEF BackwardPanics
  <2>2. NavigateBackward(p, pos0) = EndOfEntry(p, pos0.gi, pos0.gr, pos0.si - 1)
    BY <1>1, <1>5 DEF NavigateBackward
  <2>3. QED
    BY <1>1, <1>2, <2>1, <2>2
<1>6. CASE pos0.sc = 0 /\ pos0.sr = 0 /\ pos0.si = 0 /\ pos0.gr > 0
  <2>1. HasEntry(p, pos0.gi, 0)
    BY <1>1, <1>6 DEF BackwardPanics
  <2>2. /\ Len(EntriesAt(p, pos0.gi)) \in Nat /\ 0 < Len(EntriesAt(p, pos0.gi))
        /\ pos0.gr - 1 \in Nat
    BY <1>1, <1>6, <2>1, CopyTyped DEF HasEntry
  <2>3. HasEntry(p, pos0.gi, Len(EntriesAt(p, pos0.gi)) - 1)
    BY <2>1, <2>2 DEF HasEntry
  <2>4. NavigateBackward(p, pos0) = EndOfGroupRepeat(p, pos0.gi, pos0.gr - 1)
    BY <1>1, <1>6 DEF NavigateBackward
  <2>5. Len(EntriesAt(p, pos0.gi)) - 1 \in Nat
    BY <2>2
  <2>6. QED
    BY <1>1, <1>2, <2>2, <2>3, <2>4, <2>5 DEF EndOfGroupRepeat
<1>7. CASE pos0.sc = 0 /\ pos0.sr = 0 /\ pos0.si = 0 /\ pos0.gr = 0
  <2> DEFINE earlier == NonEmptyBefore(p, pos0.gi)
  <2>1. NavigateBackward(p, pos0) = RetreatToPreviousGroup(p, pos0)
    BY <1>1, <1>7 DEF NavigateBackward
  <2>2. CASE earlier = {}
    BY <2>1, <2>2, AtGroupIsPosition DEF RetreatToPreviousGroup, Start
  <2>3. CASE earlier # {}
    <3> DEFINE g == Max(earlier)
    <3>1. earlier \in SUBSET (0 .. pos0.gi)
      BY <1>1 DEF NonEmptyBefore
    <3>2. g \in earlier
      BY <1>1, <2>3, <3>1, MaxOfNaturals
    <3>3. pos0.gi <= Len(p)
      BY <1>1, <1>7 DEF BackwardPanics
    <3>4. g \in Nat /\ g < Len(p) /\ ~ IsEmptyGroup(p, g)
      BY <1>1, <3>2, <3>3 DEF NonEmptyBefore
    <3> HIDE DEF g
    <3>5. GroupAt(p, g) \in InstructionGroup /\ EntriesAt(p, g) \in Seq(StitchEntry)
      <4>1. p[g + 1] \in InstructionGroup
        BY <1>1, <3>4
      <4>2. QED
        BY <4>1 DEF GroupAt, EntriesAt, InstructionGroup
    <3>6. /\ Len(EntriesAt(p, g)) - 1 \in Nat /\ GroupAt(p, g).repeat - 1 \in Nat
      BY <3>4, <3>5 DEF IsEmptyGroup, InstructionGroup
    <3>7. HasEntry(p, g, Len(EntriesAt(p, g)) - 1)
      BY <3>4, <3>6 DEF HasEntry
    <3>8. RetreatToPreviousGroup(p, pos0) = EndOfGroupRepeat(p, g, GroupAt(p, g).repeat - 1)
      BY <2>3 DEF RetreatToPreviousGroup, g
    <3>9. QED
      BY <1>2, <2>1, <3>4, <3>6, <3>7, <3>8 DEF EndOfGroupRepeat
  <2>4. QED
    BY <2>2, <2>3
<1>8. QED
  BY <1>1, <1>3, <1>4, <1>5, <1>6, <1>7

-----------------------------------------------------------------------------
(***************************************************************************)
(* Prefix sums.  Induction is over a set: the naturals outside it have no  *)
(* least element.                                                          *)
(***************************************************************************)

\* A set that has 0, and the successor of each of its naturals, has them all.
LEMMA NaturalsByInduction ==
  ASSUME NEW S, 0 \in S, \A n \in Nat : n \in S => n + 1 \in S
  PROVE  \A n \in Nat : n \in S
<1> DEFINE T == Nat \ S
<1> SUFFICES ASSUME T # {} PROVE FALSE
  OBVIOUS
<1>1. PICK x \in T : \A y \in T : x <= y
  BY LeastNatural
<1>2. x # 0 /\ x - 1 \in Nat /\ x - 1 \notin T
  BY <1>1
<1> QED
  BY <1>1, <1>2

\* What the recursive function is, up to n.
SumUpTo(w, n, f) == f = [k \in 0 .. n |-> IF k = 0 THEN 0 ELSE f[k - 1] + w[k]]

\* There is such a function up to every n,
LEMMA SumExists ==
  ASSUME NEW w
  PROVE  \A n \in Nat : \E f : SumUpTo(w, n, f)
<1> DEFINE S == {n \in Nat : \E f : SumUpTo(w, n, f)}
<1>1. 0 \in S
  <2> DEFINE f == [k \in 0 .. 0 |-> 0]
  <2>1. f = [k \in 0 .. 0 |-> IF k = 0 THEN 0 ELSE f[k - 1] + w[k]]
    OBVIOUS
  <2> HIDE DEF f
  <2>2. SumUpTo(w, 0, f)
    BY <2>1 DEF SumUpTo
  <2> QED
    BY <2>2
<1>2. ASSUME NEW n \in Nat, n \in S PROVE n + 1 \in S
  <2>1. PICK f : SumUpTo(w, n, f)
    BY <1>2
  <2> DEFINE g == [k \in 0 .. n + 1 |-> IF k = n + 1 THEN f[n] + w[n + 1] ELSE f[k]]
  <2>2. \A k \in 0 .. n : f[k] = IF k = 0 THEN 0 ELSE f[k - 1] + w[k]
    BY <2>1 DEF SumUpTo
  <2>3. \A k \in 0 .. n + 1 : g[k] = IF k = 0 THEN 0 ELSE g[k - 1] + w[k]
    <3> TAKE k \in 0 .. n + 1
    <3>1. CASE k = n + 1
      BY <3>1
    <3>2. CASE k \in 0 .. n
      BY <2>2, <3>2
    <3> QED
      BY <3>1, <3>2
  <2>4. g = [k \in 0 .. n + 1 |-> g[k]]
    OBVIOUS
  <2> HIDE DEF g
  <2>5. SumUpTo(w, n + 1, g)
    BY <2>3, <2>4 DEF SumUpTo
  <2> QED
    BY <2>5
<1> HIDE DEF S
<1>3. \A n \in Nat : n \in S
  BY <1>1, <1>2, NaturalsByInduction
<1> QED
  BY <1>3 DEF S

\* and two of them agree where both are defined.
LEMMA SumsAgree ==
  ASSUME NEW w, NEW m \in Nat, NEW n \in Nat, NEW f, NEW g, m <= n,
         SumUpTo(w, m, f), SumUpTo(w, n, g)
  PROVE  \A k \in 0 .. m : f[k] = g[k]
<1> DEFINE S == {k \in Nat : k <= m => f[k] = g[k]}
<1>1. /\ \A k \in 0 .. m : f[k] = IF k = 0 THEN 0 ELSE f[k - 1] + w[k]
      /\ \A k \in 0 .. n : g[k] = IF k = 0 THEN 0 ELSE g[k - 1] + w[k]
  BY DEF SumUpTo
<1>2. 0 \in S
  BY <1>1
<1>3. ASSUME NEW k \in Nat, k \in S PROVE k + 1 \in S
  BY <1>1, <1>3
<1> HIDE DEF S
<1>4. \A k \in Nat : k \in S
  BY <1>2, <1>3, NaturalsByInduction
<1> QED
  BY <1>4 DEF S

\* PrefixSum adds one weight after the other.
LEMMA PrefixSumSteps ==
  ASSUME NEW w
  PROVE  /\ PrefixSum(w, 0) = 0
         /\ \A n \in Nat : PrefixSum(w, n + 1) = PrefixSum(w, n) + w[n + 1]
<1> DEFINE Is(s) == s = [k \in Nat |-> IF k = 0 THEN 0 ELSE s[k - 1] + w[k]]
           F(n) == CHOOSE f : SumUpTo(w, n, f)
           t == [k \in Nat |-> F(k)[k]]
<1>1. \A n \in Nat : SumUpTo(w, n, F(n))
  BY SumExists
<1>2. \A k \in Nat : t[k] = IF k = 0 THEN 0 ELSE t[k - 1] + w[k]
  <2> TAKE k \in Nat
  <2> HIDE DEF F
  <2>1. F(k)[k] = IF k = 0 THEN 0 ELSE F(k)[k - 1] + w[k]
    <3>1. SumUpTo(w, k, F(k)) /\ k \in 0 .. k
      BY <1>1
    <3> DEFINE f == F(k)
    <3> HIDE DEF f
    <3>2. SumUpTo(w, k, f)
      BY <3>1 DEF f
    <3>3. f[k] = IF k = 0 THEN 0 ELSE f[k - 1] + w[k]
      BY <3>1, <3>2 DEF SumUpTo
    <3> QED
      BY <3>3 DEF f
  <2>2. CASE k = 0
    BY <2>1, <2>2
  <2>3. CASE k # 0
    <3>1. k - 1 \in Nat /\ k - 1 <= k /\ k - 1 \in 0 .. k - 1
      BY <2>3
    <3>2. SumUpTo(w, k - 1, F(k - 1)) /\ SumUpTo(w, k, F(k))
      BY <1>1, <3>1
    <3>3. F(k - 1)[k - 1] = F(k)[k - 1]
      BY <3>1, <3>2, SumsAgree
    <3> QED
      BY <2>1, <2>3, <3>1, <3>3
  <2> QED
    BY <2>2, <2>3
<1>3. t = [k \in Nat |-> t[k]]
  OBVIOUS
<1> HIDE DEF t, F
<1>4. Is(t)
  BY <1>2, <1>3
<1> DEFINE s == CHOOSE s : Is(s)
<1>5. Is(s)
  BY <1>4
<1>6. \A n : PrefixSum(w, n) = s[n]
  BY DEF PrefixSum
<1> HIDE DEF s
<1>7. \A k \in Nat : s[k] = IF k = 0 THEN 0 ELSE s[k - 1] + w[k]
  BY <1>5
<1> HIDE DEF Is
<1>8. s[0] = 0 /\ \A n \in Nat : s[n + 1] = s[n] + w[n + 1]
  BY <1>7
<1> QED
  BY <1>6, <1>8

\* Sums of naturals are naturals, and grow.
LEMMA SumIsNatural ==
  ASSUME NEW w, NEW n \in Nat, \A i \in 1 .. n : w[i] \in Nat
  PROVE  /\ PrefixSum(w, n) \in Nat
         /\ \A m \in 0 .. n : PrefixSum(w, m) \in Nat /\ PrefixSum(w, m) <= PrefixSum(w, n)
<1> DEFINE sum(k) == PrefixSum(w, k)
           S == {k \in Nat : k <= n => /\ sum(k) \in Nat
                                       /\ \A m \in 0 .. k : sum(m) \in Nat /\ sum(m) <= sum(k)}
<1>1. sum(0) = 0 /\ \A k \in Nat : sum(k + 1) = sum(k) + w[k + 1]
  BY PrefixSumSteps
<1> HIDE DEF sum
<1>2. 0 \in S
  BY <1>1
<1>3. ASSUME NEW k \in Nat, k \in S PROVE k + 1 \in S
  <2> SUFFICES ASSUME k + 1 <= n
               PROVE  /\ sum(k + 1) \in Nat
                      /\ \A m \in 0 .. k + 1 : sum(m) \in Nat /\ sum(m) <= sum(k + 1)
    OBVIOUS
  <2>1. sum(k) \in Nat /\ \A m \in 0 .. k : sum(m) \in Nat /\ sum(m) <= sum(k)
    BY <1>3
  <2>2. w[k + 1] \in Nat
    OBVIOUS
  <2>3. sum(k + 1) \in Nat /\ sum(k) <= sum(k + 1)
    BY <1>1, <2>1, <2>2
  <2>4. ASSUME NEW m \in 0 .. k + 1
        PROVE  sum(m) \in Nat /\ sum(m) <= sum(k + 1)
    <3>1. CASE m = k + 1
      BY <3>1, <2>3
    <3>2. CASE m \in 0 .. k
      BY <2>1, <2>3, <3>2
    <3> QED
      BY <3>1, <3>2
  <2> QED
    BY <2>3, <2>4
<1> HIDE DEF S
<1>4. \A k \in Nat : k \in S
  BY <1>2, <1>3, NaturalsByInduction
<1>5. \A k \in 0 .. n : sum(k) \in Nat /\ \A m \in 0 .. k : sum(m) <= sum(k)
  BY <1>4 DEF S
<1> QED
  BY <1>5 DEF sum

\* Sums of the same weights are the same.
LEMMA SumOfSame ==
  ASSUME NEW v, NEW w, NEW n \in Nat, \A i \in 1 .. n : v[i] = w[i]
  PROVE  PrefixSum(v, n) = PrefixSum(w, n)
<1> DEFINE S == {k \in Nat : k <= n => PrefixSum(v, k) = PrefixSum(w, k)}
<1>1. 0 \in S
  BY PrefixSumSteps
<1>2. ASSUME NEW k \in Nat, k \in S PROVE k + 1 \in S
  <2>1. k + 1 <= n => v[k + 1] = w[k + 1]
    OBVIOUS
  <2> QED
    BY <1>2, <2>1, PrefixSumSteps
<1> HIDE DEF S
<1>3. \A k \in Nat : k \in S
  BY <1>1, <1>2, NaturalsByInduction
<1> QED
  BY <1>3 DEF S

\* Weights of zero add nothing.
LEMMA SumOfZeros ==
  ASSUME NEW w, NEW m \in Nat, NEW n \in Nat, m <= n, PrefixSum(w, m) \in Nat,
         \A i \in m + 1 .. n : w[i] = 0
  PROVE  PrefixSum(w, n) = PrefixSum(w, m)
<1> DEFINE sum(k) == PrefixSum(w, k)
           S == {k \in Nat : m + k <= n => sum(m + k) = sum(m)}
<1>1. \A k \in Nat : sum(k + 1) = sum(k) + w[k + 1]
  BY PrefixSumSteps
<1> HIDE DEF sum
<1>2. sum(m) \in Nat
  BY DEF sum
<1>3. 0 \in S
  OBVIOUS
<1>4. ASSUME NEW k \in Nat, k \in S PROVE k + 1 \in S
  <2> SUFFICES ASSUME m + (k + 1) <= n PROVE sum(m + (k + 1)) = sum(m)
    OBVIOUS
  <2>1. m + k \in Nat /\ m + k <= n /\ m + (k + 1) = (m + k) + 1
    OBVIOUS
  <2>2. w[(m + k) + 1] = 0 /\ sum(m + k) = sum(m)
    BY <1>4, <2>1
  <2> QED
    BY <1>1, <1>2, <2>1, <2>2
<1> HIDE DEF S
<1>5. \A k \in Nat : k \in S
  BY <1>3, <1>4, NaturalsByInduction
<1>6. n - m \in S /\ m + (n - m) = n
  BY <1>5
<1> QED
  BY <1>6 DEF S, sum

-----------------------------------------------------------------------------
(***************************************************************************)
(* Products of naturals, which the provers do not find on their own.       *)
(***************************************************************************)

\* A product of naturals is a natural.
LEMMA ProductIsNatural ==
  ASSUME NEW a \in Nat, NEW b \in Nat
  PROVE  a * b \in Nat
OBVIOUS

\* One more.
LEMMA ProductSteps ==
  ASSUME NEW a \in Nat, NEW b \in Nat
  PROVE  /\ a * (b + 1) = a * b + a
         /\ a * 0 = 0 /\ 0 * a = 0 /\ a * 1 = a
OBVIOUS

\* b rounds of a and a part of the next one are less than c > b rounds.
LEMMA ProductBelow ==
  ASSUME NEW a \in Nat, NEW b \in Nat, NEW c \in Nat, NEW d \in Nat, b < c, d < a
  PROVE  a * b + d < a * c
<1>1. PICK e \in Nat : c = b + 1 + e
  <2>1. c - b - 1 \in Nat /\ c = b + 1 + (c - b - 1)
    OBVIOUS
  <2> QED
    BY <2>1
<1>2. a * c = a * b + a + a * e
  BY <1>1
<1>3. a * e \in Nat /\ a * b \in Nat
  BY ProductIsNatural
<1> QED
  BY <1>2, <1>3

-----------------------------------------------------------------------------
(***************************************************************************)
(* The stitches of groups and patterns.                                    *)
(***************************************************************************)

\* What the entries of a group weigh.
LEMMA EntriesWeigh ==
  ASSUME NEW g \in InstructionGroup
  PROVE  /\ Len(g.entries) \in Nat
         /\ PrefixSum(Weights(g), 0) = 0
         /\ \A e \in 0 .. Len(g.entries) :
              /\ PrefixSum(Weights(g), e) \in Nat
              /\ PrefixSum(Weights(g), e) <= GroupStitchCount(g)
         /\ \A e \in 0 .. Len(g.entries) - 1 :
              PrefixSum(Weights(g), e + 1) =
                PrefixSum(Weights(g), e) + g.entries[e + 1].count * g.entries[e + 1].repeat
         /\ GroupStitchCount(g) \in Nat
         /\ GroupStitchCount(g) = PrefixSum(Weights(g), Len(g.entries))
         /\ g.entries = << >> => GroupStitchCount(g) = 0
<1>1. g.entries \in Seq(StitchEntry)
  BY DEF InstructionGroup
<1>2. PICK n \in Nat : n = Len(g.entries) /\ DOMAIN g.entries = 1 .. n
  BY <1>1
<1>3. \A i \in 1 .. n : /\ Weights(g)[i] = g.entries[i].count * g.entries[i].repeat
                        /\ g.entries[i].count \in Nat /\ g.entries[i].repeat \in Nat
  <2> TAKE i \in 1 .. n
  <2>1. g.entries[i] \in StitchEntry
    BY <1>1, <1>2
  <2>2. i \in DOMAIN g.entries
    BY <1>2
  <2> QED
    BY <2>1, <2>2 DEF Weights, StitchEntry
<1>4. \A i \in 1 .. n : Weights(g)[i] \in Nat
  BY <1>3, ProductIsNatural
<1>5. /\ PrefixSum(Weights(g), n) \in Nat
      /\ \A e \in 0 .. n : /\ PrefixSum(Weights(g), e) \in Nat
                           /\ PrefixSum(Weights(g), e) <= PrefixSum(Weights(g), n)
  BY <1>4, SumIsNatural
<1>6. /\ PrefixSum(Weights(g), 0) = 0
      /\ \A e \in Nat : PrefixSum(Weights(g), e + 1) = PrefixSum(Weights(g), e) + Weights(g)[e + 1]
  BY PrefixSumSteps
<1>7. \A e \in 0 .. n - 1 : e \in Nat /\ e + 1 \in 1 .. n
  BY <1>2
<1>8. GroupStitchCount(g) = PrefixSum(Weights(g), n)
  BY <1>2 DEF GroupStitchCount
<1>9. g.entries = << >> => n = 0
  BY <1>2
<1> QED
  BY <1>2, <1>3, <1>5, <1>6, <1>7, <1>8, <1>9

\* What the groups of a pattern weigh.
LEMMA GroupsWeigh ==
  ASSUME NEW p, ValidPattern(p)
  PROVE  /\ Len(p) \in Nat
         /\ PrefixSum(GroupWeights(p), 0) = 0
         /\ \A g \in 0 .. Len(p) :
              /\ PrefixSum(GroupWeights(p), g) \in Nat
              /\ PrefixSum(GroupWeights(p), g) <= StitchCount(p)
         /\ \A g \in 0 .. Len(p) - 1 :
              /\ GroupWeights(p)[g + 1] = TotalInGroup(p, g)
              /\ TotalInGroup(p, g) \in Nat
              /\ PrefixSum(GroupWeights(p), g + 1) =
                   PrefixSum(GroupWeights(p), g) + TotalInGroup(p, g)
              /\ IsEmptyGroup(p, g) => TotalInGroup(p, g) = 0
         /\ StitchCount(p) \in Nat
         /\ StitchCount(p) = PrefixSum(GroupWeights(p), Len(p))
<1>1. PICK n \in Nat : n = Len(p) /\ DOMAIN p = 1 .. n
  BY DEF ValidPattern
<1>2. \A g \in 0 .. n - 1 : GroupWeights(p)[g + 1] = TotalInGroup(p, g)
  BY <1>1 DEF GroupWeights, TotalInGroup, GroupAt
<1>3. ASSUME NEW g \in 0 .. n - 1
      PROVE  /\ TotalInGroup(p, g) \in Nat
             /\ IsEmptyGroup(p, g) => TotalInGroup(p, g) = 0
  <2>1. GroupAt(p, g) \in InstructionGroup /\ GroupAt(p, g).repeat \in Nat
    BY <1>1, GroupTyped
  <2>2. GroupStitchCount(GroupAt(p, g)) \in Nat
    BY <2>1, EntriesWeigh
  <2>3. IsEmptyGroup(p, g) => GroupStitchCount(GroupAt(p, g)) = 0
    BY <2>1, EntriesWeigh DEF IsEmptyGroup, EntriesAt, GroupAt
  <2> QED
    BY <2>1, <2>2, <2>3, ProductIsNatural, ProductSteps DEF TotalInGroup
<1>4. \A i \in 1 .. n : GroupWeights(p)[i] \in Nat
  <2> TAKE i \in 1 .. n
  <2>1. i - 1 \in 0 .. n - 1 /\ (i - 1) + 1 = i
    OBVIOUS
  <2> QED
    BY <1>2, <1>3, <2>1
<1>5. /\ PrefixSum(GroupWeights(p), n) \in Nat
      /\ \A g \in 0 .. n : /\ PrefixSum(GroupWeights(p), g) \in Nat
                           /\ PrefixSum(GroupWeights(p), g) <= PrefixSum(GroupWeights(p), n)
  BY <1>4, SumIsNatural
<1>6. /\ PrefixSum(GroupWeights(p), 0) = 0
      /\ \A g \in Nat :
           PrefixSum(GroupWeights(p), g + 1)
             = PrefixSum(GroupWeights(p), g) + GroupWeights(p)[g + 1]
  BY PrefixSumSteps
<1>7. \A g \in 0 .. n - 1 : g \in Nat
  OBVIOUS
<1>8. StitchCount(p) = PrefixSum(GroupWeights(p), n)
  BY <1>1 DEF StitchCount
<1> QED
  BY <1>1, <1>2, <1>3, <1>5, <1>6, <1>7, <1>8

\* Groups without entries add nothing.
LEMMA EmptyGroupsWeighNothing ==
  ASSUME NEW p, ValidPattern(p), NEW g \in 0 .. Len(p), NEW h \in g .. Len(p),
         \A i \in g .. h - 1 : IsEmptyGroup(p, i)
  PROVE  PrefixSum(GroupWeights(p), h) = PrefixSum(GroupWeights(p), g)
<1>1. /\ Len(p) \in Nat /\ g \in Nat /\ h \in Nat /\ g <= h
      /\ PrefixSum(GroupWeights(p), g) \in Nat
  BY GroupsWeigh
<1>2. ASSUME NEW i \in g + 1 .. h PROVE GroupWeights(p)[i] = 0
  <2>1. i - 1 \in g .. h - 1 /\ i - 1 \in 0 .. Len(p) - 1 /\ (i - 1) + 1 = i
    BY <1>1
  <2> QED
    BY <2>1, GroupsWeigh
<1> QED
  BY <1>1, <1>2, SumOfZeros

-----------------------------------------------------------------------------
(***************************************************************************)
(* How many stitches are worked at a position.                             *)
(***************************************************************************)

\* At the start of a group: those of the groups before it.
LEMMA CompletedAtGroupStart ==
  ASSUME NEW p, ValidPattern(p), NEW g \in 0 .. Len(p)
  PROVE  CompletedStitches(p, AtGroup(g)) = PrefixSum(GroupWeights(p), g)
<1> DEFINE pos0 == AtGroup(g)
<1>1. /\ Len(p) \in Nat /\ g \in Nat /\ g <= Len(p)
      /\ PrefixSum(GroupWeights(p), g) \in Nat
  BY GroupsWeigh
<1>2. pos0.gi = g /\ pos0.gr = 0 /\ pos0.si = 0 /\ pos0.sr = 0 /\ pos0.sc = 0
  BY <1>1, AtGroupIsPosition
<1> HIDE DEF pos0
<1>3. AtMost(pos0.gi, Len(p)) = g
  BY <1>1, <1>2 DEF AtMost
<1>4. CASE g = Len(p)
  BY <1>1, <1>2, <1>3, <1>4 DEF CompletedStitches, PastEnd, pos0
<1>5. CASE g < Len(p)
  <2>1. g \in 0 .. Len(p) - 1
    BY <1>1, <1>5
  <2>2. /\ GroupAt(p, g) \in InstructionGroup
        /\ GroupAt(p, g).entries = EntriesAt(p, g)
        /\ Len(EntriesAt(p, g)) \in Nat
    BY <2>1, GroupTyped, EntriesWeigh
  <2>3. /\ GroupStitchCount(GroupAt(p, g)) * 0 = 0
        /\ PrefixSum(Weights(GroupAt(p, g)), 0) = 0
    BY <2>2, EntriesWeigh, ProductSteps
  <2>4. AtMost(0, Len(GroupAt(p, g).entries)) = 0
    BY <2>2 DEF AtMost
  <2>5. HasEntry(p, g, 0) => EntryAt(p, g, 0).count * 0 + 0 = 0
    <3> SUFFICES ASSUME HasEntry(p, g, 0) PROVE EntryAt(p, g, 0).count * 0 + 0 = 0
      OBVIOUS
    <3>1. 0 \in 0 .. Len(EntriesAt(p, g)) - 1
      BY <2>2 DEF HasEntry
    <3>2. EntryAt(p, g, 0).count \in Nat
      BY <2>1, <3>1, EntryTyped
    <3> QED
      BY <3>2, ProductSteps
  <2>6. CompletedInCurrentGroup(p, pos0) = 0
    BY <1>2, <2>3, <2>4, <2>5 DEF CompletedInCurrentGroup
  <2>7. ~ PastEnd(p, pos0)
    BY <1>1, <1>2, <1>5 DEF PastEnd
  <2> QED
    BY <1>1, <1>3, <2>6, <2>7 DEF CompletedStitches, pos0
<1> QED
  BY <1>1, <1>4, <1>5

\* The stitches of the entry that a position is in.
InEntry(p, pos0) == EntryAt(p, pos0.gi, pos0.si).count * pos0.sr + pos0.sc

\* The stitches of the repeat of the group.
InRepeat(p, pos0) == PrefixSum(Weights(GroupAt(p, pos0.gi)), pos0.si) + InEntry(p, pos0)

\* Within a group: those of the groups before it, of its finished repeats, of the
\* entries that are finished in this one, and of the entry itself.
LEMMA CompletedWithinGroup ==
  ASSUME NEW p, ValidPattern(p), NEW pos0 \in Position, pos0.gi < Len(p),
         pos0.si < Len(EntriesAt(p, pos0.gi))
  PROVE  CompletedStitches(p, pos0) =
           PrefixSum(GroupWeights(p), pos0.gi)
             + (GroupStitchCount(GroupAt(p, pos0.gi)) * pos0.gr + InRepeat(p, pos0))
<1>1. /\ pos0.gi \in Nat /\ pos0.si \in Nat /\ Len(p) \in Nat
      /\ pos0.gr \in Nat /\ pos0.sr \in Nat /\ pos0.sc \in Nat
  BY GroupsWeigh DEF Position
<1>2. pos0.gi \in 0 .. Len(p) - 1
  BY <1>1
<1>3. /\ GroupAt(p, pos0.gi) \in InstructionGroup
      /\ GroupAt(p, pos0.gi).entries = EntriesAt(p, pos0.gi)
      /\ Len(EntriesAt(p, pos0.gi)) \in Nat
  BY <1>2, GroupTyped, EntriesWeigh
<1>4. /\ AtMost(pos0.gi, Len(p)) = pos0.gi
      /\ AtMost(pos0.si, Len(GroupAt(p, pos0.gi).entries)) = pos0.si
  BY <1>1, <1>3 DEF AtMost
<1>5. HasEntry(p, pos0.gi, pos0.si) /\ ~ PastEnd(p, pos0)
  BY <1>1, <1>3 DEF HasEntry, PastEnd
<1>6. /\ PrefixSum(Weights(GroupAt(p, pos0.gi)), pos0.si) \in Nat
      /\ GroupStitchCount(GroupAt(p, pos0.gi)) * pos0.gr \in Nat
  BY <1>1, <1>3, EntriesWeigh, ProductIsNatural
<1>7. EntryAt(p, pos0.gi, pos0.si).count * pos0.sr \in Nat
  <2>1. pos0.si \in 0 .. Len(EntriesAt(p, pos0.gi)) - 1
    BY <1>1, <1>3
  <2> QED
    BY <1>1, <1>2, <2>1, EntryTyped, ProductIsNatural
<1> DEFINE a == PrefixSum(Weights(GroupAt(p, pos0.gi)), pos0.si)
           b == GroupStitchCount(GroupAt(p, pos0.gi)) * pos0.gr
           c == EntryAt(p, pos0.gi, pos0.si).count * pos0.sr
<1>8. CompletedInCurrentGroup(p, pos0) = b + a + (c + pos0.sc)
  BY <1>4, <1>5 DEF CompletedInCurrentGroup
<1>9. InRepeat(p, pos0) = a + (c + pos0.sc)
  BY DEF InRepeat, InEntry
<1>10. CompletedStitches(p, pos0) =
         PrefixSum(GroupWeights(p), pos0.gi) + CompletedInCurrentGroup(p, pos0)
  BY <1>4, <1>5 DEF CompletedStitches
<1>11. a \in Nat /\ b \in Nat /\ c \in Nat
  BY <1>6, <1>7
<1> HIDE DEF a, b, c
<1>12. b + a + (c + pos0.sc) = b + (a + (c + pos0.sc))
  BY <1>1, <1>11
<1> QED
  BY <1>8, <1>9, <1>10, <1>12 DEF b

\* All the numbers of a position within a group.
LEMMA WithinGroupNumbers ==
  ASSUME NEW p, ValidPattern(p), NEW pos0, FitsPattern(p, pos0), ~ PastEnd(p, pos0),
         ~ IsEmptyGroup(p, pos0.gi)
  PROVE  /\ pos0 \in Position /\ pos0.gi \in 0 .. Len(p) - 1
         /\ pos0.si \in 0 .. Len(EntriesAt(p, pos0.gi)) - 1
         /\ GroupAt(p, pos0.gi) \in InstructionGroup
         /\ GroupAt(p, pos0.gi).entries = EntriesAt(p, pos0.gi)
         /\ GroupAt(p, pos0.gi).repeat \in Nat /\ pos0.gr \in Nat
         /\ pos0.gr < GroupAt(p, pos0.gi).repeat
         /\ EntryAt(p, pos0.gi, pos0.si).count \in Nat
         /\ EntryAt(p, pos0.gi, pos0.si).repeat \in Nat
         /\ pos0.sr \in Nat /\ pos0.sr < EntryAt(p, pos0.gi, pos0.si).repeat
         /\ pos0.sc \in Nat /\ pos0.sc < EntryAt(p, pos0.gi, pos0.si).count
<1>1. /\ pos0 \in Position /\ Len(p) \in Nat /\ pos0.gi < Len(p)
      /\ WithinGroup(GroupAt(p, pos0.gi), pos0)
      /\ pos0.si < Len(EntriesAt(p, pos0.gi))
  BY FittingPosition
<1>2. /\ pos0.gi \in Nat /\ pos0.si \in Nat /\ pos0.gr \in Nat /\ pos0.sr \in Nat
      /\ pos0.sc \in Nat
  BY <1>1 DEF Position
<1>3. pos0.gi \in 0 .. Len(p) - 1
  BY <1>1, <1>2
<1>4. /\ GroupAt(p, pos0.gi) \in InstructionGroup
      /\ GroupAt(p, pos0.gi).entries = EntriesAt(p, pos0.gi)
      /\ GroupAt(p, pos0.gi).repeat \in Nat
      /\ Len(EntriesAt(p, pos0.gi)) \in Nat
  BY <1>3, GroupTyped, EntriesWeigh
<1>5. pos0.si \in 0 .. Len(EntriesAt(p, pos0.gi)) - 1
  BY <1>1, <1>2, <1>4
<1>6. /\ EntryAt(p, pos0.gi, pos0.si).count \in Nat
      /\ EntryAt(p, pos0.gi, pos0.si).repeat \in Nat
  BY <1>3, <1>5, EntryTyped
<1>7. /\ pos0.gr < GroupAt(p, pos0.gi).repeat
      /\ pos0.sr < EntryAt(p, pos0.gi, pos0.si).repeat
      /\ pos0.sc < EntryAt(p, pos0.gi, pos0.si).count
  BY <1>1 DEF WithinGroup, IsEmptyGroup, EntriesAt, GroupAt, EntryAt
<1> QED
  BY <1>1, <1>2, <1>3, <1>4, <1>5, <1>6, <1>7

\* A position within a group has not reached the end of its entry, of its repeat
\* of the group, of the group, and of the pattern.
LEMMA CompletedBelow ==
  ASSUME NEW p, ValidPattern(p), NEW pos0, FitsPattern(p, pos0), ~ PastEnd(p, pos0),
         ~ IsEmptyGroup(p, pos0.gi)
  PROVE  /\ InRepeat(p, pos0) \in Nat
         /\ InRepeat(p, pos0) < GroupStitchCount(GroupAt(p, pos0.gi))
         /\ GroupStitchCount(GroupAt(p, pos0.gi)) * pos0.gr + InRepeat(p, pos0) \in Nat
         /\ GroupStitchCount(GroupAt(p, pos0.gi)) * pos0.gr + InRepeat(p, pos0)
              < TotalInGroup(p, pos0.gi)
         /\ CompletedStitches(p, pos0) \in Nat
         /\ CompletedStitches(p, pos0) < StitchCount(p)
<1> DEFINE g == GroupAt(p, pos0.gi)
           entry == EntryAt(p, pos0.gi, pos0.si)
           sum(e) == PrefixSum(Weights(g), e)
           before(h) == PrefixSum(GroupWeights(p), h)
           whole == GroupStitchCount(g)
<1>1. /\ pos0 \in Position /\ pos0.gi \in 0 .. Len(p) - 1
      /\ pos0.si \in 0 .. Len(EntriesAt(p, pos0.gi)) - 1
      /\ g \in InstructionGroup /\ g.entries = EntriesAt(p, pos0.gi)
      /\ g.repeat \in Nat /\ pos0.gr \in Nat /\ pos0.gr < g.repeat
      /\ entry.count \in Nat /\ entry.repeat \in Nat
      /\ pos0.sr \in Nat /\ pos0.sr < entry.repeat
      /\ pos0.sc \in Nat /\ pos0.sc < entry.count
  BY WithinGroupNumbers
<1>2. entry = g.entries[pos0.si + 1]
  BY DEF EntryAt, GroupAt
<1>3. /\ sum(pos0.si) \in Nat /\ whole \in Nat
      /\ sum(pos0.si + 1) = sum(pos0.si) + entry.count * entry.repeat
      /\ sum(pos0.si + 1) <= whole
  <2>1. /\ Len(g.entries) \in Nat
        /\ pos0.si \in 0 .. Len(g.entries) /\ pos0.si + 1 \in 0 .. Len(g.entries)
        /\ pos0.si \in 0 .. Len(g.entries) - 1
    BY <1>1, EntriesWeigh
  <2> QED
    BY <1>1, <1>2, <2>1, EntriesWeigh
<1>4. InEntry(p, pos0) \in Nat /\ InEntry(p, pos0) < entry.count * entry.repeat
  <2>1. entry.count * pos0.sr \in Nat /\ entry.count * entry.repeat \in Nat
    BY <1>1, ProductIsNatural
  <2>2. entry.count * pos0.sr + pos0.sc < entry.count * entry.repeat
    BY <1>1, ProductBelow
  <2> QED
    BY <1>1, <2>1, <2>2 DEF InEntry
<1>5. /\ Len(p) \in Nat
      /\ before(pos0.gi) \in Nat /\ TotalInGroup(p, pos0.gi) \in Nat
      /\ before(pos0.gi + 1) = before(pos0.gi) + TotalInGroup(p, pos0.gi)
      /\ before(pos0.gi + 1) <= StitchCount(p) /\ StitchCount(p) \in Nat
  <2>1. /\ Len(p) \in Nat /\ pos0.gi \in 0 .. Len(p) /\ pos0.gi + 1 \in 0 .. Len(p)
    <3>1. Len(p) \in Nat
      BY DEF ValidPattern
    <3>2. pos0.gi \in 0 .. Len(p) - 1
      BY <1>1
    <3> QED
      BY <3>1, <3>2
  <2> QED
    BY <1>1, <2>1, GroupsWeigh
<1>6. TotalInGroup(p, pos0.gi) = whole * g.repeat
  BY DEF TotalInGroup
<1>7. /\ pos0.gi < Len(p) /\ pos0.si < Len(EntriesAt(p, pos0.gi))
  <2>1. Len(EntriesAt(p, pos0.gi)) \in Nat
    BY <1>1, EntriesWeigh
  <2> QED
    BY <1>1, <1>5, <2>1
<1>8. CompletedStitches(p, pos0) = before(pos0.gi) + (whole * pos0.gr + InRepeat(p, pos0))
  BY <1>1, <1>7, CompletedWithinGroup
<1>9. InRepeat(p, pos0) = sum(pos0.si) + InEntry(p, pos0)
  BY DEF InRepeat
<1>10. whole * pos0.gr \in Nat
  BY <1>1, <1>3, ProductIsNatural
<1> HIDE DEF g, sum, before, whole
<1>11. entry.count * entry.repeat \in Nat
  BY <1>1, ProductIsNatural
<1> DEFINE product == entry.count * entry.repeat
           x == InRepeat(p, pos0)
           y == InEntry(p, pos0)
           finished == whole * pos0.gr
           total == whole * g.repeat
<1> HIDE DEF product, x, y, entry, finished, total
<1>12. x \in Nat /\ x < whole
  <2>1. /\ y \in Nat /\ y < product /\ product \in Nat /\ x = sum(pos0.si) + y
        /\ sum(pos0.si + 1) = sum(pos0.si) + product
    BY <1>3, <1>4, <1>9, <1>11 DEF product, x, y
  <2> QED
    BY <1>3, <2>1
<1>13. finished + x < total
  BY <1>1, <1>3, <1>12, ProductBelow DEF finished, total
<1>14. finished \in Nat /\ CompletedStitches(p, pos0) = before(pos0.gi) + (finished + x)
  BY <1>8, <1>10 DEF finished, x
<1>15. TotalInGroup(p, pos0.gi) = total
  BY <1>6 DEF total
<1>16. /\ CompletedStitches(p, pos0) \in Nat
       /\ CompletedStitches(p, pos0) < StitchCount(p)
  BY <1>5, <1>12, <1>13, <1>14, <1>15
<1>17. finished + x \in Nat
  BY <1>12, <1>14
<1> QED
  BY <1>12, <1>13, <1>15, <1>16, <1>17 DEF x, finished, whole, g

-----------------------------------------------------------------------------
(***************************************************************************)
(* The bars of the groups.                                                 *)
(***************************************************************************)

\* The entries of the current group add up to what is worked of its repeat.
LEMMA WorkedInRepeat ==
  ASSUME NEW p, ValidPattern(p), NEW pos0, FitsPattern(p, pos0), ~ PastEnd(p, pos0),
         ~ IsEmptyGroup(p, pos0.gi)
  PROVE  PrefixSum(WorkedOfEntries(GroupAt(p, pos0.gi), pos0), Len(EntriesAt(p, pos0.gi)))
           = InRepeat(p, pos0)
<1> DEFINE g == GroupAt(p, pos0.gi)
           v == WorkedOfEntries(g, pos0)
           w == Weights(g)
           n == Len(EntriesAt(p, pos0.gi))
           si == pos0.si
           entry == EntryAt(p, pos0.gi, si)
<1>1. /\ si \in 0 .. n - 1
      /\ g \in InstructionGroup /\ g.entries = EntriesAt(p, pos0.gi)
      /\ entry.count \in Nat /\ pos0.sr \in Nat /\ pos0.sc \in Nat
  BY WithinGroupNumbers
<1>2. entry = g.entries[si + 1]
  BY DEF EntryAt, GroupAt
<1>3. n \in Nat /\ DOMAIN g.entries = 1 .. n
  <2>1. g.entries \in Seq(StitchEntry)
    BY <1>1 DEF InstructionGroup
  <2> QED
    BY <1>1, <2>1
<1>4. si \in Nat /\ si + 1 <= n
  BY <1>1, <1>3
<1>5. PrefixSum(w, si) \in Nat
  <2>1. si \in 0 .. Len(g.entries)
    BY <1>1, <1>3, <1>4
  <2> QED
    BY <1>1, <2>1, EntriesWeigh
<1> HIDE DEF n, si
<1>6. \A i \in 1 .. n :
        /\ i - 1 < si => v[i] = w[i]
        /\ i - 1 = si => v[i] = g.entries[i].count * pos0.sr + pos0.sc
        /\ i - 1 > si => v[i] = 0
  <2> TAKE i \in 1 .. n
  <2>1. v[i] = CASE i - 1 < si -> g.entries[i].count * g.entries[i].repeat
                 [] i - 1 = si -> g.entries[i].count * pos0.sr + pos0.sc
                 [] i - 1 > si -> 0
    BY <1>3 DEF WorkedOfEntries, si
  <2>2. w[i] = g.entries[i].count * g.entries[i].repeat
    BY <1>3 DEF Weights
  <2>3. CASE i - 1 < si
    BY <1>4, <2>1, <2>2, <2>3
  <2>4. CASE i - 1 = si
    BY <1>4, <2>1, <2>4
  <2>5. CASE i - 1 > si
    BY <1>4, <2>1, <2>5
  <2> QED
    BY <1>4, <2>3, <2>4, <2>5
<1> HIDE DEF v, w
<1>7. PrefixSum(v, si) = PrefixSum(w, si)
  <2>1. \A i \in 1 .. si : v[i] = w[i]
    BY <1>3, <1>4, <1>6
  <2> QED
    BY <1>4, <2>1, SumOfSame
<1>8. v[si + 1] = InEntry(p, pos0)
  <2>1. si + 1 \in 1 .. n /\ (si + 1) - 1 = si
    BY <1>3, <1>4
  <2>2. v[si + 1] = g.entries[si + 1].count * pos0.sr + pos0.sc
    BY <1>6, <2>1
  <2> QED
    BY <1>2, <2>2 DEF InEntry, si
<1>9. PrefixSum(v, si + 1) = InRepeat(p, pos0)
  <2>1. PrefixSum(v, si + 1) = PrefixSum(v, si) + v[si + 1]
    BY <1>4, PrefixSumSteps
  <2> QED
    BY <1>7, <1>8, <2>1 DEF InRepeat, w, g, si
<1>10. \A i \in (si + 1) + 1 .. n : v[i] = 0
  BY <1>3, <1>4, <1>6
<1>11. InRepeat(p, pos0) \in Nat
  BY CompletedBelow
<1>12. PrefixSum(v, n) = PrefixSum(v, si + 1)
  <2>1. si + 1 \in Nat
    BY <1>4
  <2> QED
    BY <1>3, <1>4, <1>9, <1>10, <1>11, <2>1, SumOfZeros
<1> QED
  BY <1>9, <1>12 DEF v, g, n

\* The current bar shows what is worked of the group, and does not overflow.
LEMMA CurrentBar ==
  ASSUME NEW p, ValidPattern(p), NEW pos0, FitsPattern(p, pos0), ~ PastEnd(p, pos0)
  PROVE  /\ CompletedInGroup(p, pos0, pos0.gi) \in 0 .. TotalInGroup(p, pos0.gi)
         /\ CompletedStitches(p, pos0) =
              PrefixSum(GroupWeights(p), pos0.gi) + CompletedInGroup(p, pos0, pos0.gi)
<1> DEFINE g == GroupAt(p, pos0.gi)
           bar == GroupStitchCount(g) * pos0.gr
                    + PrefixSum(WorkedOfEntries(g, pos0), Len(EntriesAt(p, pos0.gi)))
<1>1. /\ pos0 \in Position /\ Len(p) \in Nat /\ pos0.gi < Len(p)
      /\ WithinGroup(g, pos0) /\ pos0.gi \in Nat /\ pos0.gi \in 0 .. Len(p) - 1
  <2>1. /\ pos0 \in Position /\ Len(p) \in Nat /\ pos0.gi < Len(p) /\ WithinGroup(g, pos0)
    BY FittingPosition
  <2> QED
    BY <2>1 DEF Position
<1>2. CompletedInGroup(p, pos0, pos0.gi) = bar
  BY <1>1 DEF CompletedInGroup, GroupStatus
<1>3. /\ PrefixSum(GroupWeights(p), pos0.gi) \in Nat /\ TotalInGroup(p, pos0.gi) \in Nat
      /\ g \in InstructionGroup
  <2>1. pos0.gi \in 0 .. Len(p)
    BY <1>1
  <2> QED
    BY <1>1, <2>1, GroupsWeigh, GroupTyped
<1>4. CASE IsEmptyGroup(p, pos0.gi)
  <2>1. pos0 = AtGroup(pos0.gi)
    BY <1>1, <1>4 DEF WithinGroup, IsEmptyGroup, EntriesAt, GroupAt, Position
  <2>2. pos0.gr = 0
    BY <1>1, <2>1, AtGroupIsPosition
  <2>3. /\ PrefixSum(WorkedOfEntries(g, pos0), 0) = 0
        /\ GroupStitchCount(g) \in Nat /\ Len(EntriesAt(p, pos0.gi)) = 0
    BY <1>3, <1>4, PrefixSumSteps, EntriesWeigh DEF IsEmptyGroup
  <2>4. bar = 0
    BY <2>2, <2>3, ProductSteps
  <2>5. CompletedStitches(p, pos0) = PrefixSum(GroupWeights(p), pos0.gi)
    <3>1. pos0.gi \in 0 .. Len(p)
      BY <1>1
    <3> QED
      BY <2>1, <3>1, CompletedAtGroupStart
  <2> QED
    BY <1>2, <1>3, <2>4, <2>5
<1>5. CASE ~ IsEmptyGroup(p, pos0.gi)
  <2>1. bar = GroupStitchCount(g) * pos0.gr + InRepeat(p, pos0)
    BY <1>5, WorkedInRepeat
  <2>2. /\ GroupStitchCount(g) * pos0.gr + InRepeat(p, pos0) \in Nat
        /\ GroupStitchCount(g) * pos0.gr + InRepeat(p, pos0) < TotalInGroup(p, pos0.gi)
    BY <1>5, CompletedBelow
  <2>3. pos0.si < Len(EntriesAt(p, pos0.gi))
    BY <1>5, FittingPosition
  <2>4. CompletedStitches(p, pos0) =
          PrefixSum(GroupWeights(p), pos0.gi)
            + (GroupStitchCount(g) * pos0.gr + InRepeat(p, pos0))
    BY <1>1, <2>3, CompletedWithinGroup
  <2>5. bar \in 0 .. TotalInGroup(p, pos0.gi)
    BY <1>3, <2>1, <2>2
  <2> QED
    BY <1>2, <2>1, <2>4, <2>5
<1> QED
  BY <1>4, <1>5

\* The bars before the current one are full, and those after it are empty.
LEMMA OtherBars ==
  ASSUME NEW p, NEW pos0, pos0.gi \in Nat, NEW g \in Nat
  PROVE  /\ g < pos0.gi => CompletedInGroup(p, pos0, g) = TotalInGroup(p, g)
         /\ g > pos0.gi => CompletedInGroup(p, pos0, g) = 0
<1>1. /\ g < pos0.gi => GroupStatus(p, pos0, g) = "completed"
      /\ g > pos0.gi => GroupStatus(p, pos0, g) = "upcoming"
  BY DEF GroupStatus
<1>2. GroupStatus(p, pos0, g) = "completed" => CompletedInGroup(p, pos0, g) = TotalInGroup(p, g)
  BY DEF CompletedInGroup
<1>3. GroupStatus(p, pos0, g) = "upcoming" => CompletedInGroup(p, pos0, g) = 0
  BY DEF CompletedInGroup
<1> QED
  BY <1>1, <1>2, <1>3

\* All bars together.
LEMMA BarsAddUp ==
  ASSUME NEW p, ValidPattern(p), NEW pos0, FitsPattern(p, pos0),
         NEW bars, bars = [i \in DOMAIN p |-> CompletedInGroup(p, pos0, i - 1)]
  PROVE  /\ PrefixSum(bars, Len(p)) = CompletedStitches(p, pos0)
         /\ \A i \in DOMAIN p : bars[i] \in 0 .. TotalInGroup(p, i - 1)
<1>1. PICK n \in Nat : n = Len(p) /\ DOMAIN p = 1 .. n
  BY DEF ValidPattern
<1>2. pos0 \in Position /\ pos0.gi \in Nat /\ (pos0.gi <= n)
  <2>1. pos0 \in Position /\ pos0.gi \in Nat
    BY DEF FitsPattern, Position
  <2>2. pos0 = AtGroup(n) => pos0.gi = n
    BY <1>1, AtGroupIsPosition
  <2> QED
    BY <1>1, <2>1, <2>2 DEF FitsPattern
<1>3. \A g \in 0 .. n - 1 : /\ GroupWeights(p)[g + 1] = TotalInGroup(p, g)
                            /\ TotalInGroup(p, g) \in Nat
  BY <1>1, GroupsWeigh
<1>4. \A i \in 1 .. n : /\ GroupWeights(p)[i] = TotalInGroup(p, i - 1)
                        /\ TotalInGroup(p, i - 1) \in Nat
  <2> TAKE i \in 1 .. n
  <2>1. i - 1 \in 0 .. n - 1 /\ (i - 1) + 1 = i
    OBVIOUS
  <2> QED
    BY <1>3, <2>1
<1>5. \A i \in 1 .. n :
        /\ i - 1 < pos0.gi => bars[i] = TotalInGroup(p, i - 1)
        /\ i - 1 = pos0.gi => bars[i] = CompletedInGroup(p, pos0, pos0.gi)
        /\ i - 1 > pos0.gi => bars[i] = 0
  <2> TAKE i \in 1 .. n
  <2>1. bars[i] = CompletedInGroup(p, pos0, i - 1)
    BY <1>1
  <2>2. i - 1 \in Nat
    OBVIOUS
  <2>3. /\ i - 1 < pos0.gi => bars[i] = TotalInGroup(p, i - 1)
        /\ i - 1 > pos0.gi => bars[i] = 0
    BY <1>2, <2>1, <2>2, OtherBars
  <2>4. i - 1 = pos0.gi => bars[i] = CompletedInGroup(p, pos0, pos0.gi)
    BY <2>1
  <2> QED
    BY <2>3, <2>4
<1>6. PrefixSum(bars, pos0.gi) = PrefixSum(GroupWeights(p), pos0.gi)
  <2>1. \A i \in 1 .. pos0.gi : bars[i] = GroupWeights(p)[i]
    BY <1>1, <1>2, <1>4, <1>5
  <2> QED
    BY <1>2, <2>1, SumOfSame
<1>7. PrefixSum(GroupWeights(p), pos0.gi) \in Nat
  <2>1. pos0.gi \in 0 .. Len(p)
    BY <1>1, <1>2
  <2> QED
    BY <2>1, GroupsWeigh
<1>8. CASE PastEnd(p, pos0)
  <2>1. pos0.gi = n
    BY <1>1, <1>2, <1>8 DEF PastEnd
  <2>2. AtMost(pos0.gi, Len(p)) = n
    BY <1>1, <2>1 DEF AtMost
  <2>3. CompletedStitches(p, pos0) = PrefixSum(GroupWeights(p), n)
    BY <1>7, <1>8, <2>1, <2>2 DEF CompletedStitches
  <2>4. PrefixSum(bars, Len(p)) = CompletedStitches(p, pos0)
    BY <1>1, <1>6, <2>1, <2>3
  <2>5. \A i \in 1 .. n : bars[i] \in 0 .. TotalInGroup(p, i - 1)
    BY <1>4, <1>5, <2>1
  <2> QED
    BY <1>1, <2>4, <2>5
<1>9. CASE ~ PastEnd(p, pos0)
  <2> DEFINE bar == CompletedInGroup(p, pos0, pos0.gi)
  <2> HIDE DEF bar
  <2>1. pos0.gi < n
    BY <1>1, <1>2, <1>9 DEF PastEnd
  <2>2. /\ bar \in 0 .. TotalInGroup(p, pos0.gi)
        /\ CompletedStitches(p, pos0) = PrefixSum(GroupWeights(p), pos0.gi) + bar
    BY <1>9, CurrentBar DEF bar
  <2>3. TotalInGroup(p, pos0.gi) \in Nat
    BY <1>2, <1>3, <2>1
  <2>4. bars[pos0.gi + 1] = bar
    <3>1. pos0.gi + 1 \in 1 .. n /\ (pos0.gi + 1) - 1 = pos0.gi
      BY <1>2, <2>1
    <3> QED
      BY <1>5, <3>1 DEF bar
  <2>5. PrefixSum(bars, pos0.gi + 1) = CompletedStitches(p, pos0)
    <3>1. PrefixSum(bars, pos0.gi + 1) = PrefixSum(bars, pos0.gi) + bars[pos0.gi + 1]
      BY <1>2, PrefixSumSteps
    <3> QED
      BY <1>6, <2>2, <2>4, <3>1
  <2>6. CompletedStitches(p, pos0) \in Nat
    BY <1>7, <2>2, <2>3
  <2>7. \A i \in (pos0.gi + 1) + 1 .. n : bars[i] = 0
    BY <1>2, <1>5
  <2>8. PrefixSum(bars, n) = PrefixSum(bars, pos0.gi + 1)
    <3>1. pos0.gi + 1 \in Nat /\ pos0.gi + 1 <= n
      BY <1>2, <2>1
    <3> QED
      BY <2>5, <2>6, <2>7, <3>1, SumOfZeros
  <2>9. \A i \in 1 .. n : bars[i] \in 0 .. TotalInGroup(p, i - 1)
    <3> TAKE i \in 1 .. n
    <3>1. CASE i - 1 = pos0.gi
      BY <1>5, <2>2, <3>1 DEF bar
    <3>2. CASE i - 1 # pos0.gi
      <4>1. TotalInGroup(p, i - 1) \in Nat
        BY <1>4
      <4>2. i - 1 < pos0.gi \/ i - 1 > pos0.gi
        BY <1>2, <3>2
      <4>3. bars[i] = TotalInGroup(p, i - 1) \/ bars[i] = 0
        BY <1>5, <4>2
      <4> QED
        BY <4>1, <4>3
    <3> QED
      BY <3>1, <3>2
  <2> QED
    BY <1>1, <2>5, <2>8, <2>9
<1> QED
  BY <1>8, <1>9

-----------------------------------------------------------------------------
(***************************************************************************)
(* Next moves by one stitch.                                               *)
(***************************************************************************)

\* The counters of a position are its arguments.
LEMMA AtCounters ==
  ASSUME NEW g, NEW r, NEW e, NEW er, NEW c
  PROVE  LET q == At(g, r, e, er, c)
         IN  q.gi = g /\ q.gr = r /\ q.si = e /\ q.sr = er /\ q.sc = c
BY DEF At

\* advanceGroup skips the groups without entries.
LEMMA AdvanceGroupSkips ==
  ASSUME NEW p, ValidPattern(p), NEW pos0, pos0.gi \in 0 .. Len(p) - 1
  PROVE  \E h \in pos0.gi + 1 .. Len(p) :
           /\ AdvanceGroup(p, pos0) = AtGroup(h)
           /\ \A i \in pos0.gi + 1 .. h - 1 : IsEmptyGroup(p, i)
           /\ h < Len(p) => ~ IsEmptyGroup(p, h)
           /\ NonEmptyFrom(p, pos0.gi + 1) = {} => h = Len(p)
           /\ NonEmptyFrom(p, pos0.gi + 1) # {} =>
                h < Len(p) /\ h = Min(NonEmptyFrom(p, pos0.gi + 1))
<1> DEFINE later == NonEmptyFrom(p, pos0.gi + 1)
<1>1. pos0.gi \in Nat /\ Len(p) \in Nat /\ pos0.gi + 1 <= Len(p)
  BY DEF ValidPattern
<1>2. CASE later = {}
  <2>1. AdvanceGroup(p, pos0) = AtGroup(Len(p))
    BY <1>2 DEF AdvanceGroup
  <2>2. \A i \in pos0.gi + 1 .. Len(p) - 1 : IsEmptyGroup(p, i)
    BY <1>2 DEF NonEmptyFrom
  <2>3. Len(p) \in pos0.gi + 1 .. Len(p)
    BY <1>1
  <2> QED
    BY <1>1, <1>2, <2>1, <2>2, <2>3
<1>3. CASE later # {}
  <2>1. later \in SUBSET Nat
    BY <1>1 DEF NonEmptyFrom
  <2>2. Min(later) \in later /\ \A y \in later : Min(later) <= y
    BY <1>3, <2>1, MinOfNaturals
  <2>3. Min(later) \in pos0.gi + 1 .. Len(p) - 1 /\ ~ IsEmptyGroup(p, Min(later))
    BY <2>2 DEF NonEmptyFrom
  <2>4. AdvanceGroup(p, pos0) = AtGroup(Min(later))
    BY <1>3 DEF AdvanceGroup
  <2>5. ASSUME NEW i \in pos0.gi + 1 .. Min(later) - 1 PROVE IsEmptyGroup(p, i)
    <3>1. i \in pos0.gi + 1 .. Len(p) - 1 /\ ~ (Min(later) <= i)
      BY <1>1, <2>3
    <3>2. i \notin later
      BY <2>2, <3>1
    <3> QED
      BY <3>1, <3>2 DEF NonEmptyFrom
  <2>6. Min(later) \in pos0.gi + 1 .. Len(p) /\ Min(later) < Len(p)
    BY <1>1, <2>3
  <2> QED
    BY <1>3, <2>3, <2>4, <2>5, <2>6
<1> QED
  BY <1>2, <1>3

\* How Next moves from pos0, at a stitch, to q: within a group, or out of it.
MovesForward(p, pos0, q) ==
  LET entry == EntryAt(p, pos0.gi, pos0.si)
      n == Len(EntriesAt(p, pos0.gi))
      repeat == GroupAt(p, pos0.gi).repeat
  IN  \/ /\ pos0.sc + 1 < entry.count
         /\ q = At(pos0.gi, pos0.gr, pos0.si, pos0.sr, pos0.sc + 1)
      \/ /\ pos0.sc + 1 = entry.count /\ pos0.sr + 1 < entry.repeat
         /\ q = At(pos0.gi, pos0.gr, pos0.si, pos0.sr + 1, 0)
      \/ /\ pos0.sc + 1 = entry.count /\ pos0.sr + 1 = entry.repeat
         /\ pos0.si + 1 < n
         /\ q = At(pos0.gi, pos0.gr, pos0.si + 1, 0, 0)
      \/ /\ pos0.sc + 1 = entry.count /\ pos0.sr + 1 = entry.repeat
         /\ pos0.si + 1 = n /\ pos0.gr + 1 < repeat
         /\ q = At(pos0.gi, pos0.gr + 1, 0, 0, 0)
      \/ /\ pos0.sc + 1 = entry.count /\ pos0.sr + 1 = entry.repeat
         /\ pos0.si + 1 = n /\ pos0.gr + 1 = repeat
         /\ q = AdvanceGroup(p, pos0)

\* These are the moves.
LEMMA ForwardMoves ==
  ASSUME NEW p, ValidPattern(p), NEW pos0, FitsPattern(p, pos0), ~ PastEnd(p, pos0),
         ~ IsEmptyGroup(p, pos0.gi)
  PROVE  MovesForward(p, pos0, NavigateForward(p, pos0))
<1> DEFINE entry == EntryAt(p, pos0.gi, pos0.si)
           g == GroupAt(p, pos0.gi)
           n == Len(EntriesAt(p, pos0.gi))
<1>1. /\ pos0 \in Position /\ pos0.gi \in 0 .. Len(p) - 1
      /\ pos0.si \in 0 .. n - 1
      /\ g \in InstructionGroup /\ g.entries = EntriesAt(p, pos0.gi)
      /\ g.repeat \in Nat /\ pos0.gr \in Nat /\ pos0.gr < g.repeat
      /\ entry.count \in Nat /\ entry.repeat \in Nat
      /\ pos0.sr \in Nat /\ pos0.sr < entry.repeat
      /\ pos0.sc \in Nat /\ pos0.sc < entry.count
  BY WithinGroupNumbers
<1>2. n \in Nat /\ pos0.si \in Nat /\ pos0.si < n
  <2>1. n \in Nat
    BY <1>1, EntriesWeigh
  <2> QED
    BY <1>1, <2>1
<1>3. NavigateForward(p, pos0) = AdvanceInGroup(p, pos0)
  <2>1. ~ (pos0.si >= Len(EntriesAt(p, pos0.gi)))
    BY <1>2
  <2> QED
    BY <2>1 DEF NavigateForward
<1> SUFFICES MovesForward(p, pos0, AdvanceInGroup(p, pos0))
  BY <1>3
<1> HIDE DEF entry, g, n
<1>4. CASE pos0.sc + 1 < entry.count
  BY <1>1, <1>4 DEF MovesForward, AdvanceInGroup, entry
<1>5. CASE pos0.sc + 1 = entry.count /\ pos0.sr + 1 < entry.repeat
  <2>1. /\ ~ (pos0.sc + 1 < entry.count) /\ pos0.sc + 1 >= entry.count
        /\ ~ (pos0.sr + 1 >= entry.repeat)
    BY <1>1, <1>5
  <2> QED
    BY <1>5, <2>1 DEF MovesForward, AdvanceInGroup, entry
<1>6. CASE /\ pos0.sc + 1 = entry.count /\ pos0.sr + 1 = entry.repeat
           /\ pos0.si + 1 < n
  <2>1. /\ ~ (pos0.sc + 1 < entry.count) /\ pos0.sc + 1 >= entry.count
        /\ ~ (pos0.sr + 1 < entry.repeat) /\ pos0.sr + 1 >= entry.repeat
    BY <1>1, <1>6
  <2> QED
    BY <1>6, <2>1 DEF MovesForward, AdvanceInGroup, entry, n
<1>7. CASE /\ pos0.sc + 1 = entry.count /\ pos0.sr + 1 = entry.repeat
           /\ pos0.si + 1 = n
  <2>1. /\ ~ (pos0.sc + 1 < entry.count) /\ pos0.sc + 1 >= entry.count
        /\ ~ (pos0.sr + 1 < entry.repeat) /\ pos0.sr + 1 >= entry.repeat
        /\ ~ (pos0.si + 1 < n)
    BY <1>1, <1>2, <1>7
  <2>2. AdvanceInGroup(p, pos0) = AdvanceGroupRepeat(p, pos0)
    BY <2>1 DEF AdvanceInGroup, entry, n
  <2>3. CASE pos0.gr + 1 < g.repeat
    BY <1>7, <2>2, <2>3 DEF MovesForward, AdvanceGroupRepeat, entry, n, g
  <2>4. CASE pos0.gr + 1 = g.repeat
    <3>1. ~ (pos0.gr + 1 < g.repeat)
      BY <1>1, <2>4
    <3>2. AdvanceGroupRepeat(p, pos0) = AdvanceGroup(p, pos0)
      BY <3>1 DEF AdvanceGroupRepeat, g
    <3> QED
      BY <1>7, <2>2, <2>4, <3>2 DEF MovesForward, entry, n, g
  <2> QED
    BY <1>1, <2>3, <2>4
<1> QED
  BY <1>1, <1>2, <1>4, <1>5, <1>6, <1>7

\* Next at a stitch works one, and leads to a stitch or past the end.
LEMMA ForwardCounts ==
  ASSUME NEW p, ValidPattern(p), NEW pos0, FitsPattern(p, pos0), ~ PastEnd(p, pos0),
         ~ IsEmptyGroup(p, pos0.gi)
  PROVE  LET q == NavigateForward(p, pos0)
         IN  /\ CompletedStitches(p, q) = CompletedStitches(p, pos0) + 1
             /\ PastEnd(p, q) \/ ~ IsEmptyGroup(p, q.gi)
<1> DEFINE entry == EntryAt(p, pos0.gi, pos0.si)
           g == GroupAt(p, pos0.gi)
           n == Len(EntriesAt(p, pos0.gi))
           q == NavigateForward(p, pos0)
           sum(e) == PrefixSum(Weights(g), e)
           before(h) == PrefixSum(GroupWeights(p), h)
           whole == GroupStitchCount(g)
<1>1. /\ pos0 \in Position /\ pos0.gi \in 0 .. Len(p) - 1 /\ pos0.si \in 0 .. n - 1
      /\ g \in InstructionGroup /\ g.entries = EntriesAt(p, pos0.gi)
      /\ g.repeat \in Nat /\ pos0.gr \in Nat
      /\ entry.count \in Nat /\ entry.repeat \in Nat
      /\ pos0.sr \in Nat /\ pos0.sc \in Nat
  BY WithinGroupNumbers
<1>2. entry = g.entries[pos0.si + 1]
  BY DEF EntryAt, GroupAt
<1>3. /\ n \in Nat /\ sum(0) = 0 /\ sum(n) = whole /\ whole \in Nat
      /\ sum(pos0.si) \in Nat
      /\ sum(pos0.si + 1) = sum(pos0.si) + entry.count * entry.repeat
      /\ pos0.si \in Nat /\ pos0.si < n
  <2>1. n = Len(g.entries) /\ Len(g.entries) \in Nat
    BY <1>1, EntriesWeigh
  <2>2. /\ pos0.si \in 0 .. Len(g.entries) /\ pos0.si \in 0 .. Len(g.entries) - 1
        /\ pos0.si \in Nat /\ pos0.si < n
    BY <1>1, <2>1
  <2> QED
    BY <1>1, <1>2, <2>1, <2>2, EntriesWeigh
<1>4. /\ Len(p) \in Nat /\ pos0.gi \in Nat /\ pos0.gi < Len(p)
      /\ before(pos0.gi) \in Nat
      /\ before(pos0.gi + 1) = before(pos0.gi) + whole * g.repeat
  <2>1. Len(p) \in Nat
    BY GroupsWeigh
  <2>2. pos0.gi \in 0 .. Len(p) /\ pos0.gi \in Nat /\ pos0.gi < Len(p)
    BY <1>1, <2>1
  <2> QED
    BY <1>1, <2>1, <2>2, GroupsWeigh DEF TotalInGroup
<1>5. CompletedStitches(p, pos0) =
        before(pos0.gi) + (whole * pos0.gr + (sum(pos0.si) + (entry.count * pos0.sr + pos0.sc)))
  BY <1>1, <1>3, <1>4, CompletedWithinGroup DEF InRepeat, InEntry
<1>6. ASSUME NEW r \in Nat, NEW e \in 0 .. n - 1, NEW er \in Nat, NEW c \in Nat,
             q = At(pos0.gi, r, e, er, c)
      PROVE  /\ CompletedStitches(p, q) =
                  before(pos0.gi)
                    + (whole * r + (sum(e) + (EntryAt(p, pos0.gi, e).count * er + c)))
             /\ ~ IsEmptyGroup(p, q.gi)
             /\ EntryAt(p, pos0.gi, e).count \in Nat
  <2>1. q.gi = pos0.gi /\ q.gr = r /\ q.si = e /\ q.sr = er /\ q.sc = c
    BY <1>6, AtCounters
  <2>2. e \in Nat /\ e < n
    BY <1>3
  <2>3. q \in Position
    BY <1>4, <1>6, <2>2, AtTyped
  <2>4. EntryAt(p, pos0.gi, e).count \in Nat
    BY <1>1, EntryTyped
  <2> HIDE DEF q
  <2>5. CompletedStitches(p, q) =
          PrefixSum(GroupWeights(p), q.gi)
             + (GroupStitchCount(GroupAt(p, q.gi)) * q.gr + InRepeat(p, q))
    BY <1>4, <2>1, <2>2, <2>3, CompletedWithinGroup
  <2> QED
    BY <2>1, <2>4, <2>5 DEF InRepeat, InEntry
<1> HIDE DEF entry, g, n, q, sum, before, whole
<1>7. /\ whole * pos0.gr \in Nat /\ entry.count * pos0.sr \in Nat
      /\ entry.count * entry.repeat \in Nat
  BY <1>1, <1>3, ProductIsNatural
<1> DEFINE b == before(pos0.gi)
           f == whole * pos0.gr
           s == sum(pos0.si)
           w == entry.count * pos0.sr
           all == entry.count * entry.repeat
<1> HIDE DEF b, f, s, w, all
<1>8. /\ b \in Nat /\ f \in Nat /\ s \in Nat /\ w \in Nat /\ all \in Nat
      /\ whole \in Nat /\ pos0.sc \in Nat
      /\ CompletedStitches(p, pos0) = b + (f + (s + (w + pos0.sc)))
  BY <1>1, <1>3, <1>4, <1>5, <1>7 DEF b, f, s, w, all
<1>9. pos0.sr + 1 = entry.repeat => all = w + entry.count
  <2>1. entry.count * (pos0.sr + 1) = w + entry.count
    BY <1>1, ProductSteps DEF w
  <2> QED
    BY <2>1 DEF all
<1>10. sum(pos0.si + 1) = s + all
  BY <1>3 DEF s, all
<1> SUFFICES /\ CompletedStitches(p, q) = CompletedStitches(p, pos0) + 1
             /\ PastEnd(p, q) \/ ~ IsEmptyGroup(p, q.gi)
  BY DEF q
<1>11. CASE /\ pos0.sc + 1 < entry.count
            /\ q = At(pos0.gi, pos0.gr, pos0.si, pos0.sr, pos0.sc + 1)
  <2>1. /\ CompletedStitches(p, q) = b + (f + (s + (w + (pos0.sc + 1))))
        /\ ~ IsEmptyGroup(p, q.gi)
    BY <1>1, <1>6, <1>11 DEF entry, b, f, s, w
  <2> QED
    BY <1>8, <2>1
<1>12. CASE /\ pos0.sc + 1 = entry.count /\ pos0.sr + 1 < entry.repeat
            /\ q = At(pos0.gi, pos0.gr, pos0.si, pos0.sr + 1, 0)
  <2>1. /\ CompletedStitches(p, q) = b + (f + (s + (entry.count * (pos0.sr + 1) + 0)))
        /\ ~ IsEmptyGroup(p, q.gi)
    BY <1>1, <1>6, <1>12 DEF entry, b, f, s
  <2>2. entry.count * (pos0.sr + 1) = w + entry.count
    BY <1>1, ProductSteps DEF w
  <2>3. CompletedStitches(p, q) = b + (f + (s + ((w + (pos0.sc + 1)) + 0)))
    BY <1>12, <2>1, <2>2
  <2> QED
    BY <1>8, <2>1, <2>3
<1>13. CASE /\ pos0.sc + 1 = entry.count /\ pos0.sr + 1 = entry.repeat
            /\ pos0.si + 1 < n
            /\ q = At(pos0.gi, pos0.gr, pos0.si + 1, 0, 0)
  <2> DEFINE c == EntryAt(p, pos0.gi, pos0.si + 1).count
  <2>1. /\ CompletedStitches(p, q) = b + (f + (sum(pos0.si + 1) + (c * 0 + 0)))
        /\ ~ IsEmptyGroup(p, q.gi) /\ c \in Nat
    <3>1. pos0.si + 1 \in 0 .. n - 1
      BY <1>3, <1>13
    <3> QED
      BY <1>1, <1>6, <1>13, <3>1 DEF b, f
  <2>2. c * 0 = 0
    BY <2>1, ProductSteps
  <2>3. CompletedStitches(p, q) = b + (f + ((s + (w + (pos0.sc + 1))) + (0 + 0)))
    BY <1>9, <1>10, <1>13, <2>1, <2>2
  <2> QED
    BY <1>8, <2>1, <2>3
<1>14. CASE /\ pos0.sc + 1 = entry.count /\ pos0.sr + 1 = entry.repeat
            /\ pos0.si + 1 = n /\ pos0.gr + 1 < g.repeat
            /\ q = At(pos0.gi, pos0.gr + 1, 0, 0, 0)
  <2> DEFINE c == EntryAt(p, pos0.gi, 0).count
  <2>1. /\ CompletedStitches(p, q) = b + (whole * (pos0.gr + 1) + (0 + (c * 0 + 0)))
        /\ ~ IsEmptyGroup(p, q.gi) /\ c \in Nat
    <3>1. 0 \in 0 .. n - 1 /\ pos0.gr + 1 \in Nat
      BY <1>1, <1>3
    <3> QED
      BY <1>3, <1>6, <1>14, <3>1 DEF b
  <2>2. c * 0 = 0 /\ whole * (pos0.gr + 1) = f + whole
    BY <1>1, <1>3, <2>1, ProductSteps DEF f
  <2>3. whole = s + (w + (pos0.sc + 1))
    BY <1>3, <1>9, <1>10, <1>14
  <2>4. CompletedStitches(p, q) = b + ((f + whole) + (0 + (0 + 0)))
    BY <2>1, <2>2
  <2> QED
    BY <1>8, <2>1, <2>3, <2>4
<1>15. CASE /\ pos0.sc + 1 = entry.count /\ pos0.sr + 1 = entry.repeat
            /\ pos0.si + 1 = n /\ pos0.gr + 1 = g.repeat
            /\ q = AdvanceGroup(p, pos0)
  <2>1. PICK h \in pos0.gi + 1 .. Len(p) :
          /\ q = AtGroup(h)
          /\ \A i \in pos0.gi + 1 .. h - 1 : IsEmptyGroup(p, i)
          /\ h < Len(p) => ~ IsEmptyGroup(p, h)
    BY <1>1, <1>15, AdvanceGroupSkips
  <2>2. h \in Nat /\ h \in 0 .. Len(p) /\ pos0.gi + 1 \in 0 .. Len(p)
    BY <1>4
  <2>3. CompletedStitches(p, q) = before(h)
    BY <2>1, <2>2, CompletedAtGroupStart DEF before
  <2>4. before(h) = before(pos0.gi + 1)
    BY <2>1, <2>2, EmptyGroupsWeighNothing DEF before
  <2>5. q.gi = h
    BY <2>1, <2>2, AtGroupIsPosition
  <2>6. PastEnd(p, q) \/ ~ IsEmptyGroup(p, q.gi)
    BY <1>4, <2>1, <2>2, <2>5 DEF PastEnd
  <2>7. whole * (pos0.gr + 1) = f + whole
    BY <1>1, <1>3, ProductSteps DEF f
  <2>8. whole = s + (w + (pos0.sc + 1))
    BY <1>3, <1>9, <1>10, <1>15
  <2>9. CompletedStitches(p, q) = b + (f + whole)
    BY <1>4, <1>15, <2>3, <2>4, <2>7 DEF b
  <2>10. CompletedStitches(p, q) = b + (f + (s + (w + (pos0.sc + 1))))
    BY <2>8, <2>9
  <2>11. CompletedStitches(p, q) = CompletedStitches(p, pos0) + 1
    BY <1>8, <2>10
  <2> QED
    BY <2>6, <2>11
<1> QED
  BY <1>11, <1>12, <1>13, <1>14, <1>15, ForwardMoves DEF MovesForward, entry, g, n, q

-----------------------------------------------------------------------------
(***************************************************************************)
(* Back undoes Next.                                                       *)
(***************************************************************************)

\* A position is made of its counters.
LEMMA PositionIsAt ==
  ASSUME NEW q \in Position
  PROVE  q = At(q.gi, q.gr, q.si, q.sr, q.sc)
BY DEF Position, At

\* The moves backward at a stitch, when there is one to go back to.
LEMMA BackwardMoves ==
  ASSUME NEW p, ValidPattern(p), NEW pos0, FitsPattern(p, pos0), ~ PastEnd(p, pos0),
         ~ IsEmptyGroup(p, pos0.gi), RetreatReported(p, pos0)
  PROVE  LET q == NavigateBackward(p, pos0)
             E == EntriesAt(p, pos0.gi)
         IN  \/ pos0.sc > 0 /\ q = At(pos0.gi, pos0.gr, pos0.si, pos0.sr, pos0.sc - 1)
             \/ /\ pos0.sc = 0 /\ pos0.sr > 0
                /\ q = At(pos0.gi, pos0.gr, pos0.si, pos0.sr - 1,
                          EntryAt(p, pos0.gi, pos0.si).count - 1)
             \/ /\ pos0.sc = 0 /\ pos0.sr = 0 /\ pos0.si > 0
                /\ q = EndOfEntry(p, pos0.gi, pos0.gr, pos0.si - 1)
             \/ /\ pos0.sc = 0 /\ pos0.sr = 0 /\ pos0.si = 0 /\ pos0.gr > 0
                /\ q = EndOfEntry(p, pos0.gi, pos0.gr - 1, Len(E) - 1)
             \/ /\ pos0 = AtGroup(pos0.gi)
                /\ \E g \in 0 .. pos0.gi - 1 :
                     /\ g = Max(NonEmptyBefore(p, pos0.gi))
                     /\ ~ IsEmptyGroup(p, g)
                     /\ \A i \in g + 1 .. pos0.gi - 1 : IsEmptyGroup(p, i)
                     /\ q = EndOfEntry(p, g, GroupAt(p, g).repeat - 1, Len(EntriesAt(p, g)) - 1)
<1> DEFINE earlier == NonEmptyBefore(p, pos0.gi)
<1>1. /\ pos0 \in Position /\ Len(p) \in Nat /\ pos0.gi < Len(p)
      /\ pos0.gi \in Nat /\ pos0.gr \in Nat /\ pos0.si \in Nat /\ pos0.sr \in Nat
      /\ pos0.sc \in Nat
  <2>1. pos0 \in Position /\ Len(p) \in Nat /\ pos0.gi < Len(p)
    BY FittingPosition
  <2> QED
    BY <2>1 DEF Position
<1>2. CASE pos0.sc > 0
  BY <1>1, <1>2 DEF NavigateBackward
<1>3. CASE pos0.sc = 0 /\ pos0.sr > 0
  BY <1>1, <1>3 DEF NavigateBackward
<1>4. CASE pos0.sc = 0 /\ pos0.sr = 0 /\ pos0.si > 0
  BY <1>1, <1>4 DEF NavigateBackward
<1>5. CASE pos0.sc = 0 /\ pos0.sr = 0 /\ pos0.si = 0 /\ pos0.gr > 0
  BY <1>1, <1>5 DEF NavigateBackward, EndOfGroupRepeat
<1>6. CASE pos0.sc = 0 /\ pos0.sr = 0 /\ pos0.si = 0 /\ pos0.gr = 0
  <2>1. NavigateBackward(p, pos0) = RetreatToPreviousGroup(p, pos0)
    BY <1>1, <1>6 DEF NavigateBackward
  <2>2. earlier # {}
    BY <1>1, <1>6 DEF RetreatReported
  <2>3. earlier \in SUBSET (0 .. pos0.gi)
    BY <1>1 DEF NonEmptyBefore
  <2>4. Max(earlier) \in earlier /\ \A y \in earlier : Max(earlier) >= y
    BY <1>1, <2>2, <2>3, MaxOfNaturals
  <2> DEFINE g == Max(earlier)
  <2>5. NavigateBackward(p, pos0) =
          EndOfEntry(p, g, GroupAt(p, g).repeat - 1, Len(EntriesAt(p, g)) - 1)
    BY <2>1, <2>2 DEF RetreatToPreviousGroup, EndOfGroupRepeat
  <2>6. g \in 0 .. pos0.gi - 1 /\ ~ IsEmptyGroup(p, g)
    BY <2>4 DEF NonEmptyBefore
  <2>7. ASSUME NEW i \in g + 1 .. pos0.gi - 1 PROVE IsEmptyGroup(p, i)
    <3>1. i \in 0 .. pos0.gi - 1 /\ ~ (g >= i)
      BY <1>1, <2>6
    <3>2. i \notin earlier
      BY <2>4, <3>1
    <3> QED
      BY <3>1, <3>2 DEF NonEmptyBefore
  <2>8. pos0 = AtGroup(pos0.gi)
    BY <1>1, <1>6, PositionIsAt DEF AtGroup
  <2> QED
    BY <2>5, <2>6, <2>7, <2>8
<1> QED
  BY <1>1, <1>2, <1>3, <1>4, <1>5, <1>6

\* Next after Back is where it was.
LEMMA ForwardUndoesBackward ==
  ASSUME NEW p, ValidPattern(p), NEW pos0, FitsPattern(p, pos0), ~ PastEnd(p, pos0),
         ~ IsEmptyGroup(p, pos0.gi), RetreatReported(p, pos0)
  PROVE  LET q == NavigateBackward(p, pos0)
         IN  /\ FitsPattern(p, q) /\ ~ PastEnd(p, q) /\ ~ IsEmptyGroup(p, q.gi)
             /\ NavigateForward(p, q) = pos0
<1> DEFINE q == NavigateBackward(p, pos0)
           entry == EntryAt(p, pos0.gi, pos0.si)
           n == Len(EntriesAt(p, pos0.gi))
<1>1. /\ pos0 \in Position /\ pos0.gi \in 0 .. Len(p) - 1 /\ pos0.si \in 0 .. n - 1
      /\ GroupAt(p, pos0.gi).repeat \in Nat /\ pos0.gr \in Nat
      /\ pos0.gr < GroupAt(p, pos0.gi).repeat
      /\ entry.count \in Nat /\ entry.repeat \in Nat
      /\ pos0.sr \in Nat /\ pos0.sr < entry.repeat
      /\ pos0.sc \in Nat /\ pos0.sc < entry.count
  BY WithinGroupNumbers
<1>2. /\ n \in Nat /\ pos0.si \in Nat /\ pos0.si < n
      /\ Len(p) \in Nat /\ pos0.gi \in Nat /\ pos0.gi < Len(p)
  <2>1. n \in Nat /\ Len(p) \in Nat
    BY <1>1, GroupTyped, EntriesWeigh
  <2> QED
    BY <1>1, <2>1
<1>3. FitsPattern(p, q) /\ ~ PastEnd(p, q)
  BY BackwardFits, BackwardNotPastEnd
<1>4. pos0 = At(pos0.gi, pos0.gr, pos0.si, pos0.sr, pos0.sc)
  BY <1>1, PositionIsAt
<1>5. ~ IsEmptyGroup(p, q.gi) => MovesForward(p, q, NavigateForward(p, q))
  BY <1>3, ForwardMoves
<1> HIDE DEF q, n, entry
<1> SUFFICES ~ IsEmptyGroup(p, q.gi) /\ NavigateForward(p, q) = pos0
  BY <1>3 DEF q
<1>6. CASE pos0.sc > 0 /\ q = At(pos0.gi, pos0.gr, pos0.si, pos0.sr, pos0.sc - 1)
  <2>1. /\ q.gi = pos0.gi /\ q.gr = pos0.gr /\ q.si = pos0.si /\ q.sr = pos0.sr
        /\ q.sc = pos0.sc - 1
    BY <1>6, AtCounters
  <2>2. q.sc + 1 = pos0.sc
    BY <1>1, <2>1
  <2>3. ~ (q.sc + 1 = entry.count)
    BY <1>1, <2>2
  <2>4. NavigateForward(p, q) = At(pos0.gi, pos0.gr, pos0.si, pos0.sr, pos0.sc)
    BY <1>5, <2>1, <2>2, <2>3 DEF MovesForward, entry
  <2> QED
    BY <1>4, <2>1, <2>4
<1>7. CASE /\ pos0.sc = 0 /\ pos0.sr > 0
           /\ q = At(pos0.gi, pos0.gr, pos0.si, pos0.sr - 1, entry.count - 1)
  <2>1. /\ q.gi = pos0.gi /\ q.gr = pos0.gr /\ q.si = pos0.si /\ q.sr = pos0.sr - 1
        /\ q.sc = entry.count - 1
    BY <1>7, AtCounters
  <2>2. q.sr + 1 = pos0.sr /\ q.sc + 1 = entry.count
    BY <1>1, <2>1
  <2>3. ~ (q.sc + 1 < entry.count) /\ ~ (q.sr + 1 = entry.repeat)
    BY <1>1, <2>2
  <2>4. NavigateForward(p, q) = At(pos0.gi, pos0.gr, pos0.si, pos0.sr, 0)
    BY <1>5, <2>1, <2>2, <2>3 DEF MovesForward, entry
  <2> QED
    BY <1>4, <1>7, <2>1, <2>4
<1>8. CASE /\ pos0.sc = 0 /\ pos0.sr = 0 /\ pos0.si > 0
           /\ q = EndOfEntry(p, pos0.gi, pos0.gr, pos0.si - 1)
  <2> DEFINE last == EntryAt(p, pos0.gi, pos0.si - 1)
  <2>1. last.count \in Nat /\ last.repeat \in Nat
    <3>1. pos0.si - 1 \in 0 .. n - 1
      BY <1>1, <1>2, <1>8
    <3> QED
      BY <1>1, <3>1, EntryTyped DEF n
  <2>2. /\ q.gi = pos0.gi /\ q.gr = pos0.gr /\ q.si = pos0.si - 1
        /\ q.sr = last.repeat - 1 /\ q.sc = last.count - 1
    BY <1>8, AtCounters DEF EndOfEntry
  <2> HIDE DEF last
  <2>3. /\ q.si + 1 = pos0.si /\ q.sr + 1 = last.repeat /\ q.sc + 1 = last.count
        /\ q.si + 1 < n
    <3>1. q.sr + 1 = last.repeat /\ q.sc + 1 = last.count
      BY <2>1, <2>2
    <3>2. pos0.si \in Nat /\ n \in Nat /\ pos0.si < n
      BY <1>2
    <3>3. q.si + 1 = pos0.si
      BY <2>2, <3>2
    <3> QED
      BY <3>1, <3>2, <3>3
  <2>4. /\ ~ (q.sc + 1 < last.count) /\ ~ (q.sr + 1 < last.repeat) /\ ~ (q.si + 1 = n)
    BY <1>2, <2>1, <2>3
  <2>5. NavigateForward(p, q) = At(pos0.gi, pos0.gr, pos0.si, 0, 0)
    BY <1>5, <2>2, <2>3, <2>4 DEF MovesForward, last, n
  <2> QED
    BY <1>4, <1>8, <2>2, <2>5
<1>9. CASE /\ pos0.sc = 0 /\ pos0.sr = 0 /\ pos0.si = 0 /\ pos0.gr > 0
           /\ q = EndOfEntry(p, pos0.gi, pos0.gr - 1, n - 1)
  <2> DEFINE last == EntryAt(p, pos0.gi, n - 1)
  <2>1. last.count \in Nat /\ last.repeat \in Nat
    <3>1. n - 1 \in 0 .. n - 1
      BY <1>2
    <3> QED
      BY <1>1, <3>1, EntryTyped DEF n
  <2>2. /\ q.gi = pos0.gi /\ q.gr = pos0.gr - 1 /\ q.si = n - 1
        /\ q.sr = last.repeat - 1 /\ q.sc = last.count - 1
    BY <1>9, AtCounters DEF EndOfEntry
  <2> HIDE DEF last
  <2>3. /\ q.si + 1 = n /\ q.sr + 1 = last.repeat /\ q.sc + 1 = last.count
        /\ q.gr + 1 = pos0.gr
    <3>1. q.sr + 1 = last.repeat /\ q.sc + 1 = last.count
      BY <2>1, <2>2
    <3>2. pos0.gr \in Nat /\ n \in Nat
      BY <1>1, <1>2
    <3>3. q.si + 1 = n /\ q.gr + 1 = pos0.gr
      BY <2>2, <3>2
    <3> QED
      BY <3>1, <3>3
  <2>4. /\ ~ (q.sc + 1 < last.count) /\ ~ (q.sr + 1 < last.repeat) /\ ~ (q.si + 1 < n)
        /\ ~ (q.gr + 1 = GroupAt(p, pos0.gi).repeat)
    BY <1>1, <1>2, <2>1, <2>3
  <2>5. NavigateForward(p, q) = At(pos0.gi, pos0.gr, 0, 0, 0)
    BY <1>5, <2>2, <2>3, <2>4 DEF MovesForward, last, n
  <2> QED
    BY <1>4, <1>9, <2>2, <2>5
<1>10. CASE /\ pos0 = AtGroup(pos0.gi)
            /\ \E g \in 0 .. pos0.gi - 1 :
                 /\ g = Max(NonEmptyBefore(p, pos0.gi))
                 /\ ~ IsEmptyGroup(p, g)
                 /\ \A i \in g + 1 .. pos0.gi - 1 : IsEmptyGroup(p, i)
                 /\ q = EndOfEntry(p, g, GroupAt(p, g).repeat - 1, Len(EntriesAt(p, g)) - 1)
  <2>1. PICK g \in 0 .. pos0.gi - 1 :
             /\ ~ IsEmptyGroup(p, g)
             /\ \A i \in g + 1 .. pos0.gi - 1 : IsEmptyGroup(p, i)
             /\ q = EndOfEntry(p, g, GroupAt(p, g).repeat - 1, Len(EntriesAt(p, g)) - 1)
    BY <1>10
  <2>2. g \in 0 .. Len(p) - 1 /\ g \in Nat /\ g + 1 <= pos0.gi
    BY <1>2
  <2> DEFINE m == Len(EntriesAt(p, g))
             last == EntryAt(p, g, m - 1)
             repeat == GroupAt(p, g).repeat
  <2>3. repeat \in Nat /\ m \in Nat /\ m > 0
    <3>1. /\ repeat \in Nat /\ EntriesAt(p, g) \in Seq(StitchEntry) /\ m \in Nat
      BY <2>2, GroupTyped, EntriesWeigh
    <3> QED
      BY <2>1, <3>1 DEF IsEmptyGroup
  <2>4. last.count \in Nat /\ last.repeat \in Nat
    <3>1. m - 1 \in 0 .. m - 1
      BY <2>3
    <3> QED
      BY <2>2, <3>1, EntryTyped
  <2>5. /\ q.gi = g /\ q.gr = repeat - 1 /\ q.si = m - 1
        /\ q.sr = last.repeat - 1 /\ q.sc = last.count - 1
    BY <2>1, AtCounters DEF EndOfEntry
  <2> HIDE DEF last, m, repeat
  <2>6. /\ q.si + 1 = m /\ q.sr + 1 = last.repeat /\ q.sc + 1 = last.count
        /\ q.gr + 1 = repeat
    BY <2>3, <2>4, <2>5
  <2>7. /\ ~ (q.sc + 1 < last.count) /\ ~ (q.sr + 1 < last.repeat) /\ ~ (q.si + 1 < m)
        /\ ~ (q.gr + 1 < repeat)
    BY <2>3, <2>4, <2>6
  <2>8. NavigateForward(p, q) = AdvanceGroup(p, q)
    BY <1>5, <2>1, <2>5, <2>6, <2>7 DEF MovesForward, last, m, repeat
  <2>9. PICK h \in g + 1 .. Len(p) :
          /\ AdvanceGroup(p, q) = AtGroup(h)
          /\ \A i \in g + 1 .. h - 1 : IsEmptyGroup(p, i)
          /\ h < Len(p) => ~ IsEmptyGroup(p, h)
    BY <2>2, <2>5, AdvanceGroupSkips
  <2>10. h = pos0.gi
    <3>1. ~ (pos0.gi \in g + 1 .. h - 1)
      BY <2>9
    <3>2. ~ (h \in g + 1 .. pos0.gi - 1)
      <4> SUFFICES ASSUME h \in g + 1 .. pos0.gi - 1 PROVE FALSE
        OBVIOUS
      <4>1. h < Len(p) /\ IsEmptyGroup(p, h)
        BY <1>2, <2>1
      <4> QED
        BY <2>9, <4>1
    <3> QED
      BY <1>2, <2>2, <2>9, <3>1, <3>2
  <2> QED
    BY <1>10, <2>1, <2>5, <2>8, <2>9, <2>10
<1> QED
  BY <1>6, <1>7, <1>8, <1>9, <1>10, BackwardMoves DEF q, entry, n

\* Where a pattern begins and ends on the overall bar.
LEMMA ProgressRange ==
  ASSUME NEW p, ValidPattern(p)
  PROVE  /\ StitchCount(p) \in Nat /\ CompletedStitches(p, Start) = 0
         /\ CompletedStitches(p, AtGroup(Len(p))) = StitchCount(p)
<1>1. Len(p) \in Nat /\ 0 \in 0 .. Len(p) /\ Len(p) \in 0 .. Len(p)
  BY DEF ValidPattern
<1>2. StitchCount(p) \in Nat /\ PrefixSum(GroupWeights(p), 0) = 0
  BY <1>1, GroupsWeigh DEF StitchCount
<1> QED
  BY <1>1, <1>2, CompletedAtGroupStart DEF StitchCount, Start

\* Next in a leading group without entries works no stitch, and ends the
\* session only when the pattern has none.
LEMMA ForwardFromEmptyStart ==
  ASSUME NEW p, ValidPattern(p), IsEmptyGroup(p, 0)
  PROVE  LET q == NavigateForward(p, Start)
         IN  /\ CompletedStitches(p, q) = 0
             /\ PastEnd(p, q) => StitchCount(p) = 0
             /\ PastEnd(p, q) \/ ~ IsEmptyGroup(p, q.gi)
<1> DEFINE q == NavigateForward(p, Start)
<1>1. Len(p) \in Nat /\ Len(p) > 0
  BY DEF ValidPattern
<1>2. /\ Start.gi = 0 /\ Start.si = 0 /\ Start.gi \in 0 .. Len(p) - 1
      /\ 0 \in 0 .. Len(p) /\ Len(p) \in 0 .. Len(p)
  BY <1>1, AtCounters DEF Start, AtGroup
<1>3. Len(EntriesAt(p, 0)) = 0
  BY DEF IsEmptyGroup
<1>4. q = AdvanceGroup(p, Start)
  BY <1>1, <1>2, <1>3 DEF NavigateForward, PastEnd
<1>5. PICK h \in 1 .. Len(p) :
        /\ AdvanceGroup(p, Start) = AtGroup(h)
        /\ \A i \in 1 .. h - 1 : IsEmptyGroup(p, i)
        /\ h < Len(p) => ~ IsEmptyGroup(p, h)
  <2>1. Start.gi + 1 = 1
    BY <1>2
  <2> QED
    BY <1>2, <2>1, AdvanceGroupSkips
<1>6. h \in 0 .. Len(p) /\ q.gi = h /\ h \in Nat
  BY <1>1, <1>4, <1>5, AtCounters DEF AtGroup
<1>7. \A i \in 0 .. h - 1 : IsEmptyGroup(p, i)
  <2> SUFFICES ASSUME NEW i \in 0 .. h - 1, i # 0 PROVE IsEmptyGroup(p, i)
    OBVIOUS
  <2>1. i \in 1 .. h - 1
    OBVIOUS
  <2> QED
    BY <1>5, <2>1
<1>8. PrefixSum(GroupWeights(p), h) = 0
  <2>1. PrefixSum(GroupWeights(p), h) = PrefixSum(GroupWeights(p), 0)
    BY <1>2, <1>6, <1>7, EmptyGroupsWeighNothing
  <2> QED
    BY <2>1, GroupsWeigh
<1>9. CompletedStitches(p, q) = 0
  BY <1>4, <1>5, <1>6, <1>8, CompletedAtGroupStart
<1>10. PastEnd(p, q) => h = Len(p)
  BY <1>1, <1>5, <1>6 DEF PastEnd
<1> QED
  BY <1>1, <1>5, <1>6, <1>8, <1>9, <1>10 DEF PastEnd, StitchCount

\* Back unworks exactly one stitch, or there was none to unwork.
LEMMA BackwardCounts ==
  ASSUME NEW p, ValidPattern(p), NEW pos0, FitsPattern(p, pos0), ~ PastEnd(p, pos0),
         ~ IsEmptyGroup(p, pos0.gi)
  PROVE  LET q == NavigateBackward(p, pos0)
         IN  \/ /\ CompletedStitches(p, q) = CompletedStitches(p, pos0) - 1
                /\ CompletedStitches(p, pos0) > 0
                /\ ~ IsEmptyGroup(p, q.gi)
             \/ /\ CompletedStitches(p, q) = CompletedStitches(p, pos0)
                /\ q = Start
<1> DEFINE q == NavigateBackward(p, pos0)
<1>1. CASE RetreatReported(p, pos0)
  <2>1. /\ FitsPattern(p, q) /\ ~ PastEnd(p, q) /\ ~ IsEmptyGroup(p, q.gi)
        /\ NavigateForward(p, q) = pos0
    BY <1>1, ForwardUndoesBackward
  <2>2. CompletedStitches(p, pos0) = CompletedStitches(p, q) + 1
    BY <2>1, ForwardCounts
  <2>3. CompletedStitches(p, q) \in Nat
    BY <2>1, CompletedBelow
  <2> QED
    BY <2>1, <2>2, <2>3
<1>2. CASE ~ RetreatReported(p, pos0)
  <2>1. /\ pos0 \in Position /\ Len(p) \in Nat /\ pos0.gi < Len(p) /\ pos0.gi \in Nat
        /\ pos0.gr \in Nat /\ pos0.si \in Nat /\ pos0.sr \in Nat /\ pos0.sc \in Nat
    BY FittingPosition DEF Position
  <2>2. /\ pos0.gr = 0 /\ pos0.si = 0 /\ pos0.sr = 0 /\ pos0.sc = 0
        /\ NonEmptyBefore(p, pos0.gi) = {}
    BY <1>2, <2>1 DEF RetreatReported
  <2>3. q = Start
    BY <2>2 DEF NavigateBackward, RetreatToPreviousGroup
  <2>4. pos0 = AtGroup(pos0.gi)
    BY <2>1, <2>2, PositionIsAt DEF AtGroup
  <2>5. \A i \in 0 .. pos0.gi - 1 : IsEmptyGroup(p, i)
    BY <2>2 DEF NonEmptyBefore
  <2>6. pos0.gi \in 0 .. Len(p) /\ 0 \in 0 .. Len(p) /\ pos0.gi \in 0 .. Len(p)
    BY <2>1
  <2>7. PrefixSum(GroupWeights(p), pos0.gi) = PrefixSum(GroupWeights(p), 0)
    BY <2>5, <2>6, EmptyGroupsWeighNothing
  <2>8. CompletedStitches(p, pos0) = 0
    BY <2>4, <2>6, <2>7, GroupsWeigh, CompletedAtGroupStart
  <2> QED
    BY <2>3, <2>8, ProgressRange
<1> QED
  BY <1>1, <1>2

-----------------------------------------------------------------------------
(***************************************************************************)
(* The labels.                                                             *)
(***************************************************************************)

\* The label of a position is that of its entry.
LEMMA StitchShown ==
  ASSUME NEW p, Len(p) \in Nat, NEW g \in Nat, NEW r, NEW e, NEW er, NEW c
  PROVE  /\ g < Len(p) => CurrentStitch(p, At(g, r, e, er, c)) = StitchAt(p, g, e)
         /\ g = Len(p) => CurrentStitch(p, At(g, r, e, er, c)) = NoStitch
<1>1. At(g, r, e, er, c).gi = g /\ At(g, r, e, er, c).si = e
  BY AtCounters
<1> QED
  BY <1>1 DEF CurrentStitch, PastEnd

\* getNextStitchAbbr shows the stitch that Next leads to.
LEMMA NextLabelIsTrue ==
  ASSUME NEW p, ValidPattern(p), NEW pos0, FitsPattern(p, pos0), ~ PastEnd(p, pos0),
         ~ IsEmptyGroup(p, pos0.gi)
  PROVE  NextStitch(p, pos0) = CurrentStitch(p, NavigateForward(p, pos0))
<1> DEFINE q == NavigateForward(p, pos0)
           entry == EntryAt(p, pos0.gi, pos0.si)
           n == Len(EntriesAt(p, pos0.gi))
           repeat == GroupAt(p, pos0.gi).repeat
           later == NonEmptyFrom(p, pos0.gi + 1)
<1>1. /\ pos0.gi \in 0 .. Len(p) - 1 /\ pos0.si \in 0 .. n - 1
      /\ repeat \in Nat /\ pos0.gr \in Nat /\ entry.count \in Nat /\ entry.repeat \in Nat
      /\ pos0.sr \in Nat /\ pos0.sc \in Nat /\ pos0.sr < entry.repeat
      /\ pos0.sc < entry.count
  BY WithinGroupNumbers
<1>2. /\ Len(p) \in Nat /\ n \in Nat /\ pos0.gi \in Nat /\ pos0.si \in Nat
      /\ pos0.gi < Len(p) /\ pos0.si < n
  <2>1. n \in Nat /\ Len(p) \in Nat
    BY <1>1, GroupTyped, EntriesWeigh
  <2> QED
    BY <1>1, <2>1
<1>3. HasEntry(p, pos0.gi, pos0.si)
  BY <1>2 DEF HasEntry
<1>4. StitchAt(p, pos0.gi, pos0.si) = entry.stitch
  BY <1>3 DEF StitchAt
<1>5. \/ (pos0.sc + 1 < entry.count \/ pos0.sr + 1 < entry.repeat)
           /\ NextStitch(p, pos0) = entry.stitch
      \/ /\ pos0.sc + 1 >= entry.count /\ pos0.sr + 1 >= entry.repeat
         /\ \/ pos0.si + 1 < n /\ NextStitch(p, pos0) = StitchAt(p, pos0.gi, pos0.si + 1)
            \/ /\ pos0.si + 1 >= n /\ pos0.gr + 1 < repeat
               /\ NextStitch(p, pos0) = FirstStitchOf(p, pos0.gi)
            \/ /\ pos0.si + 1 >= n /\ pos0.gr + 1 >= repeat
               /\ NextStitch(p, pos0) = FirstStitchAfter(p, pos0.gi)
  <2>1. NextStitch(p, pos0) =
          CASE pos0.sc + 1 < entry.count \/ pos0.sr + 1 < entry.repeat -> entry.stitch
            [] /\ pos0.sc + 1 >= entry.count /\ pos0.sr + 1 >= entry.repeat
               /\ pos0.si + 1 < n ->
                 StitchAt(p, pos0.gi, pos0.si + 1)
            [] /\ pos0.sc + 1 >= entry.count /\ pos0.sr + 1 >= entry.repeat
               /\ pos0.si + 1 >= n /\ pos0.gr + 1 < repeat ->
                 FirstStitchOf(p, pos0.gi)
            [] OTHER -> FirstStitchAfter(p, pos0.gi)
    BY <1>3 DEF NextStitch
  <2>2. /\ entry.count \in Nat /\ entry.repeat \in Nat /\ n \in Nat /\ repeat \in Nat
        /\ pos0.sc \in Nat /\ pos0.sr \in Nat /\ pos0.si \in Nat /\ pos0.gr \in Nat
    BY <1>1, <1>2
  <2> HIDE DEF entry, n, repeat
  <2> QED
    BY <2>1, <2>2
<1>6. MovesForward(p, pos0, q)
  BY ForwardMoves
<1>7. CASE pos0.sc + 1 < entry.count
  <2>1. q = At(pos0.gi, pos0.gr, pos0.si, pos0.sr, pos0.sc + 1)
    BY <1>1, <1>6, <1>7 DEF MovesForward
  <2>2. NextStitch(p, pos0) = entry.stitch
    BY <1>1, <1>5, <1>7
  <2> QED
    BY <1>2, <1>4, <2>1, <2>2, StitchShown
<1>8. CASE pos0.sc + 1 = entry.count /\ pos0.sr + 1 < entry.repeat
  <2>1. q = At(pos0.gi, pos0.gr, pos0.si, pos0.sr + 1, 0)
    BY <1>1, <1>6, <1>8 DEF MovesForward
  <2>2. NextStitch(p, pos0) = entry.stitch
    BY <1>1, <1>5, <1>8
  <2> QED
    BY <1>2, <1>4, <2>1, <2>2, StitchShown
<1>9. CASE pos0.sc + 1 = entry.count /\ pos0.sr + 1 = entry.repeat /\ pos0.si + 1 < n
  <2>1. q = At(pos0.gi, pos0.gr, pos0.si + 1, 0, 0)
    BY <1>1, <1>2, <1>6, <1>9 DEF MovesForward
  <2>2. NextStitch(p, pos0) = StitchAt(p, pos0.gi, pos0.si + 1)
    BY <1>1, <1>2, <1>5, <1>9
  <2> QED
    BY <1>2, <2>1, <2>2, StitchShown
<1>10. CASE /\ pos0.sc + 1 = entry.count /\ pos0.sr + 1 = entry.repeat
            /\ pos0.si + 1 = n /\ pos0.gr + 1 < repeat
  <2>1. q = At(pos0.gi, pos0.gr + 1, 0, 0, 0)
    BY <1>1, <1>2, <1>6, <1>10 DEF MovesForward
  <2>2. NextStitch(p, pos0) = StitchAt(p, pos0.gi, 0)
    BY <1>1, <1>2, <1>5, <1>10 DEF FirstStitchOf
  <2> QED
    BY <1>2, <2>1, <2>2, StitchShown
<1>11. CASE /\ pos0.sc + 1 = entry.count /\ pos0.sr + 1 = entry.repeat
            /\ pos0.si + 1 = n /\ pos0.gr + 1 = repeat
  <2>1. q = AdvanceGroup(p, pos0)
    BY <1>1, <1>2, <1>6, <1>11 DEF MovesForward
  <2>2. NextStitch(p, pos0) = FirstStitchAfter(p, pos0.gi)
    BY <1>1, <1>2, <1>5, <1>11
  <2>3. PICK h \in pos0.gi + 1 .. Len(p) :
          /\ q = AtGroup(h)
          /\ later = {} => h = Len(p)
          /\ later # {} => h < Len(p) /\ h = Min(later)
    BY <1>1, <2>1, AdvanceGroupSkips
  <2>4. h \in Nat
    BY <1>2
  <2>5. CASE later = {}
    BY <1>2, <2>2, <2>3, <2>4, <2>5, StitchShown DEF FirstStitchAfter, AtGroup
  <2>6. CASE later # {}
    BY <1>2, <2>2, <2>3, <2>4, <2>6, StitchShown DEF FirstStitchAfter, FirstStitchOf, AtGroup
  <2> QED
    BY <2>5, <2>6
<1> QED
  BY <1>6, <1>7, <1>8, <1>9, <1>10, <1>11 DEF MovesForward

\* getPrevStitchAbbr shows the stitch that Back leads to, if there is one.
LEMMA PrevLabelIsTrue ==
  ASSUME NEW p, ValidPattern(p), NEW pos0, FitsPattern(p, pos0), ~ PastEnd(p, pos0)
  PROVE  PrevStitch(p, pos0) =
           IF RetreatReported(p, pos0)
             THEN CurrentStitch(p, NavigateBackward(p, pos0)) ELSE NoStitch
<1> DEFINE q == NavigateBackward(p, pos0)
           earlier == NonEmptyBefore(p, pos0.gi)
<1>1. /\ Len(p) \in Nat /\ pos0.gi < Len(p) /\ pos0.gi \in Nat /\ pos0.gr \in Nat
      /\ pos0.si \in Nat /\ pos0.sr \in Nat /\ pos0.sc \in Nat /\ pos0 \in Position
      /\ WithinGroup(GroupAt(p, pos0.gi), pos0)
  BY FittingPosition DEF Position
<1>2. CASE pos0.sc > 0
  <2>1. RetreatReported(p, pos0) /\ PrevStitch(p, pos0) = StitchAt(p, pos0.gi, pos0.si)
    BY <1>2 DEF RetreatReported, PrevStitch
  <2>2. q = At(pos0.gi, pos0.gr, pos0.si, pos0.sr, pos0.sc - 1)
    BY <1>2 DEF NavigateBackward
  <2> QED
    BY <1>1, <2>1, <2>2, StitchShown
<1>3. CASE pos0.sc = 0 /\ pos0.sr > 0
  <2>1. RetreatReported(p, pos0) /\ PrevStitch(p, pos0) = StitchAt(p, pos0.gi, pos0.si)
    BY <1>3 DEF RetreatReported, PrevStitch
  <2>2. q = At(pos0.gi, pos0.gr, pos0.si, pos0.sr - 1,
               EntryAt(p, pos0.gi, pos0.si).count - 1)
    BY <1>3 DEF NavigateBackward
  <2> QED
    BY <1>1, <2>1, <2>2, StitchShown
<1>4. CASE pos0.sc = 0 /\ pos0.sr = 0 /\ pos0.si > 0
  <2>1. RetreatReported(p, pos0) /\ PrevStitch(p, pos0) = StitchAt(p, pos0.gi, pos0.si - 1)
    BY <1>4 DEF RetreatReported, PrevStitch
  <2>2. q = EndOfEntry(p, pos0.gi, pos0.gr, pos0.si - 1)
    BY <1>4 DEF NavigateBackward
  <2> QED
    BY <1>1, <2>1, <2>2, StitchShown DEF EndOfEntry
<1>5. CASE pos0.sc = 0 /\ pos0.sr = 0 /\ pos0.si = 0 /\ pos0.gr > 0
  <2>1. ~ IsEmptyGroup(p, pos0.gi)
    <3> SUFFICES ASSUME IsEmptyGroup(p, pos0.gi) PROVE FALSE
      OBVIOUS
    <3>1. GroupAt(p, pos0.gi).entries = << >>
      BY DEF IsEmptyGroup, EntriesAt, GroupAt
    <3>2. pos0 = AtGroup(pos0.gi)
      BY <1>1, <3>1 DEF WithinGroup
    <3>3. pos0.gr = 0
      BY <3>2, AtCounters DEF AtGroup
    <3> QED
      BY <1>5, <3>3
  <2>2. RetreatReported(p, pos0) /\ PrevStitch(p, pos0) = LastStitchOf(p, pos0.gi)
    BY <1>5, <2>1 DEF RetreatReported, PrevStitch
  <2>3. q = EndOfEntry(p, pos0.gi, pos0.gr - 1, Len(EntriesAt(p, pos0.gi)) - 1)
    BY <1>5 DEF NavigateBackward, EndOfGroupRepeat
  <2> QED
    BY <1>1, <2>2, <2>3, StitchShown DEF EndOfEntry, LastStitchOf
<1>6. CASE pos0.sc = 0 /\ pos0.sr = 0 /\ pos0.si = 0 /\ pos0.gr = 0
  <2>1. RetreatReported(p, pos0) <=> earlier # {}
    BY <1>6 DEF RetreatReported
  <2>2. PrevStitch(p, pos0) =
          IF earlier = {} THEN NoStitch ELSE LastStitchOf(p, Max(earlier))
    BY <1>6 DEF PrevStitch
  <2>3. CASE earlier # {}
    <3>1. earlier \in SUBSET (0 .. pos0.gi)
      BY <1>1 DEF NonEmptyBefore
    <3>2. Max(earlier) \in earlier
      BY <1>1, <2>3, <3>1, MaxOfNaturals
    <3>3. Max(earlier) \in Nat /\ Max(earlier) < Len(p)
      BY <1>1, <3>2 DEF NonEmptyBefore
    <3> DEFINE g == Max(earlier)
    <3>4. q = EndOfEntry(p, g, GroupAt(p, g).repeat - 1, Len(EntriesAt(p, g)) - 1)
      BY <1>6, <2>3 DEF NavigateBackward, RetreatToPreviousGroup, EndOfGroupRepeat
    <3> HIDE DEF g
    <3>5. g \in Nat /\ g < Len(p) /\ PrevStitch(p, pos0) = LastStitchOf(p, g)
      BY <2>2, <2>3, <3>3 DEF g
    <3> QED
      BY <1>1, <2>1, <2>3, <3>4, <3>5, StitchShown DEF EndOfEntry, LastStitchOf
  <2> QED
    BY <2>1, <2>2, <2>3
<1> QED
  BY <1>1, <1>2, <1>3, <1>4, <1>5, <1>6

=============================================================================
