-------------------------- MODULE NavigationProofs --------------------------
(***************************************************************************)
(* Proofs about Navigation, for every set of valid patterns: positions     *)
(* fit the pattern, the labels and the bars are true, and the five         *)
(* counters implement one counter of stitches.                             *)
(***************************************************************************)
EXTENDS Navigation, PatternNavigationProofs

\* For every set of valid patterns: the stored position is always one the
\* pattern has, and a session is completed exactly when it is past the end.
THEOREM PositionAlwaysFits == Spec => []PositionFits
<1>1. Init => PositionFits
  <2> SUFFICES ASSUME Init PROVE PositionFits
    OBVIOUS
  <2>1. ValidPattern(pattern) /\ Len(pattern) > 0 /\ pos = AtGroup(0)
    BY PatternsAssumption DEF Init, Start, ValidPattern
  <2>2. FitsPattern(pattern, pos) /\ ~ PastEnd(pattern, pos)
    BY <2>1, GroupStartFits, AtGroupIsPosition DEF PastEnd, ValidPattern
  <2>3. QED
    BY <2>2 DEF Init, PositionFits
<1>2. PositionFits /\ [Next]_vars => PositionFits'
  <2> SUFFICES ASSUME PositionFits, [Next]_vars PROVE PositionFits'
    OBVIOUS
  <2>1. ValidPattern(pattern)
    BY PatternsAssumption DEF PositionFits
  <2>2. CASE Forward
    <3>1. ~ PastEnd(pattern, pos)
      BY <2>2 DEF Forward, PositionFits
    <3>2. FitsPattern(pattern, pos')
      BY <2>1, <2>2, <3>1, ForwardFits DEF Forward, PositionFits
    <3>3. QED
      BY <2>2, <3>2 DEF Forward, PositionFits
  <2>3. CASE Backward
    <3>1. ~ PastEnd(pattern, pos)
      BY <2>3 DEF Backward, PositionFits
    <3>2. FitsPattern(pattern, pos') /\ ~ PastEnd(pattern, pos')
      BY <2>1, <2>3, <3>1, BackwardFits, BackwardNotPastEnd DEF Backward, PositionFits
    <3>3. QED
      BY <2>3, <3>2 DEF Backward, PositionFits
  <2>4. CASE Pause
    BY <2>4 DEF Pause, PositionFits
  <2>5. CASE Resume
    BY <2>5 DEF Resume, PositionFits
  <2>6. CASE UNCHANGED vars
    BY <2>6 DEF vars, PositionFits
  <2>7. QED
    BY <2>2, <2>3, <2>4, <2>5, <2>6 DEF Next
<1>3. QED
  BY <1>1, <1>2, PTL DEF Spec

\* Hence neither going back nor rendering the tracker indexes out of range.
THEOREM NavigationNeverPanics == Spec => []NeverPanics
<1>1. PositionFits => NeverPanics
  <2> SUFFICES ASSUME PositionFits, status # "completed"
               PROVE  ~ BackwardPanics(pattern, pos) /\ ~ ProgressPanics(pattern, pos)
    BY DEF NeverPanics
  <2>1. ValidPattern(pattern) /\ FitsPattern(pattern, pos) /\ ~ PastEnd(pattern, pos)
    BY PatternsAssumption DEF PositionFits
  <2>2. /\ pos \in Position /\ Len(pattern) \in Nat /\ pos.gi < Len(pattern)
        /\ WithinGroup(GroupAt(pattern, pos.gi), pos)
    BY <2>1, FittingPosition
  <2>3. CASE IsEmptyGroup(pattern, pos.gi)
    <3>1. pos.gi \in Nat
      BY <2>2 DEF Position
    <3>2. \A e : ~ (0 <= e /\ e < Len(EntriesAt(pattern, pos.gi))) \/ e \notin Nat
      BY <2>3 DEF IsEmptyGroup
    <3>3. pos = AtGroup(pos.gi)
      BY <2>2, <2>3, <3>1 DEF WithinGroup, IsEmptyGroup, EntriesAt, GroupAt, Position
    <3>4. pos.gr = 0 /\ pos.si = 0 /\ pos.sr = 0 /\ pos.sc = 0
      BY <3>1, <3>3, AtGroupIsPosition
    <3>5. QED
      BY <2>2, <3>1, <3>4 DEF BackwardPanics, ProgressPanics
  <2>4. CASE ~ IsEmptyGroup(pattern, pos.gi)
    <3>1. /\ pos.gi \in 0 .. Len(pattern) - 1 /\ pos.si \in Nat /\ pos.sr \in Nat
          /\ pos.sc \in Nat /\ pos.gr \in Nat
          /\ pos.si < Len(EntriesAt(pattern, pos.gi))
          /\ Len(EntriesAt(pattern, pos.gi)) \in Nat
      BY <2>1, <2>2, <2>4, FittingPosition, GroupTyped DEF Position
    <3>2. \A e \in 0 .. pos.si : HasEntry(pattern, pos.gi, e)
      BY <3>1 DEF HasEntry
    <3>3. QED
      BY <3>1, <3>2 DEF BackwardPanics, ProgressPanics
  <2>5. QED
    BY <2>3, <2>4
<1>2. QED
  BY <1>1, PositionAlwaysFits, PTL

\* Between two clicks, Next and Back show what they lead to.
THEOREM LabelsAreTrue == Spec => []LabelsAgree
<1>1. PositionFits => LabelsAgree
  <2> SUFFICES ASSUME PositionFits, status # "completed"
               PROVE  /\ ~ IsEmptyGroup(pattern, pos.gi) =>
                           NextStitch(pattern, pos)
                             = CurrentStitch(pattern, NavigateForward(pattern, pos))
                      /\ PrevStitch(pattern, pos) =
                           IF RetreatReported(pattern, pos)
                             THEN CurrentStitch(pattern, NavigateBackward(pattern, pos))
                             ELSE NoStitch
    BY DEF LabelsAgree
  <2>1. ValidPattern(pattern) /\ FitsPattern(pattern, pos) /\ ~ PastEnd(pattern, pos)
    BY PatternsAssumption DEF PositionFits
  <2>2. QED
    BY <2>1, NextLabelIsTrue, PrevLabelIsTrue
<1>2. QED
  BY <1>1, PositionAlwaysFits, PTL

\* The bars of the groups never overflow and add up to the overall bar.
THEOREM BarsAgree == Spec => []GroupBarsAgree
<1>1. PositionFits => GroupBarsAgree
  <2> SUFFICES ASSUME PositionFits PROVE GroupBarsAgree
    OBVIOUS
  <2>1. ValidPattern(pattern) /\ FitsPattern(pattern, pos)
    BY PatternsAssumption DEF PositionFits
  <2>2. QED
    BY <2>1, BarsAddUp DEF GroupBarsAgree
<1>2. QED
  BY <1>1, PositionAlwaysFits, PTL

-----------------------------------------------------------------------------
(***************************************************************************)
(* The refinement.  Of a group without entries a running session sees at   *)
(* most the first one, before its first stitch: PositionFits alone does    *)
(* not say so, and there Next would not work a stitch.                     *)
(***************************************************************************)
CursorInv ==
  /\ PositionFits
  /\ status # "completed" /\ IsEmptyGroup(pattern, pos.gi) => pos = Start

\* What PositionFits says while the session runs, and of one that is over.
LEMMA CursorInvFacts ==
  ASSUME CursorInv
  PROVE  /\ ValidPattern(pattern) /\ FitsPattern(pattern, pos)
         /\ status # "completed" => ~ PastEnd(pattern, pos)
BY PatternsAssumption DEF CursorInv, PositionFits

\* Past the end, all stitches are worked.
LEMMA PastEndIsWhole ==
  ASSUME NEW p, ValidPattern(p), NEW q, FitsPattern(p, q), PastEnd(p, q)
  PROVE  CompletedStitches(p, q) = StitchCount(p)
<1>1. q = AtGroup(Len(p))
  <2>1. Len(p) \in Nat /\ q.gi \in Nat
    BY DEF ValidPattern, FitsPattern, Position
  <2> QED
    BY <2>1 DEF FitsPattern, PastEnd
<1> QED
  BY <1>1, ProgressRange

\* Next at a stitch works one stitch; it ends the session iff that was the
\* last.  Next in a leading empty group works none.
LEMMA ForwardImplements ==
  ASSUME CursorInv, Forward
  PROVE  /\ [Cursor!CursorNext]_(Cursor!cursorVars)
         /\ status' # "completed" /\ IsEmptyGroup(pattern', pos'.gi) => pos' = Start
<1> DEFINE worked == CompletedStitches(pattern, pos)
           total == StitchCount(pattern)
<1>1. /\ ValidPattern(pattern) /\ FitsPattern(pattern, pos) /\ ~ PastEnd(pattern, pos)
      /\ status = "active" /\ pattern' = pattern /\ pos' = NavigateForward(pattern, pos)
      /\ status' = IF PastEnd(pattern, pos') THEN "completed" ELSE "active"
  BY CursorInvFacts DEF Forward
<1>2. FitsPattern(pattern, pos')
  BY <1>1, ForwardFits
<1>3. total' = total /\ worked' = CompletedStitches(pattern, pos')
  BY <1>1
<1>4. CASE ~ IsEmptyGroup(pattern, pos.gi)
  <2>1. /\ worked' = worked + 1
        /\ PastEnd(pattern, pos') \/ ~ IsEmptyGroup(pattern, pos'.gi)
    BY <1>1, <1>3, <1>4, ForwardCounts
  <2>2. worked \in Nat /\ worked < total /\ total \in Nat
    BY <1>1, <1>4, CompletedBelow, ProgressRange
  <2>3. PastEnd(pattern, pos') => worked' = total
    BY <1>1, <1>2, <1>3, PastEndIsWhole
  <2>4. ~ PastEnd(pattern, pos') => worked' < total
    BY <1>1, <1>2, <1>3, <2>1, CompletedBelow
  <2>5. status' = IF worked + 1 = total THEN "completed" ELSE "active"
    BY <1>1, <2>1, <2>2, <2>3, <2>4
  <2>6. Cursor!WorkStitch
    BY <1>1, <1>3, <2>1, <2>2, <2>5 DEF Cursor!WorkStitch
  <2> QED
    BY <1>1, <2>1, <2>6 DEF Cursor!CursorNext
<1>5. CASE IsEmptyGroup(pattern, pos.gi)
  <2>1. pos = Start /\ IsEmptyGroup(pattern, 0)
    BY <1>1, <1>5, AtCounters DEF CursorInv, Start, AtGroup
  <2>2. /\ worked' = 0
        /\ PastEnd(pattern, pos') => total = 0
        /\ PastEnd(pattern, pos') \/ ~ IsEmptyGroup(pattern, pos'.gi)
    BY <1>1, <1>3, <2>1, ForwardFromEmptyStart
  <2>3. worked = 0
    BY <1>1, <2>1, ProgressRange
  <2>4. CASE PastEnd(pattern, pos')
    <3>1. Cursor!FinishEmpty
      BY <1>1, <1>3, <2>2, <2>3, <2>4 DEF Cursor!FinishEmpty
    <3> QED
      BY <1>1, <2>4, <3>1 DEF Cursor!CursorNext
  <2>5. CASE ~ PastEnd(pattern, pos')
    <3>1. UNCHANGED Cursor!cursorVars
      BY <1>1, <1>3, <2>2, <2>3, <2>5 DEF Cursor!cursorVars
    <3> QED
      BY <1>1, <2>2, <2>5, <3>1
  <2> QED
    BY <2>4, <2>5
<1> QED
  BY <1>4, <1>5

\* Back at a stitch unworks one stitch, or stays before the first.
LEMMA BackwardImplements ==
  ASSUME CursorInv, Backward
  PROVE  /\ [Cursor!CursorNext]_(Cursor!cursorVars)
         /\ status' # "completed" /\ IsEmptyGroup(pattern', pos'.gi) => pos' = Start
<1> DEFINE worked == CompletedStitches(pattern, pos)
           total == StitchCount(pattern)
<1>1. /\ ValidPattern(pattern) /\ FitsPattern(pattern, pos) /\ ~ PastEnd(pattern, pos)
      /\ status = "active" /\ pattern' = pattern /\ pos' = NavigateBackward(pattern, pos)
      /\ status' = status
  BY CursorInvFacts DEF Backward
<1>2. total' = total /\ worked' = CompletedStitches(pattern, pos')
  BY <1>1
<1>3. CASE ~ IsEmptyGroup(pattern, pos.gi)
  <2>1. \/ worked' = worked - 1 /\ worked > 0 /\ ~ IsEmptyGroup(pattern, pos'.gi)
        \/ worked' = worked /\ pos' = Start
    BY <1>1, <1>2, <1>3, BackwardCounts
  <2>2. CASE worked' = worked - 1 /\ worked > 0 /\ ~ IsEmptyGroup(pattern, pos'.gi)
    <3>1. Cursor!UndoStitch
      BY <1>1, <1>2, <2>2 DEF Cursor!UndoStitch
    <3> QED
      BY <1>1, <2>2, <3>1 DEF Cursor!CursorNext
  <2>3. CASE worked' = worked /\ pos' = Start
    BY <1>1, <1>2, <2>3 DEF Cursor!cursorVars
  <2> QED
    BY <2>1, <2>2, <2>3
<1>4. CASE IsEmptyGroup(pattern, pos.gi)
  <2>1. pos = Start
    BY <1>1, <1>4 DEF CursorInv
  <2>2. NonEmptyBefore(pattern, 0) = {}
    BY DEF NonEmptyBefore
  <2>3. pos' = Start
    BY <1>1, <2>1, <2>2, AtCounters
    DEF NavigateBackward, RetreatToPreviousGroup, Start, AtGroup
  <2> QED
    BY <1>1, <1>2, <2>1, <2>3 DEF Cursor!cursorVars
<1> QED
  BY <1>3, <1>4

\* The invariant holds, and every step is a step of the cursor or a stutter.
LEMMA CursorStep ==
  ASSUME CursorInv, PositionFits', [Next]_vars
  PROVE  CursorInv' /\ [Cursor!CursorNext]_(Cursor!cursorVars)
<1>1. CASE Forward
  BY <1>1, ForwardImplements DEF CursorInv
<1>2. CASE Backward
  BY <1>2, BackwardImplements DEF CursorInv
<1>3. CASE Pause
  <2>1. Cursor!CursorPause
    BY <1>3 DEF Pause, Cursor!CursorPause
  <2> QED
    BY <1>3, <2>1 DEF Pause, CursorInv, Cursor!CursorNext
<1>4. CASE Resume
  <2>1. Cursor!CursorResume
    BY <1>4 DEF Resume, Cursor!CursorResume
  <2> QED
    BY <1>4, <2>1 DEF Resume, CursorInv, Cursor!CursorNext
<1>5. CASE UNCHANGED vars
  BY <1>5 DEF vars, CursorInv, Cursor!cursorVars
<1> QED
  BY <1>1, <1>2, <1>3, <1>4, <1>5 DEF Next

\* The navigation code implements a plain counter over the stitches of the
\* pattern, for every valid pattern: one click, one stitch, and the session
\* completes with the last stitch.
THEOREM CursorImplemented == Spec => ImplementsCursor
<1>1. Init /\ PositionFits => CursorInv /\ Cursor!CursorInit
  <2> SUFFICES ASSUME Init, PositionFits PROVE CursorInv /\ Cursor!CursorInit
    OBVIOUS
  <2>1. ValidPattern(pattern)
    BY PatternsAssumption DEF Init
  <2> QED
    BY <2>1, ProgressRange DEF Init, CursorInv, Cursor!CursorInit
<1>2. CursorInv /\ PositionFits' /\ [Next]_vars =>
        CursorInv' /\ [Cursor!CursorNext]_(Cursor!cursorVars)
  BY CursorStep
<1>3. QED
  BY <1>1, <1>2, PositionAlwaysFits, PTL DEF Spec, ImplementsCursor, Cursor!CursorSpec

=============================================================================
