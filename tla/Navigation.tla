----------------------------- MODULE Navigation -----------------------------
(***************************************************************************)
(* One work session of one user who waits for each answer before the next  *)
(* click, over a pattern nobody edits meanwhile: the behaviour the         *)
(* navigation code is written for.  The steps are those of                 *)
(* WorkSessionService; WorkSession.tla interleaves the same steps.         *)
(***************************************************************************)
EXTENDS PatternNavigation

CONSTANT Patterns  \* the patterns a session may be started on

ASSUME PatternsAssumption == \A p \in Patterns : ValidPattern(p)

VARIABLES
  pattern,  \* the pattern being worked
  pos,      \* the stored position
  status    \* the stored status

vars == << pattern, pos, status >>

Init ==
  /\ pattern \in Patterns
  /\ pos = Start
  /\ status = "active"

\* AdvanceSession
Forward ==
  /\ status = "active"
  /\ pos' = NavigateForward(pattern, pos)
  /\ status' = IF PastEnd(pattern, pos') THEN "completed" ELSE status
  /\ UNCHANGED pattern

\* RetreatSession, which ignores the Boolean of NavigateBackward
Backward ==
  /\ status = "active"
  /\ pos' = NavigateBackward(pattern, pos)
  /\ UNCHANGED << pattern, status >>

Pause ==
  /\ status = "active"
  /\ status' = "paused"
  /\ UNCHANGED << pattern, pos >>

Resume ==
  /\ status = "paused"
  /\ status' = "active"
  /\ UNCHANGED << pattern, pos >>

Next == Forward \/ Backward \/ Pause \/ Resume

Spec == Init /\ [][Next]_vars

-----------------------------------------------------------------------------
\* The stored position is always one the pattern has, and a session is
\* completed exactly when its position is past the last group: no counter
\* runs past its limit on any path of NavigateForward and NavigateBackward.
PositionFits ==
  /\ pattern \in Patterns
  /\ status \in {"active", "paused", "completed"}
  /\ FitsPattern(pattern, pos)
  /\ status = "completed" <=> PastEnd(pattern, pos)

\* Under PositionFits no slice access of NavigateBackward or ComputeProgress
\* is out of range.
NeverPanics ==
  status # "completed" =>
    ~ BackwardPanics(pattern, pos) /\ ~ ProgressPanics(pattern, pos)

\* getNextStitchAbbr and getPrevStitchAbbr walk the pattern on their own; the
\* labels they show are the stitches that pressing Next and Back really leads
\* to.  (In a group without entries getNextStitchAbbr gives up and shows none.)
LabelsAgree ==
  status # "completed" =>
    /\ ~ IsEmptyGroup(pattern, pos.gi) =>
         NextStitch(pattern, pos) = CurrentStitch(pattern, NavigateForward(pattern, pos))
    /\ PrevStitch(pattern, pos) =
         IF RetreatReported(pattern, pos)
           THEN CurrentStitch(pattern, NavigateBackward(pattern, pos))
           ELSE NoStitch

\* The bars of the groups, computed by a loop of ComputeProgress of their own,
\* add up to the overall bar, and none of them overflows.
GroupBarsAgree ==
  LET bars == [i \in DOMAIN pattern |-> CompletedInGroup(pattern, pos, i - 1)]
  IN  /\ PrefixSum(bars, Len(pattern)) = CompletedStitches(pattern, pos)
      /\ \A i \in DOMAIN pattern : bars[i] \in 0 .. TotalInGroup(pattern, i - 1)

-----------------------------------------------------------------------------
Cursor == INSTANCE StitchCursor WITH
  total  <- StitchCount(pattern),
  worked <- CompletedStitches(pattern, pos)

\* The five counters implement a single counter over the stitches of the
\* pattern: Next and Back move the progress by exactly one stitch (or, around
\* leading groups without entries, by none), and the session completes with
\* the last stitch.
ImplementsCursor == Cursor!CursorSpec

=============================================================================
