---------------------------- MODULE StitchCursor ----------------------------
(***************************************************************************)
(* What a work session promises its user: the pattern is a straight line   *)
(* of `total' stitches, the session counts how many of them are worked,    *)
(* Next and Back move by exactly one stitch, and the session is completed  *)
(* by working the last one - never earlier, never later, and for good.     *)
(***************************************************************************)
EXTENDS Integers

VARIABLES
  total,   \* stitches in the pattern; fixed when the session starts
  worked,  \* stitches worked so far
  status   \* "active", "paused" or "completed"

cursorVars == << total, worked, status >>

CursorInit ==
  /\ total \in Nat
  /\ worked = 0
  /\ status = "active"

\* Working a stitch completes the session exactly when it was the last one.
WorkStitch ==
  /\ status = "active"
  /\ worked < total
  /\ worked' = worked + 1
  /\ status' = IF worked + 1 = total THEN "completed" ELSE "active"
  /\ UNCHANGED total

\* Pressing Next in a pattern without stitches completes it.
FinishEmpty ==
  /\ status = "active"
  /\ total = 0
  /\ status' = "completed"
  /\ UNCHANGED << total, worked >>

UndoStitch ==
  /\ status = "active"
  /\ worked > 0
  /\ worked' = worked - 1
  /\ UNCHANGED << total, status >>

CursorPause ==
  /\ status = "active"
  /\ status' = "paused"
  /\ UNCHANGED << total, worked >>

CursorResume ==
  /\ status = "paused"
  /\ status' = "active"
  /\ UNCHANGED << total, worked >>

CursorNext == WorkStitch \/ FinishEmpty \/ UndoStitch \/ CursorPause \/ CursorResume

CursorSpec == CursorInit /\ [][CursorNext]_cursorVars

=============================================================================
