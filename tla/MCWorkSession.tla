---------------------------- MODULE MCWorkSession ----------------------------
(***************************************************************************)
(* Small patterns for WorkSession.                                         *)
(***************************************************************************)
EXTENDS WorkSession, TLC

Sc(n) == [count |-> n, repeat |-> 1, stitch |-> "sc"]
Dc(n) == [count |-> 1, repeat |-> n, stitch |-> "dc"]
Part(r, es) == [repeat |-> r, entries |-> es]

\* The owner adds or takes away groups.
Revisions ==
  { << Part(2, << Dc(2) >>), Part(1, << >>), Part(1, << Sc(1) >>) >>,
    << Part(1, << Sc(2) >>) >> }

\* The owner adds or takes away entries of a group.
ShorterOrLonger ==
  { << Part(1, << Sc(1), Dc(1), Sc(1) >>) >>, << Part(1, << Sc(1) >>) >> }

Interchangeable == Permutations(Requests)
=============================================================================
