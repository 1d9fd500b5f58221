------------------------------- MODULE MCEditor -------------------------------
(***************************************************************************)
(* A library for Editor: after an upgrade, a predefined stitch and one of  *)
(* the user's own have the same abbreviation.  And a pattern of three rows.*)
(***************************************************************************)
EXTENDS Editor, TLC

Row(a, owner) == [abbr |-> a, owner |-> owner, had |-> {a}]

AfterUpgrade == { << Row("dc", "ann"), Row("dc", Nobody) >> }

NoneOrThreeRows ==
  { NoPattern,
    [stitches |-> << [abbr |-> "dc", lib |-> 2] >>, groups |-> << << 1, 1, 1 >> >>] }
=============================================================================
