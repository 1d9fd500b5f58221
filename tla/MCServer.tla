------------------------------- MODULE MCServer -------------------------------
(***************************************************************************)
(* Two releases for Server: the second adds a migration and predefines     *)
(* another abbreviation.                                                   *)
(***************************************************************************)
EXTENDS Server

TwoReleases ==
  << [migrations |-> 2, predefined |-> << "sc" >>],
     [migrations |-> 3, predefined |-> << "sc", "dc" >>] >>
=============================================================================
