------------------------------- MODULE MCImages -------------------------------
(***************************************************************************)
(* Forms for Images.                                                       *)
(***************************************************************************)
EXTENDS Images, TLC

\* The owner adds parts and removes the first, the middle or the last ones.
AnyPartChanges == { << 1 >>, << 1, 2 >>, << 1, 3 >>, << 2, 3 >>, << 1, 2, 3 >> }

\* The same with two parts.
OfTwoParts == { << 1 >>, << 2 >>, << 1, 2 >> }

Interchangeable == Permutations(Requests)
=============================================================================
