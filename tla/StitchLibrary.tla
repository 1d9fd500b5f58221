---------------------------- MODULE StitchLibrary ----------------------------
(***************************************************************************)
(* What the stitch library promises: predefined stitches that everybody    *)
(* sees, and the stitches a user has made.  Each abbreviation means one    *)
(* predefined stitch at most, and one of each user's own; a user cannot    *)
(* take an abbreviation that is predefined.                                *)
(*                                                                         *)
(* A later release may predefine an abbreviation that users already have   *)
(* given to stitches of their own; those keep it.                          *)
(***************************************************************************)
EXTENDS Naturals

CONSTANTS
  Users, Abbreviations,
  Nobody   \* the owner of a predefined stitch (user_id IS NULL)

VARIABLE library  \* a function from the ids in use to stitches

\* `had': every abbreviation the stitch has had.
Stitch(a, owner) == [abbr |-> a, owner |-> owner, had |-> {a}]

AbbreviationsOf(owner) ==
  {library[i].abbr : i \in {j \in DOMAIN library : library[j].owner = owner}}

Reserved == AbbreviationsOf(Nobody)

LibraryInit == library = << >>

With(rows, id, s) == [i \in DOMAIN rows \cup {id} |-> IF i = id THEN s ELSE rows[i]]

NewStitch(id, s) == id \notin DOMAIN library /\ library' = With(library, id, s)

Predefine(id, a) == a \notin Reserved /\ NewStitch(id, Stitch(a, Nobody))

Add(id, u, a) == a \notin Reserved \cup AbbreviationsOf(u) /\ NewStitch(id, Stitch(a, u))

\* A stitch may get back an abbreviation it has had, though it is predefined
\* by now.
Rename(id, a) ==
  /\ library[id].owner # Nobody
  /\ a \notin AbbreviationsOf(library[id].owner)
  /\ a \notin Reserved \/ a \in library[id].had
  /\ library' = [library EXCEPT ![id].abbr = a, ![id].had = @ \cup {a}]

Remove(id) ==
  /\ library[id].owner # Nobody
  /\ library' = [i \in DOMAIN library \ {id} |-> library[i]]

LibraryNext ==
  \/ \E id \in DOMAIN library' : \E a \in Abbreviations :
       Predefine(id, a) \/ \E u \in Users : Add(id, u, a)
  \/ \E id \in DOMAIN library : Remove(id) \/ \E a \in Abbreviations : Rename(id, a)

LibrarySpec == LibraryInit /\ [][LibraryNext]_library
=============================================================================
