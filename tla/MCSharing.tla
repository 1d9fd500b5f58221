------------------------------ MODULE MCSharing ------------------------------
(***************************************************************************)
(* Users, patterns and requests for Sharing.                               *)
(***************************************************************************)
EXTENDS Sharing, TLC

CONSTANTS
  OfAlice,   \* the slots of requests that are Alice's; the others are Bob's
  Words      \* the names that patterns are given

AliceAndBob == {"alice", "bob"}

People == AliceAndBob \cup {"carol"}

JustAlice == {"alice"}

WordNames == {<< word >> : word \in Words}

OneForm == { << << "sc" >> >> }

\* The same stitches in one part and in two, so that a mixture shows.
TwoForms == { << << "sc", "dc" >> >>, << << "dc" >>, << "sc" >> >> }

AlicesAndBobs == [r \in Requests |-> IF r \in OfAlice THEN "alice" ELSE "bob"]

\* A slot may be exchanged for another one of the same user, and a name for
\* another.
Interchangeable ==
  Permutations(OfAlice) \cup Permutations(Requests \ OfAlice) \cup Permutations(Words)
=============================================================================
