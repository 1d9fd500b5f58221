----------------------------- MODULE MCAccounts -----------------------------
(***************************************************************************)
(* Browsers, credentials and symmetry for Accounts.                        *)
(***************************************************************************)
EXTENDS Accounts, TLC

\* The browsers of one household.
OneAddress == [b \in Browsers |-> "home"]

\* "password must be at least 8 characters".
TooShort == {[email |-> "bob", password |-> "short"]}

\* Two people claim one e-mail address, and one of them has another.
TwoForOneAddress ==
  {[email |-> "ann", password |-> "first"], [email |-> "ann", password |-> "other"],
   [email |-> "bob", password |-> "other"]} \cup TooShort

Interchangeable == Permutations(Requests) \cup Permutations(Browsers)
=============================================================================
