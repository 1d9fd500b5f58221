----------------------------- MODULE EagerBucket -----------------------------
(***************************************************************************)
(* What the rate limiter promises each client: a bucket that starts full,  *)
(* is refilled on every tick of the clock, is never forgotten, and pays    *)
(* for each request that is let through.                                   *)
(***************************************************************************)
EXTENDS Integers

CONSTANTS Keys, Cost, Capacity, Rate

VARIABLES
  now,    \* the clock
  level,  \* what the bucket of each client holds
  answer  \* the last answer given: to whom, and whether the request passed

eagerVars == << now, level, answer >>

CappedAt(c, x) == IF x < c THEN x ELSE c

EagerInit ==
  /\ now = 0
  /\ level = [k \in Keys |-> Capacity]
  /\ answer \in [key : Keys, allowed : {TRUE}]

Refill ==
  /\ now' = now + 1
  /\ level' = [k \in Keys |-> CappedAt(Capacity, level[k] + Rate)]
  /\ UNCHANGED answer

Pass(k) ==
  /\ level[k] >= Cost
  /\ level' = [level EXCEPT ![k] = @ - Cost]
  /\ answer' = [key |-> k, allowed |-> TRUE]
  /\ UNCHANGED now

Refuse(k) ==
  /\ level[k] < Cost
  /\ answer' = [key |-> k, allowed |-> FALSE]
  /\ UNCHANGED << now, level >>

EagerNext == Refill \/ \E k \in Keys : Pass(k) \/ Refuse(k)

EagerSpec == EagerInit /\ [][EagerNext]_eagerVars

=============================================================================
