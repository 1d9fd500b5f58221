----------------------------- MODULE RateLimiter -----------------------------
(***************************************************************************)
(* The token buckets that limit the requests of each address to the login  *)
(* and registration pages (internal/service/ratelimit.go).                 *)
(*                                                                         *)
(* Time is a clock of ticks.  The floating-point tokens are counted in a   *)
(* unit of which `Cost' make one token, so that a rate may be a fraction   *)
(* of a token per tick; rounding is left out.  Every critical section of   *)
(* the mutex is one action.                                                *)
(***************************************************************************)
EXTENDS Integers

CONSTANTS
  Keys,          \* client addresses
  Cost,          \* units per token: what one request costs
  Capacity,      \* units a full bucket holds
  Rate,          \* units added per tick
  StaleAfter,    \* the ten minutes after which a bucket is stale
  CleanupEvery,  \* the five minutes between two cleanups
  MaxTime        \* bound: the last tick

ASSUME RateLimiterAssumptions ==
  /\ Cost \in Nat \ {0} /\ Capacity \in Nat /\ Rate \in Nat
  /\ StaleAfter \in Nat /\ CleanupEvery \in Nat \ {0} /\ MaxTime \in Nat

VARIABLES
  now,      \* the clock
  due,      \* the ticker has fired and the cleanup has not run yet
  buckets,  \* the map: a bucket for each key in its domain
  answer,   \* the last answer of Allow
  window    \* history: requests of one key let through since some instant

vars == << now, due, buckets, answer, window >>

Init ==
  /\ now = 0
  /\ due = FALSE
  /\ buckets = [k \in {} |-> [tokens |-> 0, last |-> 0]]
  /\ answer \in [key : Keys, allowed : {TRUE}]
  /\ window \in [key : Keys, start : {0}, passed : {0}]

-----------------------------------------------------------------------------
\* What a bucket holds now: the refill is computed when the bucket is used.
Refilled(b) ==
  LET tokens == b.tokens + (now - b.last) * Rate
  IN  IF tokens < Capacity THEN tokens ELSE Capacity

Bucket(k) ==
  IF k \in DOMAIN buckets THEN buckets[k] ELSE [tokens |-> Capacity, last |-> now]

Answered(k, allowed) ==
  /\ answer' = [key |-> k, allowed |-> allowed]
  /\ window' = IF allowed /\ window.key = k
                 THEN [window EXCEPT !.passed = @ + 1]
                 ELSE window

\* Lets a request through as long as anything is left.
AllowAnyRest(k) ==
  LET tokens  == Refilled(Bucket(k))
      allowed == tokens > 0
      used    == [tokens |-> IF allowed THEN tokens - Cost ELSE tokens, last |-> now]
  IN  /\ buckets' = [j \in DOMAIN buckets \cup {k} |-> IF j = k THEN used ELSE buckets[j]]
      /\ Answered(k, allowed)
      /\ UNCHANGED << now, due >>

\* Allow: a new key starts with a full bucket.
Allow(k) ==
  LET tokens  == Refilled(Bucket(k))
      allowed == tokens >= Cost
      used    == [tokens |-> IF allowed THEN tokens - Cost ELSE tokens, last |-> now]
  IN  /\ buckets' = [j \in DOMAIN buckets \cup {k} |-> IF j = k THEN used ELSE buckets[j]]
      /\ Answered(k, allowed)
      /\ UNCHANGED << now, due >>

\* The channel of the ticker holds one tick; further ones are dropped.
Tick ==
  /\ now < MaxTime
  /\ now' = now + 1
  /\ due' = (due \/ now' % CleanupEvery = 0)
  /\ UNCHANGED << buckets, answer, window >>

Kept(keys) == buckets' = [k \in keys |-> buckets[k]]

\* Takes the period of the cleanup for the age of a stale bucket.
CleanupEarly ==
  /\ due
  /\ due' = FALSE
  /\ Kept({k \in DOMAIN buckets : buckets[k].last >= now - CleanupEvery})
  /\ UNCHANGED << now, answer, window >>

\* Compares the wrong way round.
CleanupFresh ==
  /\ due
  /\ due' = FALSE
  /\ Kept({k \in DOMAIN buckets : buckets[k].last <= now - StaleAfter})
  /\ UNCHANGED << now, answer, window >>

\* One round of cleanup, which the goroutine may come to late.
Cleanup ==
  /\ due
  /\ due' = FALSE
  /\ Kept({k \in DOMAIN buckets : buckets[k].last >= now - StaleAfter})
  /\ UNCHANGED << now, answer, window >>

\* An observer starts to count the requests of a key that are let through.
OpenWindow(k) ==
  /\ window' = [key |-> k, start |-> now, passed |-> 0]
  /\ UNCHANGED << now, due, buckets, answer >>

Next ==
  \/ \E k \in Keys : Allow(k) \/ OpenWindow(k)
  \/ Tick
  \/ Cleanup

Spec == Init /\ [][Next]_vars

-----------------------------------------------------------------------------
BucketType == [tokens : 0 .. Capacity, last : 0 .. now]

\* A bucket's tokens are between none and Capacity, and its time of the last
\* refill is not in the future.
TypeOK ==
  /\ now \in 0 .. MaxTime
  /\ due \in BOOLEAN
  /\ DOMAIN buckets \subseteq Keys
  /\ \A k \in DOMAIN buckets : buckets[k] \in BucketType
  /\ answer \in [key : Keys, allowed : BOOLEAN]
  /\ window \in [key : Keys, start : 0 .. now, passed : Nat]

\* From any instant on, an address gets no more requests through than a full
\* bucket and the refill of the time since then pay for, however its requests,
\* the cleanups and the requests of others are interleaved.
WindowBound ==
  window.passed * Cost <= Capacity + Rate * (now - window.start)

\* The map does not grow for ever: once a cleanup has run, no bucket in it has
\* gone unused for a stale age and one period.
StaleBucketsGo ==
  ~ due => \A k \in DOMAIN buckets : now - buckets[k].last < StaleAfter + CleanupEvery

-----------------------------------------------------------------------------
\* Forgetting a bucket gives its key a full one.  That makes no difference if
\* a stale bucket has had the time to fill up.  Without this condition it does:
\* at rate zero, which ratelimit_test.go:55 takes for "never refills", an empty
\* bucket becomes a full one when the cleanup forgets it.
CleanupIsLate == Capacity <= Rate * StaleAfter

Level(k) == IF k \in DOMAIN buckets THEN Refilled(buckets[k]) ELSE Capacity

Eager == INSTANCE EagerBucket WITH level <- [k \in Keys |-> Level(k)]

\* Refilling on use and forgetting stale buckets cannot be told from buckets
\* that are refilled on every tick and never forgotten: every answer of Allow
\* is the answer the eager bucket gives.
ImplementsEagerBucket == Eager!EagerSpec

=============================================================================
