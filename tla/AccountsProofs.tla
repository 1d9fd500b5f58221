--------------------------- MODULE AccountsProofs ---------------------------
(***************************************************************************)
(* Proofs about RateLimiter and Accounts.                                  *)
(*                                                                         *)
(* First the limiter by itself, for every number of clients, every cost,   *)
(* capacity and rate, and every period of the cleanup: the bound on the    *)
(* requests let through, that the lazily refilled, forgetful buckets       *)
(* implement eager ones, provided a stale bucket has had time to fill up,  *)
(* and that the map of buckets does not grow for ever.                     *)
(*                                                                         *)
(* Then the accounts behind it, for every number of browsers, addresses    *)
(* and requests in progress: the rate limiter inside runs as RateLimiter   *)
(* says, so that what is proved of it carries over; the passwords checked  *)
(* for an address are bounded; who is promised an account can log in; and  *)
(* a request acts only for a user whose password its browser gave.         *)
(***************************************************************************)
EXTENDS Accounts, FiniteSetTheorems, TLAPS


\* The part of the type invariant that these bounds rest on.
Typed ==
  /\ now \in Nat
  /\ DOMAIN buckets \subseteq Keys
  /\ \A k \in DOMAIN buckets : buckets[k] \in BucketType

-----------------------------------------------------------------------------
(***************************************************************************)
(* Refilling.                                                              *)
(***************************************************************************)

\* A refilled bucket holds no less than it did, and no more than it can.
LEMMA RefilledInRange ==
  ASSUME now \in Nat, NEW b \in BucketType
  PROVE  Refilled(b) \in 0 .. Capacity
<1>1. now - b.last \in Nat
  BY DEF BucketType
<1>2. (now - b.last) * Rate \in Nat
  BY <1>1, RateLimiterAssumptions DEF RateLimiterAssumptions
<1>3. b.tokens \in 0 .. Capacity
  BY DEF BucketType
<1> QED
  BY <1>2, <1>3, RateLimiterAssumptions DEF Refilled, RateLimiterAssumptions

\* Nothing is added to a bucket that has just been used.
LEMMA RefilledAtOnce ==
  ASSUME now \in Nat, NEW n \in 0 .. Capacity
  PROVE  Refilled([tokens |-> n, last |-> now]) = n
BY RateLimiterAssumptions DEF Refilled, RateLimiterAssumptions

\* The bucket of every key, in the map or not, holds between nothing and all.
LEMMA LevelInRange ==
  ASSUME Typed, NEW k \in Keys
  PROVE  Level(k) \in 0 .. Capacity
BY RefilledInRange, RateLimiterAssumptions DEF Typed, Level, RateLimiterAssumptions

\* Allow finds in the bucket what the bucket of the key holds.
LEMMA BucketLevel ==
  ASSUME Typed, NEW k \in Keys
  PROVE  Refilled(Bucket(k)) = Level(k)
<1>1. CASE k \in DOMAIN buckets
  BY <1>1 DEF Bucket, Level
<1>2. CASE k \notin DOMAIN buckets
  <2>1. Capacity \in 0 .. Capacity
    BY RateLimiterAssumptions DEF RateLimiterAssumptions
  <2> QED
    BY <1>2, <2>1, RefilledAtOnce DEF Bucket, Level, Typed
<1> QED
  BY <1>1, <1>2

-----------------------------------------------------------------------------
(***************************************************************************)
(* What each step does to the levels.                                      *)
(***************************************************************************)

\* Allow pays for a request if the bucket can, and touches no other bucket.
LEMMA LevelAfterAllow ==
  ASSUME Typed, NEW k \in Keys, Allow(k)
  PROVE  /\ Typed'
         /\ Level(k)' = IF Level(k) >= Cost THEN Level(k) - Cost ELSE Level(k)
         /\ Answered(k, Level(k) >= Cost)
         /\ \A j \in Keys \ {k} : Level(j)' = Level(j)
<1> DEFINE rest == IF Level(k) >= Cost THEN Level(k) - Cost ELSE Level(k)
           used == [tokens |-> rest, last |-> now]
<1>1. /\ buckets' = [j \in DOMAIN buckets \cup {k} |-> IF j = k THEN used ELSE buckets[j]]
      /\ Answered(k, Level(k) >= Cost)
      /\ now' = now
  BY BucketLevel DEF Allow
<1>2. rest \in 0 .. Capacity
  BY LevelInRange, RateLimiterAssumptions DEF RateLimiterAssumptions
<1>3. used \in BucketType
  BY <1>2 DEF BucketType, Typed
<1> HIDE DEF used
<1>4. Typed'
  BY <1>1, <1>3 DEF Typed, BucketType
<1>5. Level(k)' = Refilled(used)
  BY <1>1 DEF Level, Refilled
<1>6. Refilled(used) = rest
  BY <1>2, RefilledAtOnce DEF used, Typed
<1>7. \A j \in Keys \ {k} : Level(j)' = Level(j)
  BY <1>1 DEF Level, Refilled
<1> QED
  BY <1>1, <1>4, <1>5, <1>6, <1>7

\* On a tick every bucket gets its refill, up to the capacity.
LEMMA LevelAfterTick ==
  ASSUME Typed, Tick
  PROVE  /\ Typed'
         /\ \A k \in Keys :
              Level(k)' = IF Level(k) + Rate < Capacity THEN Level(k) + Rate ELSE Capacity
<1>1. now' = now + 1 /\ buckets' = buckets
  BY DEF Tick
<1>2. Typed'
  BY <1>1 DEF Typed, BucketType
<1>3. ASSUME NEW k \in Keys
      PROVE  Level(k)' = IF Level(k) + Rate < Capacity THEN Level(k) + Rate ELSE Capacity
  <2>1. CASE k \in DOMAIN buckets
    <3> DEFINE t == buckets[k].tokens
               e == now - buckets[k].last
    <3>1. t \in Nat /\ e \in Nat /\ now \in Nat /\ buckets[k].last \in Nat
      BY <2>1 DEF Typed, BucketType
    <3>2. Level(k) = IF t + e * Rate < Capacity THEN t + e * Rate ELSE Capacity
      BY <2>1 DEF Level, Refilled
    <3>3. Level(k)' = IF t + (e + 1) * Rate < Capacity THEN t + (e + 1) * Rate ELSE Capacity
      <4>1. Level(k)' = Refilled(buckets[k])'
        BY <2>1, <1>1 DEF Level
      <4>2. (now - buckets[k].last)' = e + 1
        BY <1>1, <3>1
      <4>3. buckets[k].tokens' = t
        BY <1>1
      <4> QED
        BY <4>1, <4>2, <4>3 DEF Refilled
    <3> HIDE DEF t, e
    <3>4. (e + 1) * Rate = e * Rate + Rate /\ e * Rate \in Nat
      BY <3>1, RateLimiterAssumptions DEF RateLimiterAssumptions
    <3> QED
      BY <3>1, <3>2, <3>3, <3>4, RateLimiterAssumptions DEF RateLimiterAssumptions
  <2>2. CASE k \notin DOMAIN buckets
    BY <1>1, <2>2, RateLimiterAssumptions DEF Level, RateLimiterAssumptions
  <2> QED
    BY <2>1, <2>2
<1> QED
  BY <1>2, <1>3

\* Forgetting stale buckets changes no level: they are full.
LEMMA LevelAfterCleanup ==
  ASSUME Typed, CleanupIsLate, Cleanup
  PROVE  Typed' /\ \A k \in Keys : Level(k)' = Level(k)
<1> DEFINE keys == {k \in DOMAIN buckets : buckets[k].last >= now - StaleAfter}
<1>1. now' = now /\ buckets' = [k \in keys |-> buckets[k]]
  BY DEF Cleanup, Kept
<1>2. Typed'
  BY <1>1 DEF Typed, BucketType
<1>3. ASSUME NEW k \in Keys
      PROVE  Level(k)' = Level(k)
  <2>1. CASE k \notin DOMAIN buckets
    BY <1>1, <2>1 DEF Level
  <2>2. CASE k \in keys
    BY <1>1, <2>2 DEF Level, Refilled
  <2>3. CASE k \in DOMAIN buckets /\ k \notin keys
    <3> DEFINE t == buckets[k].tokens
               e == now - buckets[k].last
    <3>1. t \in Nat /\ e \in Nat /\ e >= StaleAfter
      BY <2>3, RateLimiterAssumptions DEF Typed, BucketType, RateLimiterAssumptions
    <3>2. Level(k) = IF t + e * Rate < Capacity THEN t + e * Rate ELSE Capacity
      BY <2>3 DEF Level, Refilled
    <3>3. Level(k)' = Capacity
      BY <1>1, <2>3 DEF Level
    <3> HIDE DEF t, e
    <3>4. e * Rate >= Rate * StaleAfter /\ e * Rate \in Nat /\ Rate * StaleAfter \in Nat
      BY <3>1, RateLimiterAssumptions DEF RateLimiterAssumptions
    <3>5. t + e * Rate >= Capacity
      BY <3>1, <3>4, RateLimiterAssumptions DEF CleanupIsLate, RateLimiterAssumptions
    <3> QED
      BY <3>1, <3>2, <3>3, <3>4, <3>5, RateLimiterAssumptions DEF RateLimiterAssumptions
  <2> QED
    BY <2>1, <2>2, <2>3
<1> QED
  BY <1>2, <1>3

-----------------------------------------------------------------------------
(***************************************************************************)
(* The bound on the requests of a window.                                  *)
(***************************************************************************)
WindowTyped == window \in [key : Keys, start : 0 .. now, passed : Nat]

\* What has been let through since the window was opened, and what the bucket
\* still holds, was there when it was opened or came in by the refill.
Balance ==
  Level(window.key) + window.passed * Cost <= Capacity + Rate * (now - window.start)

LimiterInv == Typed /\ WindowTyped /\ Balance

\* The invariant holds at the start, when every bucket is full.
LEMMA LimiterInvInit == Init => LimiterInv
BY RateLimiterAssumptions
   DEF Init, LimiterInv, Typed, WindowTyped, Balance, Level, RateLimiterAssumptions

\* One token more for the requests that passed is one less in the bucket.
LEMMA AllowKeepsBalance ==
  ASSUME LimiterInv, NEW k \in Keys, Allow(k)
  PROVE  LimiterInv'
<1>1. /\ Typed'
      /\ Level(k)' = IF Level(k) >= Cost THEN Level(k) - Cost ELSE Level(k)
      /\ Answered(k, Level(k) >= Cost)
      /\ \A j \in Keys \ {k} : Level(j)' = Level(j)
  BY LevelAfterAllow DEF LimiterInv
<1>2. now' = now
  BY DEF Allow
<1>3. /\ window.key \in Keys /\ window.start \in 0 .. now /\ window.passed \in Nat
      /\ Level(window.key) \in Int /\ Cost \in Nat /\ Rate \in Nat /\ now \in Nat
  BY LevelInRange, RateLimiterAssumptions
     DEF LimiterInv, WindowTyped, Typed, RateLimiterAssumptions
<1>4. CASE Level(k) >= Cost /\ window.key = k
  <2>1. window' = [window EXCEPT !.passed = window.passed + 1]
    BY <1>1, <1>4 DEF Answered
  <2>2. WindowTyped' /\ window'.key = k /\ window'.start = window.start
          /\ window'.passed = window.passed + 1
    BY <2>1, <1>2, <1>3, <1>4 DEF LimiterInv, WindowTyped
  <2>3. Level(window.key)' = Level(k) - Cost
    BY <1>1, <1>4, <2>2
  <2>4. (window.passed + 1) * Cost = window.passed * Cost + Cost
          /\ window.passed * Cost \in Nat /\ Rate * (now - window.start) \in Nat
    BY <1>3
  <2>5. Balance'
    BY <1>2, <1>3, <1>4, <2>2, <2>3, <2>4, RateLimiterAssumptions
       DEF LimiterInv, Balance, RateLimiterAssumptions
  <2> QED
    BY <1>1, <2>2, <2>5 DEF LimiterInv
<1>5. CASE ~ (Level(k) >= Cost /\ window.key = k)
  <2>1. window' = window
    BY <1>1, <1>5 DEF Answered
  <2>2. Level(window.key)' = Level(window.key)
    BY <1>1, <1>3, <1>5, <2>1
  <2> QED
    BY <1>1, <1>2, <2>1, <2>2 DEF LimiterInv, WindowTyped, Balance
<1> QED
  BY <1>4, <1>5

\* A tick gives the bucket no more than it adds to the bound.
LEMMA TickKeepsBalance ==
  ASSUME LimiterInv, Tick
  PROVE  LimiterInv'
<1>1. /\ Typed'
      /\ \A k \in Keys :
           Level(k)' = IF Level(k) + Rate < Capacity THEN Level(k) + Rate ELSE Capacity
  BY LevelAfterTick DEF LimiterInv
<1>2. now' = now + 1 /\ window' = window
  BY DEF Tick
<1>3. /\ window.key \in Keys /\ window.start \in 0 .. now /\ window.passed \in Nat
      /\ Level(window.key) \in Int /\ now \in Nat
      /\ Cost \in Nat /\ Rate \in Nat /\ Capacity \in Nat
  BY LevelInRange, RateLimiterAssumptions
     DEF LimiterInv, WindowTyped, Typed, RateLimiterAssumptions
<1>4. Rate * (now + 1 - window.start) = Rate * (now - window.start) + Rate
        /\ Rate * (now - window.start) \in Nat /\ window.passed * Cost \in Nat
  BY <1>3
<1>5. Level(window.key)' <= Level(window.key) + Rate /\ Level(window.key)' \in Int
  BY <1>1, <1>2, <1>3
<1>6. Balance'
  BY <1>2, <1>3, <1>4, <1>5 DEF LimiterInv, Balance
<1>7. WindowTyped'
  BY <1>2, <1>3 DEF LimiterInv, WindowTyped
<1> QED
  BY <1>1, <1>6, <1>7 DEF LimiterInv

\* Cleanup changes no level; a window opens on what the bucket can hold.
LEMMA LimiterInvStep ==
  ASSUME CleanupIsLate, LimiterInv, [Next]_vars
  PROVE  LimiterInv'
<1>1. ASSUME NEW k \in Keys, Allow(k)
      PROVE  LimiterInv'
  BY <1>1, AllowKeepsBalance
<1>2. ASSUME NEW k \in Keys, OpenWindow(k)
      PROVE  LimiterInv'
  <2>1. /\ now' = now /\ buckets' = buckets
        /\ window' = [key |-> k, start |-> now, passed |-> 0]
    BY <1>2 DEF OpenWindow
  <2>2. Typed' /\ WindowTyped'
    BY <2>1 DEF LimiterInv, Typed, WindowTyped, BucketType
  <2>3. Level(k)' = Level(k) /\ Level(k) \in 0 .. Capacity
    BY <2>1, LevelInRange DEF LimiterInv, Level, Refilled
  <2>4. Rate * (now - now) = 0 /\ 0 * Cost = 0
    BY RateLimiterAssumptions DEF LimiterInv, Typed, RateLimiterAssumptions
  <2>5. Balance'
    BY <2>1, <2>3, <2>4, RateLimiterAssumptions DEF Balance, RateLimiterAssumptions
  <2> QED
    BY <2>2, <2>5 DEF LimiterInv
<1>3. CASE Tick
  BY <1>3, TickKeepsBalance
<1>4. CASE Cleanup
  <2>1. Typed' /\ \A k \in Keys : Level(k)' = Level(k)
    BY <1>4, LevelAfterCleanup DEF LimiterInv
  <2>2. now' = now /\ window' = window
    BY <1>4 DEF Cleanup
  <2> QED
    BY <2>1, <2>2 DEF LimiterInv, WindowTyped, Balance
<1>5. CASE UNCHANGED vars
  BY <1>5 DEF vars, LimiterInv, Typed, WindowTyped, Balance, BucketType, Level, Refilled
<1> QED
  BY <1>1, <1>2, <1>3, <1>4, <1>5 DEF Next

\* No address ever gets more requests through than a full bucket and the
\* refill pay for, in any window of time, as long as a stale bucket has had
\* the time to fill up.
THEOREM WindowIsBounded == CleanupIsLate => (Spec => []WindowBound)
<1> SUFFICES ASSUME CleanupIsLate
             PROVE  Spec => []WindowBound
  OBVIOUS
<1>1. LimiterInv /\ [Next]_vars => LimiterInv'
  BY LimiterInvStep
<1>2. LimiterInv => WindowBound
  <2> SUFFICES ASSUME LimiterInv
               PROVE  WindowBound
    OBVIOUS
  <2>1. Level(window.key) \in Nat /\ window.passed * Cost \in Nat
          /\ Rate * (now - window.start) \in Nat /\ Capacity \in Nat
    BY LevelInRange, RateLimiterAssumptions
       DEF LimiterInv, Typed, WindowTyped, RateLimiterAssumptions
  <2> QED
    BY <2>1 DEF LimiterInv, Balance, WindowBound
<1> QED
  BY LimiterInvInit, <1>1, <1>2, PTL DEF Spec

-----------------------------------------------------------------------------
(***************************************************************************)
(* The refinement.                                                         *)
(***************************************************************************)

\* Every step is a step of the eager bucket, or changes no level and no answer.
LEMMA EagerStep ==
  ASSUME CleanupIsLate, Typed, [Next]_vars
  PROVE  [Eager!EagerNext]_(Eager!eagerVars)
<1> DEFINE level == [k \in Keys |-> Level(k)]
<1>1. ASSUME NEW k \in Keys, Allow(k)
      PROVE  Eager!EagerNext
  <2>1. /\ Level(k)' = IF Level(k) >= Cost THEN Level(k) - Cost ELSE Level(k)
        /\ answer' = [key |-> k, allowed |-> Level(k) >= Cost]
        /\ \A j \in Keys \ {k} : Level(j)' = Level(j)
    BY <1>1, LevelAfterAllow DEF Answered
  <2> now' = now
    BY <1>1 DEF Allow
  <2>2. CASE Level(k) >= Cost
    <3>1. level' = [level EXCEPT ![k] = level[k] - Cost]
      BY <2>1, <2>2
    <3>2. answer' = [key |-> k, allowed |-> TRUE]
      BY <2>1, <2>2
    <3>3. level[k] >= Cost
      BY <2>2
    <3>4. Eager!Pass(k)
      BY <3>1, <3>2, <3>3 DEF Eager!Pass
    <3> QED
      BY <3>4 DEF Eager!EagerNext
  <2>3. CASE ~ (Level(k) >= Cost)
    <3>1. level' = level
      BY <2>1, <2>3
    <3>2. level[k] < Cost /\ (Level(k) >= Cost) = FALSE
      BY <2>3, LevelInRange, RateLimiterAssumptions DEF RateLimiterAssumptions
    <3>3. answer' = [key |-> k, allowed |-> FALSE]
      BY <2>1, <3>2
    <3>4. Eager!Refuse(k)
      BY <3>1, <3>2, <3>3 DEF Eager!Refuse
    <3> QED
      BY <3>4 DEF Eager!EagerNext
  <2> QED
    BY <2>2, <2>3
<1>2. ASSUME NEW k \in Keys, OpenWindow(k)
      PROVE  UNCHANGED << now, level, answer >>
  BY <1>2 DEF OpenWindow, Level, Refilled
<1>3. CASE Tick
  <2>1. \A k \in Keys :
          Level(k)' = IF Level(k) + Rate < Capacity THEN Level(k) + Rate ELSE Capacity
    BY <1>3, LevelAfterTick
  <2>2. level' = [k \in Keys |-> Eager!CappedAt(Capacity, level[k] + Rate)]
    BY <2>1 DEF Eager!CappedAt
  <2>3. answer' = answer /\ now' = now + 1
    BY <1>3 DEF Tick
  <2>4. Eager!Refill
    BY <2>2, <2>3 DEF Eager!Refill
  <2> QED
    BY <2>4 DEF Eager!EagerNext
<1>4. CASE Cleanup
  <2>1. \A k \in Keys : Level(k)' = Level(k)
    BY <1>4, LevelAfterCleanup
  <2>2. answer' = answer /\ now' = now
    BY <1>4 DEF Cleanup
  <2> QED
    BY <2>1, <2>2 DEF Eager!eagerVars
<1>5. CASE UNCHANGED vars
  BY <1>5 DEF vars, Eager!eagerVars, Level, Refilled
<1> QED
  BY <1>1, <1>2, <1>3, <1>4, <1>5 DEF Next, Eager!eagerVars

\* Refilling on use and forgetting stale buckets is invisible: the limiter
\* answers as if every bucket were refilled on every tick and kept for ever,
\* as long as a stale bucket has had the time to fill up.
THEOREM RateLimiterIsEager == CleanupIsLate => (Spec => ImplementsEagerBucket)
<1> SUFFICES ASSUME CleanupIsLate
             PROVE  Spec => ImplementsEagerBucket
  OBVIOUS
<1>1. Init => Typed /\ Eager!EagerInit
  <2> SUFFICES ASSUME Init
               PROVE  Typed /\ Eager!EagerInit
    OBVIOUS
  <2>1. now = 0 /\ DOMAIN buckets = {} /\ answer \in [key : Keys, allowed : {TRUE}]
    BY DEF Init
  <2>2. \A k \in Keys : Level(k) = Capacity
    BY <2>1 DEF Level
  <2> QED
    BY <2>1, <2>2 DEF Typed, Eager!EagerInit
<1>2. Typed /\ [Next]_vars => Typed'
  <2> SUFFICES ASSUME Typed, [Next]_vars
               PROVE  Typed'
    OBVIOUS
  <2>1. ASSUME NEW k \in Keys, Allow(k) \/ OpenWindow(k)
        PROVE  Typed'
    BY <2>1, LevelAfterAllow DEF OpenWindow, Typed, BucketType
  <2>2. CASE Tick
    BY <2>2, LevelAfterTick
  <2>3. CASE Cleanup
    BY <2>3, LevelAfterCleanup
  <2>4. CASE UNCHANGED vars
    BY <2>4 DEF vars, Typed, BucketType
  <2> QED
    BY <2>1, <2>2, <2>3, <2>4 DEF Next
<1>3. Typed /\ [Next]_vars => [Eager!EagerNext]_(Eager!eagerVars)
  BY EagerStep
<1> QED
  BY <1>1, <1>2, <1>3, PTL DEF Spec, ImplementsEagerBucket, Eager!EagerSpec

-----------------------------------------------------------------------------
(***************************************************************************)
(* Types, and the buckets the cleanup takes away.                          *)
(***************************************************************************)

\* The times at which the ticker fires are the multiples of the period.
LEMMA TickerFires ==
  ASSUME NEW m \in Nat
  PROVE  (m * CleanupEvery) % CleanupEvery = 0
BY RateLimiterAssumptions DEF RateLimiterAssumptions

\* No bucket in the map was stale when the last ticker fired whose cleanup has
\* run: between that time and now lies less than a period.
RecentlyCleaned ==
  \E m \in Nat :
    /\ m * CleanupEvery <= now
    /\ now < (m + 1) * CleanupEvery
    /\ ~ due => \A k \in DOMAIN buckets : m * CleanupEvery <= buckets[k].last + StaleAfter

\* Every step keeps the types; this needs no condition on the cleanup.
LEMMA TypeStep ==
  ASSUME TypeOK, [Next]_vars
  PROVE  TypeOK'
<1>0. now \in Nat /\ MaxTime \in Nat /\ Typed
  BY RateLimiterAssumptions DEF TypeOK, Typed, RateLimiterAssumptions
<1>1. ASSUME NEW k \in Keys, Allow(k)
      PROVE  TypeOK'
  <2>1. Typed' /\ Answered(k, Level(k) >= Cost) /\ now' = now /\ due' = due
    BY <1>0, <1>1, LevelAfterAllow DEF Allow
  <2>2. answer' \in [key : Keys, allowed : BOOLEAN]
    BY <2>1 DEF Answered
  <2>3. window' \in [key : Keys, start : 0 .. now, passed : Nat]
    BY <2>1 DEF Answered, TypeOK
  <2> QED
    BY <2>1, <2>2, <2>3 DEF TypeOK, Typed
<1>2. ASSUME NEW k \in Keys, OpenWindow(k)
      PROVE  TypeOK'
  <2>1. /\ window' = [key |-> k, start |-> now, passed |-> 0]
        /\ now' = now /\ due' = due /\ buckets' = buckets /\ answer' = answer
    BY <1>2 DEF OpenWindow
  <2>2. window' \in [key : Keys, start : 0 .. now, passed : Nat]
    BY <1>0, <2>1
  <2> QED
    BY <2>1, <2>2 DEF TypeOK, BucketType
<1>3. CASE Tick
  <2>1. /\ now' = now + 1 /\ now < MaxTime /\ due' \in BOOLEAN
        /\ buckets' = buckets /\ answer' = answer /\ window' = window
    BY <1>3 DEF Tick
  <2>2. now' \in 0 .. MaxTime
    BY <1>0, <2>1
  <2>3. \A k \in DOMAIN buckets' : buckets'[k] \in BucketType'
    BY <1>0, <2>1 DEF TypeOK, BucketType
  <2>4. window' \in [key : Keys, start : 0 .. now', passed : Nat]
    BY <1>0, <2>1 DEF TypeOK
  <2> QED
    BY <2>1, <2>2, <2>3, <2>4 DEF TypeOK
<1>4. CASE Cleanup
  BY <1>4 DEF Cleanup, Kept, TypeOK, BucketType
<1>5. CASE UNCHANGED vars
  BY <1>5 DEF vars, TypeOK, BucketType
<1> QED
  BY <1>1, <1>2, <1>3, <1>4, <1>5 DEF Next

\* The types hold initially.
LEMMA TypeInit == Init => TypeOK
<1> SUFFICES ASSUME Init
             PROVE  TypeOK
  OBVIOUS
<1>1. answer \in [key : Keys, allowed : BOOLEAN]
  BY DEF Init
<1>2. window \in [key : Keys, start : 0 .. now, passed : Nat]
  BY DEF Init
<1>3. due \in BOOLEAN
  BY Zenon DEF Init
<1>4. now = 0 /\ DOMAIN buckets = {}
  BY DEF Init
<1>5. now \in 0 .. MaxTime
  BY <1>4, RateLimiterAssumptions DEF RateLimiterAssumptions
<1> QED
  BY <1>1, <1>2, <1>3, <1>4, <1>5 DEF TypeOK

\* Bucket levels stay between nothing and the capacity, and no refill has a
\* time that is still to come.
THEOREM LimiterTypeCorrect == Spec => []TypeOK
<1>1. TypeOK /\ [Next]_vars => TypeOK'
  BY TypeStep
<1> QED
  BY TypeInit, <1>1, PTL DEF Spec

\* A tick either leaves the last time of the ticker, or is one of its times.
LEMMA TickKeepsCleaned ==
  ASSUME TypeOK, RecentlyCleaned, Tick
  PROVE  RecentlyCleaned'
<1>1. PICK m \in Nat :
        /\ m * CleanupEvery <= now
        /\ now < (m + 1) * CleanupEvery
        /\ ~ due => \A k \in DOMAIN buckets : m * CleanupEvery <= buckets[k].last + StaleAfter
  BY DEF RecentlyCleaned
<1>2. /\ now' = now + 1 /\ buckets' = buckets
      /\ due' = (due \/ now' % CleanupEvery = 0)
  BY DEF Tick
<1>3. /\ now \in Nat /\ CleanupEvery \in Nat /\ 0 < CleanupEvery
      /\ m * CleanupEvery \in Nat /\ (m + 1) * CleanupEvery \in Nat
      /\ (m + 2) * CleanupEvery = (m + 1) * CleanupEvery + CleanupEvery
  BY RateLimiterAssumptions DEF TypeOK, RateLimiterAssumptions
<1>4. CASE now + 1 = (m + 1) * CleanupEvery
  <2>1. now' % CleanupEvery = 0
    BY <1>2, <1>4, TickerFires
  <2>2. due'
    BY <1>2, <2>1
  <2>3. (m + 1) * CleanupEvery <= now' /\ now' < ((m + 1) + 1) * CleanupEvery
    BY <1>2, <1>3, <1>4
  <2> QED
    BY <2>2, <2>3 DEF RecentlyCleaned
<1>5. CASE now + 1 # (m + 1) * CleanupEvery
  <2>1. m * CleanupEvery <= now' /\ now' < (m + 1) * CleanupEvery
    BY <1>1, <1>2, <1>3, <1>5
  <2> QED
    BY <1>1, <1>2, <2>1 DEF RecentlyCleaned
<1> QED
  BY <1>4, <1>5

\* A request only makes its bucket younger; a cleanup leaves no stale one.
LEMMA CleanedStep ==
  ASSUME TypeOK, RecentlyCleaned, [Next]_vars
  PROVE  RecentlyCleaned'
<1>1. PICK m \in Nat :
        /\ m * CleanupEvery <= now
        /\ now < (m + 1) * CleanupEvery
        /\ ~ due => \A k \in DOMAIN buckets : m * CleanupEvery <= buckets[k].last + StaleAfter
  BY DEF RecentlyCleaned
<1>2. /\ now \in Nat /\ StaleAfter \in Nat /\ m * CleanupEvery \in Nat
      /\ \A k \in DOMAIN buckets : buckets[k].last \in Nat
  BY RateLimiterAssumptions DEF TypeOK, BucketType, RateLimiterAssumptions
<1>3. ASSUME NEW k \in Keys, Allow(k)
      PROVE  RecentlyCleaned'
  <2>1. /\ now' = now /\ due' = due
        /\ DOMAIN buckets' = DOMAIN buckets \cup {k}
        /\ buckets'[k].last = now
        /\ \A j \in DOMAIN buckets : j # k => buckets'[j] = buckets[j]
    BY <1>3 DEF Allow
  <2>2. m * CleanupEvery <= now + StaleAfter
    BY <1>1, <1>2
  <2>3. ~ due' => \A j \in DOMAIN buckets' : m * CleanupEvery <= buckets'[j].last + StaleAfter
    BY <1>1, <2>1, <2>2
  <2> QED
    BY <1>1, <2>1, <2>3 DEF RecentlyCleaned
<1>4. ASSUME NEW k \in Keys, OpenWindow(k)
      PROVE  RecentlyCleaned'
  BY <1>4 DEF OpenWindow, RecentlyCleaned
<1>5. CASE Tick
  BY <1>5, TickKeepsCleaned
<1>6. CASE Cleanup
  <2>1. /\ now' = now
        /\ DOMAIN buckets' \subseteq DOMAIN buckets
        /\ \A k \in DOMAIN buckets' :
             buckets'[k] = buckets[k] /\ buckets[k].last >= now - StaleAfter
    BY <1>6 DEF Cleanup, Kept
  <2>2. \A k \in DOMAIN buckets' : m * CleanupEvery <= buckets'[k].last + StaleAfter
    BY <1>1, <1>2, <2>1
  <2> QED
    BY <1>1, <2>1, <2>2 DEF RecentlyCleaned
<1>7. CASE UNCHANGED vars
  BY <1>7 DEF vars, RecentlyCleaned
<1> QED
  BY <1>3, <1>4, <1>5, <1>6, <1>7 DEF Next

\* ratelimit.go's cleanup: the map keeps no bucket for ever.  Whenever no cleanup
\* is outstanding, each has been used within the stale age and one period.
THEOREM StaleBucketsAreDropped == Spec => []StaleBucketsGo
<1>1. Init => RecentlyCleaned
  <2> SUFFICES ASSUME Init
               PROVE  RecentlyCleaned
    OBVIOUS
  <2>1. now = 0 /\ DOMAIN buckets = {}
    BY DEF Init
  <2>2. 0 * CleanupEvery <= now /\ now < (0 + 1) * CleanupEvery
    BY <2>1, RateLimiterAssumptions DEF RateLimiterAssumptions
  <2> QED
    BY <2>1, <2>2 DEF RecentlyCleaned
<1>2. TypeOK /\ RecentlyCleaned /\ [Next]_vars => RecentlyCleaned'
  BY CleanedStep
<1>3. TypeOK /\ RecentlyCleaned => StaleBucketsGo
  <2> SUFFICES ASSUME TypeOK, RecentlyCleaned, ~ due, NEW k \in DOMAIN buckets
               PROVE  now - buckets[k].last < StaleAfter + CleanupEvery
    BY DEF StaleBucketsGo
  <2>1. PICK m \in Nat :
          /\ now < (m + 1) * CleanupEvery
          /\ m * CleanupEvery <= buckets[k].last + StaleAfter
    BY DEF RecentlyCleaned
  <2>2. /\ now \in Nat /\ StaleAfter \in Nat /\ CleanupEvery \in Nat
        /\ buckets[k].last \in Nat /\ m * CleanupEvery \in Nat
        /\ (m + 1) * CleanupEvery = m * CleanupEvery + CleanupEvery
    BY RateLimiterAssumptions DEF TypeOK, BucketType, RateLimiterAssumptions
  <2> QED
    BY <2>1, <2>2
<1> QED
  BY LimiterTypeCorrect, <1>1, <1>2, <1>3, PTL DEF Spec

-----------------------------------------------------------------------------
(***************************************************************************)
(* The limiter inside.                                                     *)
(***************************************************************************)

\* What a step of the composition does to the limiter: a step of its own, with
\* the others' part unchanged or not, or nothing.
LEMMA LimiterStep ==
  ASSUME [AccountsNext]_allVars
  PROVE  [Next]_vars
<1>1. ASSUME NEW k \in Keys, ShowForm(k) \/ Observe(k)
      PROVE  Next
  BY <1>1 DEF ShowForm, Observe, Next
<1>2. ASSUME NEW r \in Requests, NEW b \in Browsers,
             \/ \E c \in Credentials, step \in {"register", "login"} : Submit(r, b, step, c)
             \/ Logout(r, b) \/ Visit(r, b)
      PROVE  [Next]_vars
  <2>1. AddressOf[b] \in Keys
    BY AccountsAssumptions DEF AccountsAssumptions
  <2> QED
    BY <1>2, <2>1 DEF Submit, Logout, Visit, Next, vars
<1>3. ASSUME NEW r \in Requests,
             \/ InsertUser(r) \/ CheckPassword(r) \/ SetCookie(r)
             \/ Authenticate(r) \/ Serve(r) \/ Abort(r)
      PROVE  UNCHANGED vars
  BY <1>3 DEF InsertUser, CheckPassword, SetCookie, Authenticate, Serve, Abort
<1>4. CASE (Tick \/ Cleanup) /\ UNCHANGED accountVars
  BY <1>4 DEF Next
<1>5. CASE UNCHANGED allVars
  BY <1>5 DEF allVars
<1> QED
  BY <1>1, <1>2, <1>3, <1>4, <1>5 DEF AccountsNext

\* The accounts use the limiter as its own specification allows.
THEOREM AccountsRunLimiter == AccountsSpec => Spec
<1>1. AccountsInit => Init
  BY DEF AccountsInit
<1> QED
  BY <1>1, LimiterStep, PTL DEF AccountsSpec, Spec

\* The bound on the requests an address gets through holds with registrations,
\* logins and everything else around the limiter.
THEOREM AccountsWindowIsBounded == CleanupIsLate => (AccountsSpec => []WindowBound)
BY AccountsRunLimiter, WindowIsBounded

-----------------------------------------------------------------------------
(***************************************************************************)
(* The passwords checked.                                                  *)
(***************************************************************************)

\* The logins of the window that wait for their password to be checked.
Queue == Waiting(window.key)

RequestsTyped == DOMAIN request = Requests

\* Each login that was let through in the window, or was waiting when it was
\* opened, has been checked at most once, and only if it does not wait any more.
CheckedInv ==
  /\ now \in Nat /\ checked \in Nat /\ late \in Nat
  /\ WindowTyped
  /\ RequestsTyped
  /\ checked + Cardinality(Queue) <= window.passed + late

\* Only finitely many logins wait, since there are finitely many requests.
LEMMA WaitingFinite ==
  ASSUME NEW k
  PROVE  IsFiniteSet(Waiting(k)) /\ Cardinality(Waiting(k)) \in Nat
<1>1. Waiting(k) \in SUBSET Requests
  BY DEF Waiting
<1> QED
  BY <1>1, FS_Subset, FS_CardinalityType, AccountsAssumptions DEF AccountsAssumptions

\* Replacing a request by one that does not wait can only shorten the queue, by
\* one if the old one was in it.
LEMMA Replaced ==
  ASSUME CheckedInv, NEW r \in Requests, NEW q, q.step # "login",
         request' = [request EXCEPT ![r] = q], window' = window
  PROVE  /\ RequestsTyped'
         /\ Cardinality(Queue) \in Nat /\ Cardinality(Queue') \in Nat
         /\ Cardinality(Queue') =
              IF r \in Queue THEN Cardinality(Queue) - 1 ELSE Cardinality(Queue)
<1>1. /\ DOMAIN request' = Requests
      /\ \A s \in Requests : request'[s] = IF s = r THEN q ELSE request[s]
  BY DEF CheckedInv, RequestsTyped
<1>2. Queue' = Queue \ {r}
  BY <1>1 DEF Queue, Waiting
<1>3. IsFiniteSet(Queue) /\ Cardinality(Queue) \in Nat
  BY WaitingFinite DEF Queue
<1>4. /\ Cardinality(Queue \ {r}) \in Nat
      /\ Cardinality(Queue \ {r}) =
           IF r \in Queue THEN Cardinality(Queue) - 1 ELSE Cardinality(Queue)
  BY <1>3, FS_RemoveElement, FS_CardinalityType
<1>5. RequestsTyped'
  BY <1>1 DEF RequestsTyped
<1> QED
  BY <1>2, <1>3, <1>4, <1>5

\* The window counts what the limiter lets through for its key.
LEMMA AllowCounts ==
  ASSUME CheckedInv, NEW k \in Keys, Allow(k)
  PROVE  /\ WindowTyped' /\ now' = now /\ window'.key = window.key
         /\ window.passed \in Nat /\ window'.passed \in Nat
         /\ window.passed <= window'.passed
         /\ answer'.allowed /\ window.key = k => window'.passed = window.passed + 1
<1> DEFINE allowed == Refilled(Bucket(k)) >= Cost
<1>1. Answered(k, allowed) /\ now' = now
  BY DEF Allow
<1> HIDE DEF allowed
<1>2. /\ answer'.allowed = allowed
      /\ window' = IF allowed /\ window.key = k
                     THEN [window EXCEPT !.passed = @ + 1] ELSE window
  BY <1>1 DEF Answered
<1> QED
  BY <1>1, <1>2 DEF CheckedInv, WindowTyped

\* Every step keeps the invariant: a check takes a login off the queue, and
\* only what the limiter has just let through joins it.
LEMMA CheckedInvStep ==
  ASSUME CheckedInv, [AccountsNext]_allVars
  PROVE  CheckedInv'
<1>1. ASSUME NEW k \in Keys, ShowForm(k)
      PROVE  CheckedInv'
  <2>1. UNCHANGED << request, checked, late >> /\ Allow(k)
    BY <1>1 DEF ShowForm, accountVars
  <2>2. /\ WindowTyped' /\ now' = now /\ window'.key = window.key
        /\ window.passed \in Nat /\ window'.passed \in Nat
        /\ window.passed <= window'.passed
    BY <2>1, AllowCounts
  <2>3. Queue' = Queue /\ Cardinality(Queue) \in Nat
    BY <2>1, <2>2, WaitingFinite DEF Queue, Waiting
  <2> QED
    BY <2>1, <2>2, <2>3 DEF CheckedInv, RequestsTyped
<1>2. ASSUME NEW k \in Keys, Observe(k)
      PROVE  CheckedInv'
  <2>1. /\ window' = [key |-> k, start |-> now, passed |-> 0] /\ now' = now
        /\ request' = request /\ checked' = 0 /\ late' = Cardinality(Waiting(k))
    BY <1>2 DEF Observe, OpenWindow
  <2>2. Queue' = Waiting(k) /\ Cardinality(Waiting(k)) \in Nat
    BY <2>1, WaitingFinite DEF Queue, Waiting
  <2>3. WindowTyped' /\ window'.passed = 0
    BY <2>1 DEF CheckedInv, WindowTyped
  <2> QED
    BY <2>1, <2>2, <2>3 DEF CheckedInv, RequestsTyped
<1>3. ASSUME NEW r \in Requests, NEW b \in Browsers, NEW c \in Credentials,
             NEW step \in {"register", "login"}, Submit(r, b, step, c)
      PROVE  CheckedInv'
  <2> DEFINE k == AddressOf[b]
             q == Submitted(b, step, c)
  <2>1. /\ request[r] = Idle /\ Allow(k) /\ k \in Keys
        /\ checked' = checked /\ late' = late
        /\ request' = IF answer'.allowed THEN [request EXCEPT ![r] = q] ELSE request
    BY <1>3, AccountsAssumptions DEF Submit, Begin, AccountsAssumptions
  <2>2. /\ WindowTyped' /\ now' = now /\ window'.key = window.key
        /\ window.passed \in Nat /\ window'.passed \in Nat
        /\ window.passed <= window'.passed
        /\ answer'.allowed /\ window.key = k => window'.passed = window.passed + 1
    BY <2>1, AllowCounts
  <2>3. IsFiniteSet(Queue) /\ Cardinality(Queue) \in Nat
    BY WaitingFinite DEF Queue
  <2>4. CASE ~ answer'.allowed
    <3>1. Queue' = Queue /\ request' = request
      BY <2>1, <2>2, <2>4 DEF Queue, Waiting
    <3> QED
      BY <2>1, <2>2, <2>3, <3>1 DEF CheckedInv, RequestsTyped
  <2>5. CASE answer'.allowed
    <3>1. q.from = b
      BY DEF Submitted, Idle
    <3> HIDE DEF q
    <3>2. /\ DOMAIN request' = Requests
          /\ \A s \in Requests : request'[s] = IF s = r THEN q ELSE request[s]
      BY <2>1, <2>5 DEF CheckedInv, RequestsTyped
    <3>3. r \notin Queue
      <4>1. Idle.step = "idle"
        BY DEF Idle
      <4> QED
        BY <2>1, <4>1 DEF Queue, Waiting
    <3>4. CASE q.step = "login" /\ k = window.key
      <4>1. Queue' = Queue \cup {r}
        BY <2>2, <3>1, <3>2, <3>4 DEF Queue, Waiting
      <4>2. Cardinality(Queue') = Cardinality(Queue) + 1
        BY <2>3, <3>3, <4>1, FS_AddElement
      <4> QED
        BY <2>1, <2>2, <2>3, <2>5, <3>2, <3>4, <4>2 DEF CheckedInv, RequestsTyped
    <3>5. CASE ~ (q.step = "login" /\ k = window.key)
      <4>1. Queue' = Queue
        BY <2>2, <3>1, <3>2, <3>3, <3>5 DEF Queue, Waiting
      <4> QED
        BY <2>1, <2>2, <2>3, <3>2, <4>1 DEF CheckedInv, RequestsTyped
    <3> QED
      BY <3>4, <3>5
  <2> QED
    BY <2>4, <2>5
<1>4. ASSUME NEW r \in Requests, CheckPassword(r)
      PROVE  CheckedInv'
  <2>1. /\ checked' = IF r \in Queue THEN checked + 1 ELSE checked
        /\ UNCHANGED << now, window, late >>
    BY <1>4 DEF CheckPassword, Queue, vars
  <2>2. PICK q : q.step # "login" /\ request' = [request EXCEPT ![r] = q]
    BY <1>4 DEF CheckPassword, GoOn, Answer, Idle
  <2>3. WindowTyped' /\ window.passed \in Nat
    BY <2>1 DEF CheckedInv, WindowTyped
  <2>4. /\ RequestsTyped'
        /\ Cardinality(Queue) \in Nat /\ Cardinality(Queue') \in Nat
        /\ Cardinality(Queue') =
             IF r \in Queue THEN Cardinality(Queue) - 1 ELSE Cardinality(Queue)
    BY <2>1, <2>2, Replaced
  <2> QED
    BY <2>1, <2>3, <2>4 DEF CheckedInv
<1>5. ASSUME NEW r \in Requests,
             \/ \E b \in Browsers : Logout(r, b) \/ Visit(r, b)
             \/ InsertUser(r) \/ SetCookie(r) \/ Authenticate(r) \/ Serve(r) \/ Abort(r)
      PROVE  CheckedInv'
  <2>1. PICK q : q.step # "login" /\ request' = [request EXCEPT ![r] = q]
    <3>1. CASE InsertUser(r) \/ SetCookie(r) \/ Serve(r) \/ Abort(r)
      BY <3>1 DEF InsertUser, SetCookie, Serve, Abort, Answer, GoOn, Idle
    <3>2. CASE Authenticate(r)
      BY <3>2 DEF Authenticate, Answer, GoOn, Idle
    <3>3. ASSUME NEW b \in Browsers, Logout(r, b) \/ Visit(r, b)
          PROVE  \E q : q.step # "login" /\ request' = [request EXCEPT ![r] = q]
      BY <3>3 DEF Logout, Visit, Begin, Idle
    <3> QED
      BY <1>5, <3>1, <3>2, <3>3
  <2>2. UNCHANGED << now, window, checked, late >>
    BY <1>5 DEF Logout, Visit, InsertUser, SetCookie, Authenticate, Serve, Abort, vars
  <2>3. WindowTyped' /\ window.passed \in Nat
    BY <2>2 DEF CheckedInv, WindowTyped
  <2>4. /\ RequestsTyped'
        /\ Cardinality(Queue) \in Nat /\ Cardinality(Queue') \in Nat
        /\ Cardinality(Queue') <= Cardinality(Queue)
    <3>1. /\ RequestsTyped'
          /\ Cardinality(Queue) \in Nat /\ Cardinality(Queue') \in Nat
          /\ Cardinality(Queue') =
               IF r \in Queue THEN Cardinality(Queue) - 1 ELSE Cardinality(Queue)
      BY <2>1, <2>2, Replaced
    <3> QED
      BY <3>1
  <2> QED
    BY <2>2, <2>3, <2>4 DEF CheckedInv
<1>6. CASE (Tick \/ Cleanup) /\ UNCHANGED accountVars
  <2>1. /\ UNCHANGED << request, checked, late, window >>
        /\ now' = now + 1 \/ now' = now
    BY <1>6 DEF Tick, Cleanup, accountVars
  <2>2. Queue' = Queue /\ RequestsTyped'
    BY <2>1 DEF Queue, Waiting, CheckedInv, RequestsTyped
  <2>3. WindowTyped'
    BY <2>1 DEF CheckedInv, WindowTyped
  <2> QED
    BY <2>1, <2>2, <2>3 DEF CheckedInv
<1>7. CASE UNCHANGED allVars
  BY <1>7 DEF allVars, vars, accountVars, CheckedInv, RequestsTyped, WindowTyped, Queue,
                  Waiting
<1> QED
  BY <1>1, <1>2, <1>3, <1>4, <1>5, <1>6, <1>7 DEF AccountsNext

\* Nobody waits before the first request.
LEMMA CheckedInvInit == AccountsInit => CheckedInv
<1> SUFFICES ASSUME AccountsInit
             PROVE  CheckedInv
  OBVIOUS
<1>1. /\ now = 0 /\ checked = 0 /\ late = 0 /\ request = [r \in Requests |-> Idle]
      /\ window \in [key : Keys, start : {0}, passed : {0}]
  BY DEF AccountsInit, Init
<1>2. Queue = {}
  BY <1>1 DEF Queue, Waiting, Idle
<1>3. Cardinality(Queue) = 0
  BY <1>2, FS_EmptySet
<1>4. WindowTyped /\ window.passed = 0
  BY <1>1 DEF WindowTyped
<1> QED
  BY <1>1, <1>3, <1>4 DEF CheckedInv, RequestsTyped

\* However registrations, logins and forms are mixed, and in whatever order the
\* logins that were let through come to it, the passwords checked for an address
\* from any instant on are no more than the limiter lets requests through from
\* then on, and the logins of this address that were waiting at that instant.
THEOREM PasswordChecksAreBounded ==
  CleanupIsLate => (AccountsSpec => []ChecksAreBounded)
<1> SUFFICES ASSUME CleanupIsLate
             PROVE  AccountsSpec => []ChecksAreBounded
  OBVIOUS
<1>2. CheckedInv /\ [AccountsNext]_allVars => CheckedInv'
  BY CheckedInvStep
<1>3. CheckedInv /\ WindowBound => ChecksAreBounded
  <2> SUFFICES ASSUME CheckedInv, WindowBound
               PROVE  ChecksAreBounded
    OBVIOUS
  <2>1. /\ checked \in Nat /\ late \in Nat /\ window.passed \in Nat
        /\ checked <= window.passed + late
    BY WaitingFinite DEF CheckedInv, WindowTyped, Queue
  <2>2. checked * Cost <= window.passed * Cost + late * Cost
    BY <2>1, RateLimiterAssumptions DEF RateLimiterAssumptions
  <2>3. /\ checked * Cost \in Nat /\ window.passed * Cost \in Nat /\ late * Cost \in Nat
        /\ Capacity + Rate * (now - window.start) \in Int
    BY <2>1, RateLimiterAssumptions DEF RateLimiterAssumptions, CheckedInv, WindowTyped
  <2> QED
    BY <2>2, <2>3 DEF WindowBound, ChecksAreBounded
<1> QED
  BY CheckedInvInit, <1>2, <1>3, AccountsWindowIsBounded, PTL DEF AccountsSpec

-----------------------------------------------------------------------------
(***************************************************************************)
(* Who registered can log in.                                              *)
(***************************************************************************)

\* One account for each address, and an account for everybody who was told so.
PromisesKept ==
  /\ users \in Seq(Credentials)
  /\ \A i, j \in DOMAIN users : users[i].email = users[j].email => i = j
  /\ \A c \in promised : \E i \in DOMAIN users : users[i] = c
  /\ \A r \in Requests : request[r].step = "register" => request[r].entered \in Credentials

\* An insert adds an account for an address that has none; nothing else
\* touches the accounts.
LEMMA PromisesStep ==
  ASSUME CheckedInv, PromisesKept, [AccountsNext]_allVars
  PROVE  PromisesKept'
<1>0. DOMAIN request = Requests
  BY DEF CheckedInv, RequestsTyped
<1>1. ASSUME NEW r \in Requests, InsertUser(r)
      PROVE  PromisesKept'
  <2> DEFINE c == request[r].entered
  <2>1. request' = [request EXCEPT ![r] = Idle] /\ request[r].step = "register"
    BY <1>1 DEF InsertUser, Answer, GoOn
  <2>2. \A s \in Requests : request'[s] = IF s = r THEN Idle ELSE request[s]
    BY <1>0, <2>1
  <2>3. \A s \in Requests : request'[s].step = "register" => request'[s].entered \in Credentials
    <3>1. Idle.step = "idle"
      BY DEF Idle
    <3> QED
      BY <2>2, <3>1 DEF PromisesKept
  <2>4. CASE UNCHANGED << users, promised >>
    BY <2>3, <2>4 DEF PromisesKept
  <2>5. CASE /\ ~ (c \in Refused \/ Ids(c.email) # {})
             /\ users' = Append(users, c) /\ promised' = promised \cup {c}
    <3>1. c \in Credentials /\ users \in Seq(Credentials)
      BY <2>1 DEF PromisesKept
    <3> HIDE DEF c
    <3>2. /\ users' \in Seq(Credentials)
          /\ Len(users) \in Nat /\ DOMAIN users = 1 .. Len(users)
          /\ DOMAIN users' = 1 .. Len(users) + 1
          /\ \A i \in DOMAIN users : users'[i] = users[i]
          /\ users'[Len(users) + 1] = c
      BY <2>5, <3>1
    <3>3. \A i \in DOMAIN users : users[i].email # c.email
      BY <2>5 DEF Ids
    <3>4. \A i, j \in DOMAIN users' : users'[i].email = users'[j].email => i = j
      BY <3>2, <3>3 DEF PromisesKept
    <3>5. \A d \in promised' : \E i \in DOMAIN users' : users'[i] = d
      BY <2>5, <3>2 DEF PromisesKept
    <3> QED
      BY <2>3, <3>2, <3>4, <3>5 DEF PromisesKept
  <2> QED
    BY <1>1, <2>4, <2>5 DEF InsertUser
<1>2. ASSUME UNCHANGED << users, promised >>,
             \A s \in Requests :
               request'[s].step = "register" => request'[s].entered \in Credentials
      PROVE  PromisesKept'
  BY <1>2 DEF PromisesKept
<1>3. ASSUME NEW r \in Requests, NEW q, request' = [request EXCEPT ![r] = q],
             q.step = "register" => q.entered \in Credentials,
             UNCHANGED << users, promised >>
      PROVE  PromisesKept'
  <2>1. \A s \in Requests : request'[s] = IF s = r THEN q ELSE request[s]
    BY <1>0, <1>3
  <2> QED
    BY <1>2, <1>3, <2>1 DEF PromisesKept
<1>4. ASSUME NEW r \in Requests, NEW b \in Browsers, NEW c \in Credentials,
             NEW step \in {"register", "login"}, Submit(r, b, step, c)
      PROVE  PromisesKept'
  <2>1. Submitted(b, step, c).entered = c
    BY DEF Submitted, Idle
  <2>2. CASE request' = request
    BY <1>2, <1>4, <2>2 DEF Submit, PromisesKept
  <2>3. CASE request' = [request EXCEPT ![r] = Submitted(b, step, c)]
    BY <1>3, <1>4, <2>1, <2>3 DEF Submit
  <2> QED
    BY <1>4, <2>2, <2>3 DEF Submit, Begin
<1>5. ASSUME NEW r \in Requests,
             \/ \E b \in Browsers : Logout(r, b) \/ Visit(r, b)
             \/ CheckPassword(r) \/ SetCookie(r) \/ Authenticate(r) \/ Serve(r) \/ Abort(r)
      PROVE  PromisesKept'
  <2>1. PICK q : request' = [request EXCEPT ![r] = q] /\ q.step # "register"
    <3> DEFINE QuietGoal == \E q : request' = [request EXCEPT ![r] = q] /\ q.step # "register"
    <3>0. Idle.step = "idle"
      BY DEF Idle
    <3>1. CASE request' = [request EXCEPT ![r] = Idle]
      BY <3>0, <3>1
    <3>2. ASSUME Authenticate(r), request' # [request EXCEPT ![r] = Idle]
          PROVE  QuietGoal
      <4> DEFINE q == [Idle EXCEPT !.step = "serve", !.from = request[r].from,
                                   !.user = request[r].token.user]
      <4>1. request' = [request EXCEPT ![r] = q]
        BY <3>2 DEF Authenticate, Answer, GoOn
      <4>2. q.step = "serve"
        BY DEF Idle
      <4> QED
        BY <4>1, <4>2
    <3>3. ASSUME CheckPassword(r), request' # [request EXCEPT ![r] = Idle]
          PROVE  QuietGoal
      <4>1. PICK i : request' = [request EXCEPT ![r] = [Idle EXCEPT !.step = "answer",
                        !.from = request[r].from, !.token = SignedToken(r, i)]]
        BY <3>3 DEF CheckPassword, Answer, GoOn
      <4>2. [Idle EXCEPT !.step = "answer",
               !.from = request[r].from, !.token = SignedToken(r, i)].step = "answer"
        BY DEF Idle
      <4> QED
        BY <4>1, <4>2
    <3>4. ASSUME NEW b \in Browsers, Logout(r, b)
          PROVE  QuietGoal
      <4>1. [Idle EXCEPT !.step = "answer", !.from = b].step = "answer"
        BY DEF Idle
      <4> QED
        BY <3>4, <4>1 DEF Logout, Begin
    <3>5. ASSUME NEW b \in Browsers, Visit(r, b)
          PROVE  QuietGoal
      <4>1. [Idle EXCEPT !.step = "authenticate", !.from = b, !.token = cookie[b]].step
              = "authenticate"
        BY DEF Idle
      <4> QED
        BY <3>5, <4>1 DEF Visit, Begin
    <3>6. SetCookie(r) \/ Serve(r) \/ Abort(r) => request' = [request EXCEPT ![r] = Idle]
      BY DEF SetCookie, Serve, Abort, Answer, GoOn
    <3> QED
      BY <1>5, <3>1, <3>2, <3>3, <3>4, <3>5, <3>6
  <2>2. UNCHANGED << users, promised >>
    BY <1>5 DEF Logout, Visit, CheckPassword, SetCookie, Authenticate, Serve, Abort
  <2> QED
    BY <1>3, <2>1, <2>2
<1>6. ASSUME NEW k \in Keys, Observe(k) \/ ShowForm(k)
      PROVE  PromisesKept'
  BY <1>2, <1>6 DEF Observe, ShowForm, accountVars, PromisesKept
<1>7. CASE UNCHANGED accountVars
  BY <1>2, <1>7 DEF accountVars, PromisesKept
<1> QED
  BY <1>1, <1>4, <1>5, <1>6, <1>7 DEF AccountsNext, allVars

\* Whoever has been told that the account exists gets in with the password that
\* was chosen, whatever registrations of the same address were under way then
\* or have come since.
THEOREM WhoRegisteredMayLogIn == AccountsSpec => RegisteredMayLogIn
<1>1. AccountsInit => CheckedInv /\ PromisesKept
  <2> SUFFICES ASSUME AccountsInit
               PROVE  CheckedInv /\ PromisesKept
    OBVIOUS
  <2>1. /\ request = [r \in Requests |-> Idle] /\ users = << >> /\ promised = {}
    BY DEF AccountsInit
  <2>2. Idle.step = "idle"
    BY DEF Idle
  <2>3. PromisesKept
    BY <2>1, <2>2 DEF PromisesKept
  <2> QED
    BY <2>3, CheckedInvInit
<1>2. CheckedInv /\ [AccountsNext]_allVars => CheckedInv'
  BY CheckedInvStep
<1>3. CheckedInv /\ PromisesKept /\ [AccountsNext]_allVars => PromisesKept'
  BY PromisesStep
<1>4. PromisesKept =>
        \A r \in Requests : request[r].entered \in promised /\ CheckPassword(r) /\ CheckedInv
          => request'[r].step = "answer"
  <2> SUFFICES ASSUME PromisesKept, CheckedInv, NEW r \in Requests,
                      request[r].entered \in promised, CheckPassword(r)
               PROVE  request'[r].step = "answer"
    OBVIOUS
  <2> DEFINE c == request[r].entered
  <2>1. PICK i \in DOMAIN users : users[i] = c
    BY DEF PromisesKept
  <2>2. Ids(c.email) = {i} /\ i <= i
    BY <2>1 DEF Ids, PromisesKept
  <2>3. PICK j : request' = [request EXCEPT ![r] = [Idle EXCEPT !.step = "answer",
                    !.from = request[r].from, !.token = SignedToken(r, j)]]
    BY <2>1, <2>2 DEF CheckPassword, GoOn, PasswordMatches
  <2>4. [Idle EXCEPT !.step = "answer",
           !.from = request[r].from, !.token = SignedToken(r, j)].step = "answer"
    BY DEF Idle
  <2>5. DOMAIN request = Requests
    BY DEF CheckedInv, RequestsTyped
  <2> QED
    BY <2>3, <2>4, <2>5
<1>5. CheckedInv /\ PromisesKept /\ [AccountsNext]_allVars =>
        [\A r \in Requests : request[r].entered \in promised /\ CheckPassword(r)
           => request'[r].step = "answer"]_allVars
  BY <1>4
<1> QED
  BY <1>1, <1>2, <1>3, <1>5, PTL DEF AccountsSpec, RegisteredMayLogIn

-----------------------------------------------------------------------------
(***************************************************************************)
(* For whom a request acts.                                                *)
(***************************************************************************)

\* A token that a browser holds, or that an answer or a request carries for it,
\* was signed for that browser when the password of its user was entered there.
HonestToken(t, b) ==
  /\ t \in Tokens
  /\ t # NoToken => /\ t.from = b
                    /\ t.user \in DOMAIN users
                    /\ t.entered = users[t.user]
                    /\ t.expires = t.granted + TokenLife

HonestRequest(q) ==
  /\ HonestToken(q.token, q.from)
  /\ q.user \in 0 .. Len(users)
  /\ q.step # "idle" => q.from \in Browsers
  /\ q.step \in {"register", "login"} => q.entered \in Credentials

AuthInv ==
  /\ now \in Nat
  /\ users \in Seq(Credentials \ Refused)
  /\ \A i, j \in DOMAIN users : users[i].email = users[j].email => i = j
  /\ promised \subseteq Credentials
  /\ cookie = [b \in Browsers |-> cookie[b]]
  /\ \A b \in Browsers : HonestToken(cookie[b], b)
  /\ DOMAIN request = Requests
  /\ \A r \in Requests : HonestRequest(request[r])

\* Accounts are added, never changed, and time goes on.
UsersGrow ==
  /\ users' \in Seq(Credentials \ Refused)
  /\ Len(users) <= Len(users')
  /\ \A i \in DOMAIN users : users'[i] = users[i]
  /\ now' \in Nat /\ now <= now'

\* So what a token says stays true.
LEMMA TokenStaysHonest ==
  ASSUME AuthInv, UsersGrow, NEW t, NEW b, HonestToken(t, b)
  PROVE  HonestToken(t, b)'
<1>1. /\ users \in Seq(Credentials \ Refused) /\ users' \in Seq(Credentials \ Refused)
      /\ now \in Nat /\ now' \in Nat /\ now <= now'
      /\ Len(users) <= Len(users')
  BY DEF AuthInv, UsersGrow
<1>2. DOMAIN users \subseteq DOMAIN users' /\ 0 .. now \subseteq 0 .. now'
  BY <1>1
<1>3. t \in Tokens'
  BY <1>2 DEF HonestToken, Tokens
<1>4. t # NoToken => t.user \in DOMAIN users' /\ t.entered = users'[t.user]
  BY <1>2 DEF HonestToken, UsersGrow
<1> QED
  BY <1>3, <1>4 DEF HonestToken

\* And what a request carries.
LEMMA RequestStaysHonest ==
  ASSUME AuthInv, UsersGrow, NEW q, HonestRequest(q)
  PROVE  HonestRequest(q)'
<1>1. HonestToken(q.token, q.from)'
  BY TokenStaysHonest DEF HonestRequest
<1>2. Len(users) \in Nat /\ Len(users') \in Nat /\ Len(users) <= Len(users')
  BY DEF AuthInv, UsersGrow
<1>3. q.user \in 0 .. Len(users')
  BY <1>2 DEF HonestRequest
<1> QED
  BY <1>1, <1>3 DEF HonestRequest

\* An answered request carries nothing.
LEMMA IdleIsHonest ==
  ASSUME users \in Seq(Credentials \ Refused)
  PROVE  /\ HonestRequest(Idle) /\ Idle.step = "idle" /\ Idle.token = NoToken
         /\ Idle.user = 0 /\ \A b : HonestToken(NoToken, b)
<1>1. /\ Idle.step = "idle" /\ Idle.token = NoToken /\ Idle.user = 0
      /\ \A b : HonestToken(NoToken, b)
  BY DEF Idle, HonestToken, Tokens
<1>2. 0 \in 0 .. Len(users)
  OBVIOUS
<1> QED
  BY <1>1, <1>2 DEF HonestRequest

\* The cookies that a step leaves alone stay honest.
LEMMA CookiesStayHonest ==
  ASSUME AuthInv, UsersGrow, cookie' = cookie
  PROVE  /\ cookie' = [b \in Browsers |-> cookie'[b]]
         /\ \A b \in Browsers : HonestToken(cookie[b], b)'
<1>1. ASSUME NEW b \in Browsers PROVE HonestToken(cookie[b], b)'
  <2>1. PICK t : t = cookie[b]
    OBVIOUS
  <2>2. HonestToken(t, b)
    BY <2>1 DEF AuthInv
  <2>3. HonestToken(t, b)'
    BY <2>2, TokenStaysHonest
  <2> QED
    BY <2>1, <2>3
<1> QED
  BY <1>1 DEF AuthInv

\* A step of one request that leaves it honest keeps the invariant.
LEMMA RequestReplaced ==
  ASSUME AuthInv, UsersGrow, NEW r \in Requests, NEW q,
         request' = [request EXCEPT ![r] = q], HonestRequest(q)',
         \A i, j \in DOMAIN users' : users'[i].email = users'[j].email => i = j,
         promised' \subseteq Credentials,
         cookie' = [b \in Browsers |-> cookie'[b]],
         \A b \in Browsers : HonestToken(cookie[b], b)'
  PROVE  AuthInv'
<1>1. /\ DOMAIN request' = Requests
      /\ \A s \in Requests : request'[s] = IF s = r THEN q ELSE request[s]
  BY DEF AuthInv
<1>2. ASSUME NEW s \in Requests PROVE HonestRequest(request[s])'
  <2> DEFINE p == request'[s]
  <2>1. CASE s = r
    BY <1>1, <2>1
  <2>2. CASE s # r
    <3>1. PICK o : o = request[s]
      OBVIOUS
    <3>2. HonestRequest(o)
      BY <3>1 DEF AuthInv
    <3>3. HonestRequest(o)'
      BY <3>2, RequestStaysHonest
    <3>4. request'[s] = o
      BY <1>1, <2>2, <3>1
    <3> QED
      BY <3>3, <3>4
  <2> QED
    BY <2>1, <2>2
<1> QED
  BY <1>1, <1>2 DEF AuthInv, UsersGrow

\* Nothing has happened to the accounts and the clock.
LEMMA UsersSame ==
  ASSUME AuthInv, users' = users, now' = now
  PROVE  UsersGrow
BY DEF AuthInv, UsersGrow

\* A request that is begun, goes on or is answered without touching accounts or
\* cookies.
LEMMA RequestGoesOn ==
  ASSUME AuthInv, NEW r \in Requests, NEW q, HonestRequest(q),
         request' = [request EXCEPT ![r] = q],
         users' = users, now' = now, cookie' = cookie, promised' = promised
  PROVE  AuthInv'
<1>1. UsersGrow
  BY UsersSame
<1>2. HonestRequest(q)'
  BY <1>1, RequestStaysHonest
<1>3. /\ \A i, j \in DOMAIN users' : users'[i].email = users'[j].email => i = j
      /\ promised' \subseteq Credentials
  BY DEF AuthInv
<1> QED
  BY <1>1, <1>2, <1>3, CookiesStayHonest, RequestReplaced

\* A registration adds an account with credentials that are not refused.
LEMMA InsertKeepsAuth ==
  ASSUME AuthInv, NEW r \in Requests, InsertUser(r)
  PROVE  AuthInv'
<1>1. /\ request' = [request EXCEPT ![r] = Idle] /\ request[r].step = "register"
      /\ cookie' = cookie /\ now' = now
  BY DEF InsertUser, Answer, GoOn, vars
<1>2. PICK c : c = request[r].entered
  OBVIOUS
<1>3. users \in Seq(Credentials \ Refused) /\ c \in Credentials /\ now \in Nat
  BY <1>1, <1>2 DEF AuthInv, HonestRequest
<1>4. CASE UNCHANGED << users, promised >>
  BY <1>1, <1>3, <1>4, IdleIsHonest, RequestGoesOn
<1>5. CASE /\ ~ (c \in Refused \/ Ids(c.email) # {})
           /\ users' = Append(users, c) /\ promised' = promised \cup {c}
  <2>1. /\ users' \in Seq(Credentials \ Refused)
        /\ Len(users) \in Nat /\ Len(users') = Len(users) + 1
        /\ DOMAIN users = 1 .. Len(users) /\ DOMAIN users' = 1 .. Len(users) + 1
        /\ \A i \in DOMAIN users : users'[i] = users[i]
        /\ users'[Len(users) + 1] = c
    BY <1>3, <1>5
  <2>2. UsersGrow
    BY <1>1, <1>3, <2>1 DEF UsersGrow
  <2>3. \A i \in DOMAIN users : users[i].email # c.email
    BY <1>5 DEF Ids
  <2>4. \A i, j \in DOMAIN users' : users'[i].email = users'[j].email => i = j
    BY <2>1, <2>3 DEF AuthInv
  <2>5. HonestRequest(Idle)'
    BY <1>3, <2>2, IdleIsHonest, RequestStaysHonest
  <2>6. promised' \subseteq Credentials
    BY <1>3, <1>5 DEF AuthInv
  <2> QED
    BY <1>1, <2>2, <2>4, <2>5, <2>6, CookiesStayHonest, RequestReplaced
<1> QED
  BY <1>2, <1>4, <1>5 DEF InsertUser

\* Credentials are told apart by the address and the password.
LEMMA SameCredentials ==
  ASSUME NEW c \in Credentials, NEW d \in Credentials,
         c.email = d.email, c.password = d.password
  PROVE  c = d
BY AccountsAssumptions DEF AccountsAssumptions

\* A login gets a token for the account whose password it gave.
LEMMA LoginKeepsAuth ==
  ASSUME AuthInv, NEW r \in Requests, CheckPassword(r)
  PROVE  AuthInv'
<1>1. /\ users' = users /\ now' = now /\ cookie' = cookie /\ promised' = promised
      /\ request[r].step = "login" /\ users \in Seq(Credentials \ Refused) /\ now \in Nat
  BY DEF CheckPassword, vars, AuthInv
<1>2. CASE request' = [request EXCEPT ![r] = Idle]
  BY <1>1, <1>2, IdleIsHonest, RequestGoesOn
<1>3. CASE request' # [request EXCEPT ![r] = Idle]
  <2>1. PICK o : o = request[r]
    OBVIOUS
  <2>2. o.from \in Browsers /\ o.entered \in Credentials
    BY <1>1, <2>1 DEF AuthInv, HonestRequest
  <2>3. PICK i \in Ids(o.entered.email) :
          /\ PasswordMatches(i, o.entered.password)
          /\ request' = [request EXCEPT ![r] = [Idle EXCEPT !.step = "answer",
                           !.from = o.from, !.token = SignedToken(r, i)]]
    BY <1>3, <2>1 DEF CheckPassword, GoOn, Answer
  <2>4. i \in DOMAIN users /\ users[i] = o.entered
    <3>1. /\ i \in DOMAIN users /\ users[i].email = o.entered.email
          /\ users[i].password = o.entered.password
      BY <2>3 DEF Ids, PasswordMatches
    <3>2. users[i] \in Credentials
      BY <1>1, <3>1
    <3> QED
      BY <2>2, <3>1, <3>2, SameCredentials
  <2>5. PICK t : t = SignedToken(r, i)
    OBVIOUS
  <2>6. /\ t = [user |-> i, expires |-> now + TokenLife, entered |-> o.entered,
                from |-> o.from, granted |-> now]
        /\ t.user = i /\ t.from = o.from /\ t.entered = o.entered
        /\ t.expires = t.granted + TokenLife
    BY <2>1, <2>5 DEF SignedToken
  <2>7. t \in Tokens
    BY <1>1, <2>2, <2>4, <2>6, AccountsAssumptions DEF Tokens, AccountsAssumptions
  <2>8. HonestToken(t, o.from)
    BY <2>4, <2>6, <2>7 DEF HonestToken
  <2>9. PICK q : q = [Idle EXCEPT !.step = "answer", !.from = o.from, !.token = t]
    OBVIOUS
  <2>10. q.step = "answer" /\ q.from = o.from /\ q.token = t /\ q.user = 0
    BY <2>9 DEF Idle
  <2>11. 0 \in 0 .. Len(users)
    BY <1>1
  <2>12. HonestRequest(q)
    BY <2>2, <2>8, <2>10, <2>11 DEF HonestRequest
  <2>13. request' = [request EXCEPT ![r] = q]
    BY <2>3, <2>5, <2>9
  <2> QED
    BY <1>1, <2>12, <2>13, RequestGoesOn
<1> QED
  BY <1>2, <1>3

\* The answer to a login or a logout sets the cookie of the browser that asked.
LEMMA SetCookieKeepsAuth ==
  ASSUME AuthInv, NEW r \in Requests, SetCookie(r)
  PROVE  AuthInv'
<1>1. PICK o : o = request[r]
  OBVIOUS
<1>2. /\ o.step = "answer" /\ cookie' = [cookie EXCEPT ![o.from] = o.token]
      /\ request' = [request EXCEPT ![r] = Idle]
      /\ users' = users /\ now' = now /\ promised' = promised
  BY <1>1 DEF SetCookie, Answer, GoOn, vars
<1>3. UsersGrow
  BY <1>2, UsersSame
<1>4. HonestToken(o.token, o.from)'
  <2>1. HonestToken(o.token, o.from)
    BY <1>1 DEF AuthInv, HonestRequest
  <2> QED
    BY <1>3, <2>1, TokenStaysHonest
<1>5. ASSUME NEW b \in Browsers PROVE HonestToken(cookie[b], b)'
  <2>1. CASE b = o.from
    <3>1. cookie'[b] = o.token
      BY <1>2, <2>1 DEF AuthInv
    <3> QED
      BY <1>4, <2>1, <3>1
  <2>2. CASE b # o.from
    <3>1. PICK t : t = cookie[b]
      OBVIOUS
    <3>2. HonestToken(t, b)
      BY <3>1 DEF AuthInv
    <3>3. HonestToken(t, b)'
      BY <1>3, <3>2, TokenStaysHonest
    <3>4. cookie'[b] = t
      BY <1>2, <2>2, <3>1 DEF AuthInv
    <3> QED
      BY <3>3, <3>4
  <2> QED
    BY <2>1, <2>2
<1>6. cookie' = [b \in Browsers |-> cookie'[b]]
  BY <1>2 DEF AuthInv
<1>7. HonestRequest(Idle)'
  BY <1>3, IdleIsHonest, RequestStaysHonest DEF AuthInv
<1>8. /\ \A i, j \in DOMAIN users' : users'[i].email = users'[j].email => i = j
      /\ promised' \subseteq Credentials
  BY <1>2 DEF AuthInv
<1> QED
  BY <1>2, <1>3, <1>5, <1>6, <1>7, <1>8, RequestReplaced

\* A form let through by the limiter, a logout, and a visit with the cookie of
\* its browser begin a request.
LEMMA BeginKeepsAuth ==
  ASSUME AuthInv, NEW r \in Requests, NEW b \in Browsers,
         \/ \E c \in Credentials, step \in {"register", "login"} : Submit(r, b, step, c)
         \/ Logout(r, b) \/ Visit(r, b)
  PROVE  AuthInv'
<1>0. 0 \in 0 .. Len(users) /\ users \in Seq(Credentials \ Refused) /\ HonestToken(NoToken, b)
  BY IdleIsHonest DEF AuthInv
<1>1. ASSUME NEW c \in Credentials, NEW step \in {"register", "login"}, Submit(r, b, step, c)
      PROVE  AuthInv'
  <2>1. users' = users /\ now' = now /\ cookie' = cookie /\ promised' = promised
    BY <1>1 DEF Submit, Allow
  <2>2. PICK q : q = Submitted(b, step, c)
    OBVIOUS
  <2>3. /\ q.step = step /\ q.from = b /\ q.entered = c /\ q.token = NoToken /\ q.user = 0
    BY <2>2 DEF Submitted, Idle
  <2>4. HonestRequest(q)
    BY <1>0, <2>3 DEF HonestRequest
  <2>5. CASE request' = [request EXCEPT ![r] = q]
    BY <2>1, <2>4, <2>5, RequestGoesOn
  <2>6. CASE request' = request
    BY <2>1, <2>6 DEF AuthInv, HonestRequest, HonestToken, Tokens
  <2> QED
    BY <1>1, <2>2, <2>5, <2>6 DEF Submit, Begin
<1>2. CASE Logout(r, b)
  <2>1. PICK q : q = [Idle EXCEPT !.step = "answer", !.from = b]
    OBVIOUS
  <2>2. /\ request' = [request EXCEPT ![r] = q]
        /\ users' = users /\ now' = now /\ cookie' = cookie /\ promised' = promised
    BY <1>2, <2>1 DEF Logout, Begin, vars
  <2>3. q.step = "answer" /\ q.from = b /\ q.token = NoToken /\ q.user = 0
    BY <2>1 DEF Idle
  <2>4. HonestRequest(q)
    BY <1>0, <2>3 DEF HonestRequest
  <2> QED
    BY <2>2, <2>4, RequestGoesOn
<1>3. CASE Visit(r, b)
  <2>1. PICK q : q = [Idle EXCEPT !.step = "authenticate", !.from = b, !.token = cookie[b]]
    OBVIOUS
  <2>2. /\ request' = [request EXCEPT ![r] = q]
        /\ users' = users /\ now' = now /\ cookie' = cookie /\ promised' = promised
    BY <1>3, <2>1 DEF Visit, Begin, vars
  <2>3. q.step = "authenticate" /\ q.from = b /\ q.token = cookie[b] /\ q.user = 0
    BY <2>1 DEF Idle
  <2>4. HonestRequest(q)
    BY <1>0, <2>3 DEF HonestRequest, AuthInv
  <2> QED
    BY <2>2, <2>4, RequestGoesOn
<1> QED
  BY <1>1, <1>2, <1>3

\* RequireAuth puts the user of the token into the request.
LEMMA AuthenticateKeepsAuth ==
  ASSUME AuthInv, NEW r \in Requests,
         Authenticate(r) \/ Serve(r) \/ Abort(r)
  PROVE  AuthInv'
<1>1. users' = users /\ now' = now /\ cookie' = cookie /\ promised' = promised
  BY DEF Authenticate, Serve, Abort, vars
<1>2. CASE request' = [request EXCEPT ![r] = Idle]
  BY <1>1, <1>2, IdleIsHonest, RequestGoesOn DEF AuthInv
<1>3. CASE request' # [request EXCEPT ![r] = Idle]
  <2>1. PICK o : o = request[r]
    OBVIOUS
  <2>2. PICK q : q = [Idle EXCEPT !.step = "serve", !.from = o.from, !.user = o.token.user]
    OBVIOUS
  <2>3. /\ request' = [request EXCEPT ![r] = q]
        /\ o.step = "authenticate" /\ o.token.user \in DOMAIN users
    BY <1>3, <2>1, <2>2 DEF Authenticate, Serve, Abort, Answer, GoOn
  <2>4. q.step = "serve" /\ q.from = o.from /\ q.token = NoToken /\ q.user = o.token.user
    BY <2>2 DEF Idle
  <2>5. o.from \in Browsers
    BY <2>1, <2>3 DEF AuthInv, HonestRequest
  <2>6. users \in Seq(Credentials \ Refused) /\ HonestToken(NoToken, o.from)
    BY IdleIsHonest DEF AuthInv
  <2>7. o.token.user \in 0 .. Len(users)
    BY <2>3, <2>6
  <2>8. HonestRequest(q)
    BY <2>4, <2>5, <2>6, <2>7 DEF HonestRequest
  <2> QED
    BY <1>1, <2>3, <2>8, RequestGoesOn
<1> QED
  BY <1>2, <1>3

\* Every step keeps the invariant.
LEMMA AuthStep ==
  ASSUME AuthInv, CheckedInv, [AccountsNext]_allVars
  PROVE  AuthInv'
<1>1. ASSUME NEW r \in Requests, NEW b \in Browsers,
             \/ \E c \in Credentials, step \in {"register", "login"} : Submit(r, b, step, c)
             \/ Logout(r, b) \/ Visit(r, b)
      PROVE  AuthInv'
  BY <1>1, BeginKeepsAuth
<1>2. ASSUME NEW r \in Requests,
             \/ InsertUser(r) \/ CheckPassword(r) \/ SetCookie(r)
             \/ Authenticate(r) \/ Serve(r) \/ Abort(r)
      PROVE  AuthInv'
  BY <1>2, InsertKeepsAuth, LoginKeepsAuth, SetCookieKeepsAuth, AuthenticateKeepsAuth
<1>3. ASSUME NEW k \in Keys, ShowForm(k) \/ Observe(k)
      PROVE  AuthInv'
  <2>1. UNCHANGED << users, cookie, request, promised, now >>
    BY <1>3 DEF ShowForm, Allow, Observe, OpenWindow, accountVars
  <2> QED
    BY <2>1 DEF AuthInv, HonestRequest, HonestToken, Tokens
<1>4. CASE (Tick \/ Cleanup) /\ UNCHANGED accountVars
  <2>1. UNCHANGED << users, cookie, request, promised >> /\ (now' = now + 1 \/ now' = now)
    BY <1>4 DEF Tick, Cleanup, accountVars
  <2>2. UsersGrow
    BY <2>1 DEF AuthInv, UsersGrow
  <2>3. ASSUME NEW r \in Requests PROVE HonestRequest(request[r])'
    <3>1. PICK o : o = request[r]
      OBVIOUS
    <3>2. HonestRequest(o)
      BY <3>1 DEF AuthInv
    <3>3. HonestRequest(o)'
      BY <2>2, <3>2, RequestStaysHonest
    <3> QED
      BY <2>1, <3>1, <3>3
  <2>4. /\ cookie' = [b \in Browsers |-> cookie'[b]]
        /\ \A b \in Browsers : HonestToken(cookie[b], b)'
    BY <2>1, <2>2, CookiesStayHonest
  <2> QED
    BY <2>1, <2>2, <2>3, <2>4 DEF AuthInv, UsersGrow
<1>5. CASE UNCHANGED allVars
  BY <1>5 DEF allVars, vars, accountVars, AuthInv, HonestRequest, HonestToken, Tokens
<1> QED
  BY <1>1, <1>2, <1>3, <1>4, <1>5 DEF AccountsNext

\* Nobody has an account or a token initially.
LEMMA AuthInit == AccountsInit => AuthInv
<1> SUFFICES ASSUME AccountsInit
             PROVE  AuthInv
  OBVIOUS
<1>1. /\ now = 0 /\ users = << >> /\ promised = {}
      /\ cookie = [b \in Browsers |-> NoToken] /\ request = [r \in Requests |-> Idle]
  BY DEF AccountsInit, Init
<1>2. users \in Seq(Credentials \ Refused)
  BY <1>1
<1>3. HonestRequest(Idle) /\ \A b : HonestToken(NoToken, b)
  BY <1>2, IdleIsHonest
<1>4. \A b \in Browsers : HonestToken(cookie[b], b)
  BY <1>1, <1>3
<1>5. \A r \in Requests : HonestRequest(request[r])
  BY <1>1, <1>3
<1> QED
  BY <1>1, <1>2, <1>4, <1>5 DEF AuthInv

\* The invariant holds in every state that is reached.
THEOREM AuthInvHolds == AccountsSpec => [](AuthInv /\ CheckedInv)
<1>1. CheckedInv /\ [AccountsNext]_allVars => CheckedInv'
  BY CheckedInvStep
<1>2. AuthInv /\ CheckedInv /\ [AccountsNext]_allVars => AuthInv'
  BY AuthStep
<1> QED
  BY AuthInit, CheckedInvInit, <1>1, <1>2, PTL DEF AccountsSpec

\* No two accounts have one e-mail address, none has a password the rules
\* refuse, and every token, in a cookie or on its way, names an account.
THEOREM AccountsTypeCorrect == AccountsSpec => []AccountsTypeOK
<1>1. AuthInv /\ CheckedInv /\ TypeOK => AccountsTypeOK
  <2> SUFFICES ASSUME AuthInv, CheckedInv, TypeOK
               PROVE  AccountsTypeOK
    OBVIOUS
  <2>1. cookie \in [Browsers -> Tokens]
    BY DEF AuthInv, HonestToken
  <2>2. \A r \in Requests : request[r].token \in Tokens /\ request[r].user \in 0 .. Len(users)
    BY DEF AuthInv, HonestRequest, HonestToken
  <2> QED
    BY <2>1, <2>2 DEF AuthInv, CheckedInv, AccountsTypeOK
<1> QED
  BY <1>1, AuthInvHolds, AccountsRunLimiter, LimiterTypeCorrect, PTL

\* Only RequireAuth lets a request act for a user.
LEMMA OnlyAuthenticateServes ==
  ASSUME AuthInv, CheckedInv, AccountsNext, NEW r \in Requests,
         request[r].step = "authenticate", request'[r].step = "serve"
  PROVE  Authenticate(r)
<1>0. DOMAIN request = Requests /\ Idle.step = "idle"
  BY DEF AuthInv, Idle
<1>1. ASSUME NEW s \in Requests, s # r, NEW q, request' = [request EXCEPT ![s] = q]
      PROVE  FALSE
  BY <1>0, <1>1
<1>2. request' # request /\ request' # [request EXCEPT ![r] = Idle] /\ request[r] # Idle
  BY <1>0
<1>3. ASSUME NEW s \in Requests,
             \/ \E b \in Browsers :
                  \/ \E c \in Credentials, step \in {"register", "login"} : Submit(s, b, step, c)
                  \/ Logout(s, b) \/ Visit(s, b)
             \/ InsertUser(s) \/ CheckPassword(s) \/ SetCookie(s) \/ Serve(s) \/ Abort(s)
      PROVE  FALSE
  <2>1. s = r
    BY <1>1, <1>2, <1>3 DEF Submit, Logout, Visit, InsertUser, CheckPassword, SetCookie,
                            Serve, Abort, Begin, GoOn, Answer
  <2>2. \/ request' = [request EXCEPT ![r] = Idle]
        \/ request[r] = Idle
        \/ request[r].step = "login"
    BY <1>3, <2>1 DEF Submit, Logout, Visit, InsertUser, CheckPassword, SetCookie,
                      Serve, Abort, Begin, GoOn, Answer
  <2> QED
    BY <1>2, <2>2
<1>4. ASSUME NEW s \in Requests, Authenticate(s)
      PROVE  s = r
  BY <1>1, <1>4 DEF Authenticate, GoOn, Answer
<1>5. ASSUME NEW k \in Keys, ShowForm(k) \/ Observe(k)
      PROVE  FALSE
  BY <1>5 DEF ShowForm, Observe, accountVars
<1>6. ~ UNCHANGED accountVars
  BY <1>2 DEF accountVars
<1> QED
  BY <1>3, <1>4, <1>5, <1>6 DEF AccountsNext

\* middleware.go:43: a request acts for a user only if the password of this very
\* user was entered in the same browser, and not too long ago, however the
\* answers to logins and logouts have overtaken each other.
THEOREM RequestsActForTheirUser == AccountsSpec => ActsForWhoLoggedIn
<1> DEFINE Acts == \A r \in Requests :
             LET t == request[r].token
             IN  request[r].step = "authenticate" /\ request'[r].step = "serve"
                 => /\ users[request'[r].user] = t.entered
                    /\ t.from = request[r].from
                    /\ now - t.granted < TokenLife
<1>1. AuthInv /\ CheckedInv /\ [AccountsNext]_allVars => [Acts]_allVars
  <2> SUFFICES ASSUME AuthInv, CheckedInv, AccountsNext, NEW r \in Requests,
                      request[r].step = "authenticate", request'[r].step = "serve"
               PROVE  /\ users[request'[r].user] = request[r].token.entered
                      /\ request[r].token.from = request[r].from
                      /\ now - request[r].token.granted < TokenLife
    OBVIOUS
  <2> DEFINE t == request[r].token
  <2>1. Authenticate(r)
    BY OnlyAuthenticateServes
  <2>2. DOMAIN request = Requests /\ Idle.step = "idle"
    BY DEF AuthInv, Idle
  <2>3. ValidToken(t)
    BY <2>1, <2>2 DEF Authenticate, Answer, GoOn
  <2>4. request'[r].user = t.user
    BY <2>1, <2>2, <2>3 DEF Authenticate, Answer, GoOn, Idle
  <2>5. /\ t \in Tokens /\ t # NoToken /\ t.from = request[r].from
        /\ t.entered = users[t.user] /\ t.expires = t.granted + TokenLife
        /\ now < t.expires
    BY <2>3 DEF AuthInv, HonestRequest, HonestToken, ValidToken
  <2>6. t.granted \in Nat /\ now \in Nat /\ TokenLife \in Nat
    BY <2>5, AccountsAssumptions DEF Tokens, AccountsAssumptions, AuthInv
  <2>7. now - t.granted < TokenLife
    BY <2>5, <2>6
  <2> QED
    BY <2>4, <2>5, <2>7
<1> QED
  BY <1>1, AuthInvHolds, PTL DEF AccountsSpec, ActsForWhoLoggedIn
=============================================================================
