---------------------------- MODULE RateLimiter ----------------------------
(***************************************************************************)
(* The token bucket of rate_limit.rs, as operators on a bucket.            *)
(*                                                                         *)
(* Tokens are counted in units such that a tick of the clock refills       *)
(* PerMin of them and an event costs TicksPerMin: the code's               *)
(* elapsed * per_min / 60 without fractions, whatever a tick stands for.   *)
(* The code's f64 holds such numbers to about sixteen digits; its rounding *)
(* is left out.                                                            *)
(***************************************************************************)
EXTENDS Naturals, Sequences

CONSTANTS
  PerMin,     \* rate_limit_per_min; 0 switches the limiter off
  BurstSize,  \* rate_limit_burst
  TicksPerMin \* how fine the clock is

ASSUME LimiterAssumption ==
  /\ PerMin \in Nat
  /\ BurstSize \in Nat
  /\ TicksPerMin \in Nat \ {0}

\* burst.max(1), in units.
Capacity == TicksPerMin * (IF BurstSize = 0 THEN 1 ELSE BurstSize)

Enabled == PerMin > 0

Bucket == [tokens : 0 .. Capacity, last : Nat]

NewBucket(now) == [tokens |-> Capacity, last |-> now]

Capped(tokens) == IF tokens > Capacity THEN Capacity ELSE tokens

\* Variant: the tokens are not held to the capacity.
RefilledUncapped(b, now) ==
  IF now > b.last
    THEN [tokens |-> b.tokens + (now - b.last) * PerMin, last |-> now]
    ELSE b

\* Variant: a bucket that runs dry stays dry.
NeverRefilled(b, now) == b

Refilled(b, now) ==
  IF now > b.last
    THEN [tokens |-> Capped(b.tokens + (now - b.last) * PerMin), last |-> now]
    ELSE b

\* Whether a bucket, refilled, has a token to give.
HasToken(b, now) == Refilled(b, now).tokens >= TicksPerMin

\* try_acquire: the bucket afterwards.
Acquired(b, now) ==
  [Refilled(b, now) EXCEPT
     !.tokens = IF HasToken(b, now) THEN @ - TicksPerMin ELSE @]

----------------------------------------------------------------------------
(***************************************************************************)
(* What the limiter promises, of the times at which requests were granted, *)
(* oldest first.                                                           *)
(***************************************************************************)

\* The burst and the steady rate together, over a span of ticks.
BudgetOver(ticks) == Capacity + PerMin * ticks

\* No stretch of grants costs more than the budget over its span.
Affordable(grants) ==
  \A i, j \in 1 .. Len(grants) :
    i <= j => (j - i + 1) * TicksPerMin <= BudgetOver(grants[j] - grants[i])
============================================================================
