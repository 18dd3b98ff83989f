--------------------------- MODULE IngressProofs ---------------------------
(***************************************************************************)
(* What holds of Ingress for any names, tokens, bodies, requests at once   *)
(* and rates: what the limiter grants and refuses, whose events pass the   *)
(* key check, what a sender is told of them, and that the parser and the   *)
(* fingerprint make of a body what its sender meant.                       *)
(***************************************************************************)
EXTENDS MCIngress, FiniteSetTheorems, SequenceTheorems, NaturalsInduction,
        WellFoundedInduction, TLAPS

----------------------------------------------------------------------------
(***************************************************************************)
(* One bucket                                                              *)
(***************************************************************************)

\* What the grants from the i-th on have cost.
CostFrom(times, i) == (Len(times) - i + 1) * TicksPerMin

\* A bucket keeps account of the grants it made: what they have cost since any
\* of them, and what it holds, come to no more than the budget since then; and
\* to no less since one of them, unless it is full.
Balanced(b, times) ==
  /\ b \in Bucket
  /\ times \in Seq(Nat)
  /\ \A i \in 1 .. Len(times) :
       /\ times[i] <= b.last
       /\ CostFrom(times, i) + b.tokens <= BudgetOver(b.last - times[i])
  /\ \/ b.tokens = Capacity
     \/ \E i \in 1 .. Len(times) :
          CostFrom(times, i) + b.tokens >= BudgetOver(b.last - times[i])

\* A bucket has room for one event at least.
LEMMA Rates ==
  /\ PerMin \in Nat /\ TicksPerMin \in Nat \ {0}
  /\ Capacity \in Nat /\ Capacity >= TicksPerMin
<1>1. PerMin \in Nat /\ TicksPerMin \in Nat \ {0} /\ BurstSize \in Nat
  BY LimiterAssumption
<1>2. \A m, n \in Nat : n >= 1 => m * n \in Nat /\ m * n >= m
  <2>. SUFFICES ASSUME NEW m \in Nat, NEW n \in Nat, n >= 1
       PROVE  m * n \in Nat /\ m * n >= m
    OBVIOUS
  <2>1. m * n = m + m * (n - 1) /\ n - 1 \in Nat
    OBVIOUS
  <2>2. m * (n - 1) \in Nat /\ m * (n - 1) >= 0
    BY <2>1
  <2>. QED
    BY <2>1, <2>2
<1>. QED
  BY <1>1, <1>2 DEF Capacity

\* What a span of time gives, in any number of parts.
LEMMA Spread ==
  \A r \in Nat : \A x, y, z \in Nat :
    x <= y /\ y <= z => r * (z - x) = r * (y - x) + r * (z - y)
OBVIOUS

\* The budget over a span is that of its first part and the rate over the rest.
LEMMA BudgetGrows ==
  ASSUME NEW x \in Nat, NEW y \in Nat, NEW z \in Nat, x <= y, y <= z
  PROVE  /\ BudgetOver(y - x) \in Nat
         /\ BudgetOver(z - x) = BudgetOver(y - x) + (z - y) * PerMin
<1>1. PerMin * (z - x) = PerMin * (y - x) + PerMin * (z - y)
  BY Rates, Spread
<1>2. PerMin * (z - y) = (z - y) * PerMin
  BY Rates
<1>3. PerMin * (y - x) \in Nat /\ PerMin * (z - y) \in Nat
  <2>1. y - x \in Nat /\ z - y \in Nat
    OBVIOUS
  <2>2. \A m, k \in Nat : m * k \in Nat
    OBVIOUS
  <2>. QED
    BY <2>1, <2>2, Rates
<1>. QED
  BY <1>1, <1>2, <1>3, Rates DEF BudgetOver

\* A budget is a number.
LEMMA BudgetIsNat == \A x, y \in Nat : x <= y => BudgetOver(y - x) \in Nat
BY BudgetGrows

\* Over no time at all the budget is the burst.
LEMMA BudgetAtOnce == \A x \in Nat : BudgetOver(x - x) = Capacity
BY Rates DEF BudgetOver

\* One more grant costs one more token, whatever came before.
LEMMA CostOfGrants ==
  ASSUME NEW times \in Seq(Nat)
  PROVE  \A i \in 1 .. Len(times) :
           /\ CostFrom(times, i) \in Nat
           /\ (Len(times) + 1 - i + 1) * TicksPerMin = CostFrom(times, i) + TicksPerMin
<1>. SUFFICES ASSUME NEW i \in 1 .. Len(times)
     PROVE  /\ CostFrom(times, i) \in Nat
            /\ (Len(times) + 1 - i + 1) * TicksPerMin = CostFrom(times, i) + TicksPerMin
  OBVIOUS
<1>1. Len(times) - i + 1 \in Nat /\ Len(times) + 1 - i + 1 = (Len(times) - i + 1) + 1
  OBVIOUS
<1>2. \A m, t \in Nat : m * t \in Nat /\ (m + 1) * t = m * t + t
  OBVIOUS
<1>. QED
  BY <1>1, <1>2, Rates DEF CostFrom

\* A new bucket has made no grants.
LEMMA NewBalanced ==
  ASSUME NEW t \in Nat
  PROVE  Balanced(NewBucket(t), <<>>) /\ NewBucket(t).last = t /\ Affordable(<<>>)
BY Rates DEF Balanced, NewBucket, Bucket, Affordable

\* Time that passes adds to what it holds and to the budget alike, and what is
\* lost at the capacity is lost to both.
LEMMA RefillBalanced ==
  ASSUME NEW b, NEW times, Balanced(b, times), NEW t \in Nat, b.last <= t
  PROVE  Balanced(Refilled(b, t), times) /\ Refilled(b, t).last = t
<1>0. b \in Bucket /\ b.tokens \in Nat /\ b.tokens <= Capacity /\ b.last \in Nat
  BY Rates DEF Balanced, Bucket
<1>1. CASE t = b.last
  BY <1>0, <1>1 DEF Refilled
<1>2. CASE t > b.last
  <2> DEFINE gain == (t - b.last) * PerMin
             r == Refilled(b, t)
  <2>1. gain \in Nat
    <3>1. t - b.last \in Nat
      BY <1>0, <1>2
    <3>2. \A m, k \in Nat : m * k \in Nat
      OBVIOUS
    <3>. QED
      BY <3>1, <3>2, Rates
  <2>2. r = [tokens |-> Capped(b.tokens + gain), last |-> t]
    BY <1>2 DEF Refilled
  <2>3. /\ r.last = t /\ r.tokens \in Nat /\ r.tokens <= Capacity /\ r \in Bucket
        /\ r.tokens <= b.tokens + gain
        /\ r.tokens = Capacity \/ r.tokens = b.tokens + gain
    <3>. HIDE DEF r, gain
    <3>. QED
      BY <1>0, <2>1, <2>2, Rates DEF Bucket, Capped
  <2>4. \A i \in 1 .. Len(times) :
          /\ CostFrom(times, i) \in Nat /\ times[i] \in Nat /\ times[i] <= b.last
          /\ BudgetOver(b.last - times[i]) \in Nat
          /\ BudgetOver(t - times[i]) = BudgetOver(b.last - times[i]) + gain
    <3>. SUFFICES ASSUME NEW i \in 1 .. Len(times)
         PROVE  /\ CostFrom(times, i) \in Nat /\ times[i] \in Nat /\ times[i] <= b.last
                /\ BudgetOver(b.last - times[i]) \in Nat
                /\ BudgetOver(t - times[i]) = BudgetOver(b.last - times[i]) + gain
      OBVIOUS
    <3>1. times[i] \in Nat /\ times[i] <= b.last /\ times \in Seq(Nat)
      BY DEF Balanced
    <3>2. CostFrom(times, i) \in Nat
      BY <3>1, CostOfGrants
    <3>3. /\ BudgetOver(b.last - times[i]) \in Nat
          /\ BudgetOver(t - times[i]) = BudgetOver(b.last - times[i]) + gain
      BY <1>0, <3>1, BudgetGrows
    <3>. QED
      BY <3>1, <3>2, <3>3
  <2>. HIDE DEF r, gain
  <2>5. \A i \in 1 .. Len(times) :
          /\ times[i] <= t
          /\ CostFrom(times, i) + r.tokens <= BudgetOver(t - times[i])
    <3>. SUFFICES ASSUME NEW i \in 1 .. Len(times)
         PROVE  /\ times[i] <= t
                /\ CostFrom(times, i) + r.tokens <= BudgetOver(t - times[i])
      OBVIOUS
    <3>1. CostFrom(times, i) + b.tokens <= BudgetOver(b.last - times[i])
      BY DEF Balanced
    <3>2. /\ CostFrom(times, i) \in Nat /\ times[i] \in Nat /\ times[i] <= b.last
          /\ BudgetOver(b.last - times[i]) \in Nat
          /\ BudgetOver(t - times[i]) = BudgetOver(b.last - times[i]) + gain
      BY <2>4
    <3>3. times[i] <= t
      BY <1>0, <3>2
    <3>4. CostFrom(times, i) + r.tokens <= BudgetOver(t - times[i])
      <4>1. \A c, x, y, g, z, w \in Nat :
              c + x <= z /\ y <= x + g /\ w = z + g => c + y <= w
        OBVIOUS
      <4>2. BudgetOver(t - times[i]) \in Nat /\ r.tokens \in Nat /\ r.tokens <= b.tokens + gain
        BY <2>1, <2>3, <3>2
      <4>. QED BY <1>0, <2>1, <3>1, <3>2, <4>1, <4>2
    <3>. QED
      BY <3>3, <3>4
  <2>6. \/ r.tokens = Capacity
        \/ \E i \in 1 .. Len(times) :
             CostFrom(times, i) + r.tokens >= BudgetOver(t - times[i])
    <3>. SUFFICES ASSUME r.tokens # Capacity
         PROVE  \E i \in 1 .. Len(times) :
                  CostFrom(times, i) + r.tokens >= BudgetOver(t - times[i])
      OBVIOUS
    <3>1. r.tokens = b.tokens + gain
      BY <2>3
    <3>2. b.tokens # Capacity
      BY <1>0, <2>1, <2>3, <3>1, Rates
    <3>3. PICK i \in 1 .. Len(times) :
            CostFrom(times, i) + b.tokens >= BudgetOver(b.last - times[i])
      BY <3>2 DEF Balanced
    <3>4. CostFrom(times, i) + r.tokens >= BudgetOver(t - times[i])
      BY <1>0, <2>1, <2>4, <3>1, <3>3
    <3>. QED
      BY <3>4
  <2>7. times \in Seq(Nat)
    BY DEF Balanced
  <2>8. Balanced(r, times)
    BY <2>3, <2>5, <2>6, <2>7 DEF Balanced
  <2>. QED
    BY <2>3, <2>8 DEF r
<1>. QED
  BY <1>0, <1>1, <1>2

\* What a grant appended to the others costs from each of them on.
LEMMA GrantAppended ==
  ASSUME NEW times \in Seq(Nat), NEW t \in Nat
  PROVE  LET n == Len(times) more == Append(times, t) IN
         /\ n \in Nat /\ more \in Seq(Nat) /\ Len(more) = n + 1 /\ more[n + 1] = t
         /\ \A i \in 1 .. n : /\ more[i] = times[i] /\ times[i] \in Nat
                              /\ CostFrom(times, i) \in Nat
                              /\ CostFrom(more, i) = CostFrom(times, i) + TicksPerMin
         /\ CostFrom(more, n + 1) = TicksPerMin
<1> DEFINE n == Len(times)
           more == Append(times, t)
<1>1. /\ n \in Nat /\ more \in Seq(Nat) /\ Len(more) = n + 1 /\ more[n + 1] = t
      /\ \A i \in 1 .. n : more[i] = times[i] /\ times[i] \in Nat
  BY AppendProperties
<1>. HIDE DEF more
<1>2. \A i \in 1 .. n : /\ CostFrom(times, i) \in Nat
                        /\ CostFrom(more, i) = CostFrom(times, i) + TicksPerMin
  <2>1. \A i \in 1 .. n : CostFrom(more, i) = (n + 1 - i + 1) * TicksPerMin
    BY <1>1 DEF CostFrom
  <2>. QED
    BY <2>1, CostOfGrants
<1>3. CostFrom(more, n + 1) = TicksPerMin
  <2>1. n + 1 - (n + 1) + 1 = 1
    BY <1>1
  <2>2. \A x \in Nat : 1 * x = x
    OBVIOUS
  <2>. QED
    BY <1>1, <2>1, <2>2, Rates DEF CostFrom
<1>. QED
  BY <1>1, <1>2, <1>3 DEF more

\* A grant takes a token and is added to the account, and the grants stay
\* within the budget over any stretch.
LEMMA GrantBalanced ==
  ASSUME NEW b, NEW times, Balanced(b, times), Affordable(times),
         b.tokens >= TicksPerMin
  PROVE  /\ Balanced([b EXCEPT !.tokens = b.tokens - TicksPerMin], Append(times, b.last))
         /\ Affordable(Append(times, b.last))
<1> DEFINE more == Append(times, b.last)
           n == Len(times)
           c == [b EXCEPT !.tokens = b.tokens - TicksPerMin]
<1>0. /\ b \in Bucket /\ b.tokens \in Nat /\ b.tokens <= Capacity /\ b.last \in Nat
      /\ times \in Seq(Nat)
  BY Rates DEF Balanced, Bucket
<1>1. /\ n \in Nat /\ more \in Seq(Nat) /\ Len(more) = n + 1 /\ more[n + 1] = b.last
      /\ \A i \in 1 .. n : /\ more[i] = times[i] /\ times[i] \in Nat
                           /\ CostFrom(times, i) \in Nat
                           /\ CostFrom(more, i) = CostFrom(times, i) + TicksPerMin
      /\ CostFrom(more, n + 1) = TicksPerMin
  BY <1>0, GrantAppended
<1>2. /\ c \in Bucket /\ c.last = b.last /\ c.tokens = b.tokens - TicksPerMin
      /\ c.tokens \in Nat
  BY <1>0, Rates DEF Bucket
<1>3. \A i \in 1 .. n : /\ times[i] <= b.last
                        /\ BudgetOver(b.last - times[i]) \in Nat
                        /\ CostFrom(times, i) + b.tokens <= BudgetOver(b.last - times[i])
  <2>. SUFFICES ASSUME NEW i \in 1 .. n
       PROVE  /\ times[i] <= b.last
              /\ BudgetOver(b.last - times[i]) \in Nat
              /\ CostFrom(times, i) + b.tokens <= BudgetOver(b.last - times[i])
    OBVIOUS
  <2>1. /\ times[i] <= b.last
        /\ CostFrom(times, i) + b.tokens <= BudgetOver(b.last - times[i])
    BY DEF Balanced
  <2>2. times[i] \in Nat
    BY <1>1
  <2>3. BudgetOver(b.last - times[i]) \in Nat
    BY <1>0, <2>1, <2>2, BudgetIsNat
  <2>. QED
    BY <2>1, <2>3
<1>4. BudgetOver(b.last - b.last) = Capacity
  BY <1>0, BudgetAtOnce
<1>. HIDE DEF more, c
<1>5. \A i \in 1 .. n + 1 :
        /\ more[i] <= c.last
        /\ CostFrom(more, i) + c.tokens <= BudgetOver(c.last - more[i])
        /\ CostFrom(more, i) <= BudgetOver(b.last - more[i])
  <2>. SUFFICES ASSUME NEW i \in 1 .. n + 1
       PROVE  /\ more[i] <= c.last
              /\ CostFrom(more, i) + c.tokens <= BudgetOver(c.last - more[i])
              /\ CostFrom(more, i) <= BudgetOver(b.last - more[i])
    OBVIOUS
  <2>1. CASE i = n + 1
    BY <1>0, <1>1, <1>2, <1>4, <2>1, Rates
  <2>2. CASE i \in 1 .. n
    <3>1. /\ more[i] = times[i] /\ CostFrom(times, i) \in Nat
          /\ CostFrom(more, i) = CostFrom(times, i) + TicksPerMin
      BY <1>1, <2>2
    <3>2. /\ times[i] <= b.last
          /\ BudgetOver(b.last - times[i]) \in Nat
          /\ CostFrom(times, i) + b.tokens <= BudgetOver(b.last - times[i])
      BY <1>3, <2>2
    <3>. QED
      BY <1>0, <1>2, <3>1, <3>2, Rates
  <2>. QED
    BY <1>1, <2>1, <2>2
<1>6. \E i \in 1 .. n + 1 : CostFrom(more, i) + c.tokens >= BudgetOver(c.last - more[i])
  <2>1. CASE b.tokens = Capacity
    <3>1. CostFrom(more, n + 1) + c.tokens >= BudgetOver(c.last - more[n + 1])
      BY <1>0, <1>1, <1>2, <1>4, <2>1, Rates
    <3>. QED
      BY <1>1, <3>1
  <2>2. CASE b.tokens # Capacity
    <3>1. PICK i \in 1 .. n :
            CostFrom(times, i) + b.tokens >= BudgetOver(b.last - times[i])
      BY <2>2 DEF Balanced
    <3>2. CostFrom(more, i) + c.tokens >= BudgetOver(c.last - more[i])
      <4>1. /\ more[i] = times[i] /\ CostFrom(times, i) \in Nat
            /\ CostFrom(more, i) = CostFrom(times, i) + TicksPerMin
            /\ BudgetOver(b.last - times[i]) \in Nat
        BY <1>1, <1>3
      <4>2. c.last = b.last /\ c.tokens = b.tokens - TicksPerMin
        BY <1>2
      <4>3. \A x, y, k, z \in Nat : x + y >= z => (x + k) + (y - k) >= z
        OBVIOUS
      <4>4. b.tokens \in Nat /\ TicksPerMin \in Nat
        BY <1>0, Rates
      <4>5. (CostFrom(times, i) + TicksPerMin) + (b.tokens - TicksPerMin) >= BudgetOver(b.last - times[i])
        BY <3>1, <4>1, <4>3, <4>4
      <4>. QED BY <4>1, <4>2, <4>5
    <3>. QED
      BY <1>1, <3>1, <3>2
  <2>. QED
    BY <2>1, <2>2
<1>7. Balanced(c, more)
  BY <1>1, <1>2, <1>5, <1>6 DEF Balanced
<1>8. Affordable(more)
  <2>. SUFFICES ASSUME NEW i \in 1 .. n + 1, NEW j \in 1 .. n + 1, i <= j
       PROVE  (j - i + 1) * TicksPerMin <= BudgetOver(more[j] - more[i])
    BY <1>1 DEF Affordable
  <2>1. CASE j \in 1 .. n
    <3>1. i \in 1 .. n /\ more[i] = times[i] /\ more[j] = times[j]
      BY <1>1, <2>1
    <3>2. (j - i + 1) * TicksPerMin <= BudgetOver(times[j] - times[i])
      BY <2>1, <3>1 DEF Affordable
    <3>. QED
      BY <3>1, <3>2
  <2>2. CASE j = n + 1
    <3>1. CostFrom(more, i) = (j - i + 1) * TicksPerMin /\ more[j] = b.last
      BY <1>1, <2>2 DEF CostFrom
    <3>. QED
      BY <1>5, <3>1
  <2>. QED
    BY <1>1, <2>1, <2>2
<1>. QED
  BY <1>7, <1>8 DEF more, c

\* A bucket that has no token to give could not give one within the budget.
LEMMA DryIsOverBudget ==
  ASSUME NEW b, NEW times, Balanced(b, times), b.tokens < TicksPerMin
  PROVE  ~Affordable(Append(times, b.last))
<1> DEFINE more == Append(times, b.last)
           n == Len(times)
<1>0. /\ b \in Bucket /\ b.tokens \in Nat /\ b.last \in Nat /\ times \in Seq(Nat)
  BY Rates DEF Balanced, Bucket
<1>1. /\ n \in Nat /\ Len(more) = n + 1 /\ more[n + 1] = b.last
      /\ \A i \in 1 .. n : /\ more[i] = times[i] /\ times[i] \in Nat
                           /\ CostFrom(times, i) \in Nat
                           /\ CostFrom(more, i) = CostFrom(times, i) + TicksPerMin
  BY <1>0, GrantAppended
<1>2. b.tokens # Capacity
  BY <1>0, Rates
<1>3. PICK i \in 1 .. n :
        CostFrom(times, i) + b.tokens >= BudgetOver(b.last - times[i])
  BY <1>2 DEF Balanced
<1>4. BudgetOver(b.last - times[i]) \in Nat
  <2>1. times[i] \in Nat /\ times[i] <= b.last
    BY <1>1 DEF Balanced
  <2>. QED
    BY <1>0, <2>1, BudgetIsNat
<1>. HIDE DEF more
<1>5. ~(CostFrom(more, i) <= BudgetOver(more[n + 1] - more[i]))
  BY <1>0, <1>1, <1>3, <1>4, Rates
<1>6. CostFrom(more, i) = (n + 1 - i + 1) * TicksPerMin
  BY <1>1 DEF CostFrom
<1>7. i \in 1 .. Len(more) /\ n + 1 \in 1 .. Len(more) /\ i <= n + 1
  BY <1>1
<1>8. ~Affordable(more)
  BY <1>5, <1>6, <1>7 DEF Affordable
<1>. QED
  BY <1>8 DEF more

----------------------------------------------------------------------------
(***************************************************************************)
(* The limiter                                                             *)
(***************************************************************************)

\* A name that was never checked was never granted anything.
Account(n) ==
  IF n \in DOMAIN buckets
    THEN /\ Balanced(buckets[n], grants[n])
         /\ Affordable(grants[n])
         /\ buckets[n].last <= now
    ELSE grants[n] = <<>>

Ledger ==
  /\ now \in Nat
  /\ DOMAIN grants = Names
  /\ \A n \in Names : Account(n)

\* The bucket a check finds, perhaps a new one, keeps its account.
LEMMA BucketAccount ==
  ASSUME Ledger, NEW n \in Names
  PROVE  /\ Balanced(BucketOf(n), grants[n])
         /\ Affordable(grants[n])
         /\ BucketOf(n).last \in Nat /\ BucketOf(n).last <= now
<1>1. CASE n \in DOMAIN buckets
  BY <1>1 DEF Ledger, Account, BucketOf, Balanced, Bucket
<1>2. CASE n \notin DOMAIN buckets
  BY <1>2, NewBalanced DEF Ledger, Account, BucketOf
<1>. QED
  BY <1>1, <1>2

\* The bucket as the check finds it, the time since the last check added.
LEMMA RefilledAccount ==
  ASSUME Ledger, NEW n \in Names
  PROVE  LET r == Refilled(BucketOf(n), now) IN
         Balanced(r, grants[n]) /\ r.last = now
BY BucketAccount, RefillBalanced DEF Ledger

\* After a check, granted or not, the bucket keeps its account.
LEMMA CheckKeepsAccount ==
  ASSUME Ledger, NEW n \in Names, Enabled
  PROVE  LET times == IF Passes(n) THEN Append(grants[n], now) ELSE grants[n] IN
         /\ Balanced(Acquired(BucketOf(n), now), times)
         /\ Affordable(times)
         /\ Acquired(BucketOf(n), now).last = now
<1> DEFINE r == Refilled(BucketOf(n), now)
<1>1. Balanced(r, grants[n]) /\ r.last = now /\ Affordable(grants[n])
  BY RefilledAccount, BucketAccount
<1>2. r \in Bucket
  BY <1>1 DEF Balanced
<1>3. Passes(n) <=> r.tokens >= TicksPerMin
  BY DEF Passes, HasToken
<1>4. Acquired(BucketOf(n), now)
        = [r EXCEPT !.tokens = IF Passes(n) THEN r.tokens - TicksPerMin ELSE r.tokens]
  BY DEF Acquired, Passes
<1>. HIDE DEF r
<1>5. CASE Passes(n)
  <2>1. r.tokens >= TicksPerMin
    BY <1>3, <1>5
  <2>2. /\ Balanced([r EXCEPT !.tokens = r.tokens - TicksPerMin], Append(grants[n], r.last))
        /\ Affordable(Append(grants[n], r.last))
    BY <1>1, <2>1, GrantBalanced
  <2>3. [r EXCEPT !.tokens = r.tokens - TicksPerMin].last = r.last
    BY <1>2 DEF Bucket
  <2>. QED
    BY <1>1, <1>4, <1>5, <2>2, <2>3
<1>6. CASE ~Passes(n)
  <2>1. [r EXCEPT !.tokens = r.tokens] = r
    BY <1>2 DEF Bucket
  <2>. QED
    BY <1>1, <1>4, <1>6, <2>1
<1>. QED
  BY <1>5, <1>6

\* A check of one name leaves every name's account in order.
LEMMA CheckKeepsLedger ==
  ASSUME Ledger, NEW n \in Names, Checked(n), now' = now
  PROVE  Ledger'
<1>1. CASE ~Enabled
  <2>1. UNCHANGED <<buckets, grants, now>>
    BY <1>1 DEF Checked
  <2>. QED
    BY <2>1 DEF Ledger, Account
<1>2. CASE Enabled
  <2> DEFINE times == IF Passes(n) THEN Append(grants[n], now) ELSE grants[n]
  <2>1. /\ Balanced(Acquired(BucketOf(n), now), times)
        /\ Affordable(times)
        /\ Acquired(BucketOf(n), now).last = now
    BY <1>2, CheckKeepsAccount
  <2>2. /\ DOMAIN grants' = Names
        /\ grants'[n] = times
        /\ \A m \in Names \ {n} : grants'[m] = grants[m]
    BY <1>2 DEF Checked, Ledger
  <2>3. /\ DOMAIN buckets' = DOMAIN buckets \cup {n}
        /\ buckets'[n] = Acquired(BucketOf(n), now)
        /\ \A m \in DOMAIN buckets \ {n} : buckets'[m] = buckets[m]
    BY <1>2 DEF Checked
  <2>. HIDE DEF times
  <2>4. Account(n)'
    BY <2>1, <2>2, <2>3 DEF Account, Ledger
  <2>5. \A m \in Names \ {n} : Account(m)'
    BY <2>2, <2>3 DEF Account, Ledger
  <2>. QED
    BY <2>2, <2>4, <2>5 DEF Ledger
<1>. QED
  BY <1>1, <1>2

\* Time alone breaks no account.
LEMMA TickKeepsLedger ==
  ASSUME Ledger, UNCHANGED limiter, now' = now \/ now' = now + 1
  PROVE  Ledger'
<1>1. buckets' = buckets /\ grants' = grants
  BY DEF limiter
<1>2. now' \in Nat /\ now' >= now
  BY DEF Ledger
<1>3. ASSUME NEW n \in Names PROVE Account(n)'
  <2>1. CASE n \in DOMAIN buckets
    <3>1. buckets[n].last \in Nat
      BY <2>1 DEF Ledger, Account, Balanced, Bucket
    <3>. QED
      BY <1>1, <1>2, <2>1, <3>1 DEF Ledger, Account
  <2>2. CASE n \notin DOMAIN buckets
    BY <1>1, <2>2 DEF Ledger, Account
  <2>. QED
    BY <2>1, <2>2
<1>. QED
  BY <1>1, <1>2, <1>3 DEF Ledger

----------------------------------------------------------------------------
(***************************************************************************)
(* The requests                                                            *)
(***************************************************************************)

Entitled(table, r) == r.name \in DOMAIN table /\ table[r.name] = r.key

UnderWay(r) ==
  /\ {"pc", "name", "key", "held"} \subseteq DOMAIN r
  /\ r.pc \in {"lookup", "admit", "send", "touch"}
  /\ r.name \in Names

\* A request knows when its project holds its key, and one past the lookup
\* knows that it did.
Sound(table, r) ==
  \/ r.pc = "free"
  \/ /\ UnderWay(r)
     /\ Entitled(table, r) => r.held
     /\ RequireAuth /\ r.pc # "lookup" => r.held

Requests ==
  /\ DOMAIN reqs = Slots
  /\ \A s \in Slots : Sound(tokens, reqs[s])

\* A handler that goes to a sound request leaves all requests sound.
LEMMA GotoSound ==
  ASSUME Requests, NEW s \in Slots, NEW r, Goto(s, r), Sound(tokens, r),
         tokens' = tokens
  PROVE  Requests'
BY DEF Requests, Goto

\* So does an answer.
LEMMA AnswerSound ==
  ASSUME Requests, NEW s \in Slots, NEW answer, Answer(s, answer), tokens' = tokens
  PROVE  Requests'
<1>1. Sound(tokens, Free(answer, 0, 0))
  BY DEF Sound, Free
<1>. QED
  BY <1>1, GotoSound DEF Answer

\* So does any new table of tokens, since the requests take note of it.
LEMMA HeldSound ==
  ASSUME Requests, NEW table, reqs' = Held(table), tokens' = table
  PROVE  Requests'
<1>. SUFFICES ASSUME NEW s \in Slots PROVE Sound(table, reqs'[s])
  BY DEF Requests, Held
<1>1. CASE reqs[s].pc = "free"
  BY <1>1 DEF Held, Sound
<1>2. CASE reqs[s].pc # "free"
  <2> DEFINE r == reqs[s]
             q == [r EXCEPT !.held = r.held \/ Entitled(table, r)]
  <2>1. reqs'[s] = q
    BY <1>2 DEF Held, Entitled
  <2>2. UnderWay(r) /\ (RequireAuth /\ r.pc # "lookup" => r.held)
    BY <1>2 DEF Requests, Sound
  <2>3. /\ DOMAIN q = DOMAIN r
        /\ q.pc = r.pc /\ q.name = r.name /\ q.key = r.key
        /\ q.held = (r.held \/ Entitled(table, r))
    BY <2>2 DEF UnderWay
  <2>. HIDE DEF r, q
  <2>4. UnderWay(q)
    BY <2>2, <2>3 DEF UnderWay
  <2>5. Entitled(table, q) => q.held
    BY <2>3 DEF Entitled
  <2>6. RequireAuth /\ q.pc # "lookup" => q.held
    BY <2>2, <2>3
  <2>. QED
    BY <2>1, <2>4, <2>5, <2>6 DEF Sound
<1>. QED
  BY <1>1, <1>2

\* What is known of a request under way.
LEMMA UnderWayAt ==
  ASSUME Requests, NEW s \in Slots, reqs[s].pc # "free"
  PROVE  /\ UnderWay(reqs[s])
         /\ Entitled(tokens, reqs[s]) => reqs[s].held
         /\ RequireAuth /\ reqs[s].pc # "lookup" => reqs[s].held
BY DEF Requests, Sound

\* Each step of the handler leaves all requests sound.
LEMMA HandlerSound ==
  ASSUME Requests, NEW s \in Slots, Handler(s)
  PROVE  Requests'
<1>. USE UnderWayAt
<1>1. CASE Lookup(s)
  <2>1. tokens' = tokens /\ reqs[s].pc = "lookup"
    BY <1>1 DEF Lookup, project
  <2>2. CASE Opens(reqs[s].key, reqs[s].name)
    <3> DEFINE r == reqs[s]
               q == [r EXCEPT !.pc = "admit"]
    <3>1. Goto(s, q)
      BY <1>1, <2>2 DEF Lookup
    <3>2. UnderWay(r) /\ r.held
      BY <2>1, <2>2 DEF Opens, Entitled
    <3>3. /\ DOMAIN q = DOMAIN r
          /\ q.pc = "admit" /\ q.name = r.name /\ q.key = r.key /\ q.held = r.held
      BY <3>2 DEF UnderWay
    <3>. HIDE DEF r, q
    <3>4. Sound(tokens, q)
      BY <3>2, <3>3 DEF Sound, UnderWay
    <3>. QED
      BY <2>1, <3>1, <3>4, GotoSound
  <2>3. CASE ~Opens(reqs[s].key, reqs[s].name)
    BY <1>1, <2>1, <2>3, AnswerSound DEF Lookup
  <2>. QED
    BY <2>2, <2>3
<1>2. CASE LookupFails(s)
  BY <1>2, AnswerSound DEF LookupFails, project
<1>3. CASE Refuse(s)
  BY <1>3, AnswerSound DEF Refuse, project
<1>4. ASSUME NEW body \in Bodies, Admit(s, body) PROVE Requests'
  <2>1. tokens' = tokens /\ reqs[s].pc = "admit"
    BY <1>4 DEF Admit, project
  <2>2. CASE Decoded(body) = Malformed
    BY <1>4, <2>1, <2>2, AnswerSound DEF Admit
  <2>3. CASE Decoded(body) # Malformed
    <3> DEFINE events == Decoded(body).events
               q == [pc |-> IF events = <<>> THEN "touch" ELSE "send",
                     name |-> reqs[s].name, key |-> reqs[s].key,
                     held |-> reqs[s].held, events |-> events, sent |-> 0]
    <3>1. Goto(s, q)
      BY <1>4, <2>3 DEF Admit, Proceed
    <3>2. /\ {"pc", "name", "key", "held"} \subseteq DOMAIN q
          /\ q.pc \in {"touch", "send"}
          /\ q.name = reqs[s].name /\ q.key = reqs[s].key /\ q.held = reqs[s].held
      OBVIOUS
    <3>. HIDE DEF q
    <3>3. Sound(tokens, q)
      BY <2>1, <3>2 DEF Sound, UnderWay, Entitled
    <3>. QED
      BY <2>1, <3>1, <3>3, GotoSound
  <2>. QED
    BY <2>2, <2>3
<1>5. CASE Send(s)
  <2>1. tokens' = tokens /\ reqs[s].pc = "send"
    BY <1>5 DEF Send, project
  <2>2. CASE open
    <3> DEFINE r == reqs[s]
               n == r.sent + 1
               next == IF n = Len(r.events) THEN "touch" ELSE "send"
               q == [r EXCEPT !.sent = n, !.pc = next]
    <3>1. Goto(s, q)
      BY <1>5, <2>2 DEF Send
    <3>2. UnderWay(r)
      BY <2>1
    <3>3. /\ DOMAIN q = DOMAIN r
          /\ q.pc \in {"touch", "send"}
          /\ q.name = r.name /\ q.key = r.key /\ q.held = r.held
      BY <3>2 DEF UnderWay
    <3>4. (Entitled(tokens, r) => r.held) /\ (RequireAuth => r.held)
      BY <2>1
    <3>. HIDE DEF r, q
    <3>5. Sound(tokens, q)
      BY <3>2, <3>3, <3>4 DEF Sound, UnderWay, Entitled
    <3>. QED
      BY <2>1, <3>1, <3>5, GotoSound
  <2>3. CASE ~open
    <3>1. Goto(s, Free("503", reqs[s].sent, Len(reqs[s].events)))
      BY <1>5, <2>3 DEF Send
    <3>2. Sound(tokens, Free("503", reqs[s].sent, Len(reqs[s].events)))
      BY DEF Sound, Free
    <3>. QED
      BY <2>1, <3>1, <3>2, GotoSound
  <2>. QED
    BY <2>2, <2>3
<1>6. CASE Touch(s)
  <2>1. Sound(tokens, Free("200", reqs[s].sent, Len(reqs[s].events)))
    BY DEF Sound, Free
  <2>. QED
    BY <1>6, <2>1, GotoSound DEF Touch, project
<1>7. CASE Disconnect(s)
  <2>1. \/ Answer(s, "gone")
        \/ Goto(s, Free("gone", reqs[s].sent, Len(reqs[s].events)))
    BY <1>7 DEF Disconnect
  <2>2. tokens' = tokens
    BY <1>7 DEF Disconnect, project
  <2>3. Sound(tokens, Free("gone", reqs[s].sent, Len(reqs[s].events)))
    BY DEF Sound, Free
  <2>. QED
    BY <2>1, <2>2, <2>3, AnswerSound, GotoSound
<1>. QED
  BY <1>1, <1>2, <1>3, <1>4, <1>5, <1>6, <1>7 DEF Handler

----------------------------------------------------------------------------
(***************************************************************************)
(* The theorems                                                            *)
(***************************************************************************)

Inv == Ledger /\ Requests

\* There are no buckets and no requests at the start.
LEMMA InitInv == Init => Inv
<1>. SUFFICES ASSUME Init PROVE Inv
  OBVIOUS
<1>1. Ledger
  BY DEF Init, Ledger, Account
<1>2. Requests
  BY DEF Init, Requests, Sound, Free
<1>. QED
  BY <1>1, <1>2 DEF Inv

\* A new request notes whether its key is its project's.
LEMMA AskSound ==
  ASSUME Requests, NEW s \in Slots, NEW n \in Names, NEW key \in 0 .. issued,
         Ask(s, n, key)
  PROVE  Requests'
<1>0. tokens' = tokens
  BY DEF Ask, project
<1>1. CASE RequireAuth /\ key = NoKey
  BY <1>0, <1>1, AnswerSound DEF Ask
<1>2. CASE ~(RequireAuth /\ key = NoKey)
  <2> DEFINE q == [pc |-> IF RequireAuth THEN "lookup" ELSE "admit",
                   name |-> n, key |-> key, held |-> Opens(key, n)]
  <2>1. Goto(s, q)
    BY <1>2 DEF Ask
  <2>2. /\ {"pc", "name", "key", "held"} \subseteq DOMAIN q
        /\ q.pc \in {"lookup", "admit"} /\ (RequireAuth => q.pc = "lookup")
        /\ q.name = n /\ q.key = key /\ q.held = Opens(key, n)
    OBVIOUS
  <2>. HIDE DEF q
  <2>3. UnderWay(q)
    BY <2>2 DEF UnderWay
  <2>4. Entitled(tokens, q) => q.held
    BY <2>2 DEF Entitled, Opens
  <2>5. Sound(tokens, q)
    BY <2>2, <2>3, <2>4 DEF Sound
  <2>. QED
    BY <1>0, <2>1, <2>5, GotoSound
<1>. QED
  BY <1>1, <1>2

\* The limiter is the only one to spend tokens, and only at the check.
LEMMA HandlerKeepsLedger ==
  ASSUME Inv, NEW s \in Slots, Handler(s)
  PROVE  Ledger'
<1>1. CASE Lookup(s)
  BY <1>1, TickKeepsLedger DEF Lookup, Inv
<1>2. CASE LookupFails(s)
  BY <1>2, TickKeepsLedger DEF LookupFails, Inv
<1>3. ASSUME reqs[s].pc = "admit" PROVE reqs[s].name \in Names
  BY <1>3, UnderWayAt DEF Inv, UnderWay
<1>4. CASE Refuse(s)
  BY <1>3, <1>4, CheckKeepsLedger DEF Refuse, Inv
<1>5. ASSUME NEW body \in Bodies, Admit(s, body) PROVE Ledger'
  BY <1>3, <1>5, CheckKeepsLedger DEF Admit, Inv
<1>6. CASE Send(s)
  BY <1>6, TickKeepsLedger DEF Send, Inv
<1>7. CASE Touch(s)
  BY <1>7, TickKeepsLedger DEF Touch, Inv
<1>8. CASE Disconnect(s)
  BY <1>8, TickKeepsLedger DEF Disconnect, Inv
<1>. QED
  BY <1>1, <1>2, <1>4, <1>5, <1>6, <1>7, <1>8 DEF Handler

\* Every step keeps the accounts and the requests in order.
LEMMA NextInv == Inv /\ [Next]_vars => Inv'
<1>. SUFFICES ASSUME Inv, [Next]_vars PROVE Inv'
  OBVIOUS
<1>0. Ledger /\ Requests
  BY DEF Inv
<1>1. ASSUME NEW s \in Slots, NEW n \in Names, NEW key \in 0 .. issued, Ask(s, n, key)
      PROVE  Inv'
  BY <1>0, <1>1, AskSound, TickKeepsLedger DEF Ask, Inv
<1>2. ASSUME NEW s \in Slots, Handler(s) PROVE Inv'
  BY <1>0, <1>2, HandlerSound, HandlerKeepsLedger DEF Inv
<1>3. CASE Tick
  BY <1>0, <1>3, TickKeepsLedger DEF Tick, project, Requests, Inv
<1>4. ASSUME NEW n \in Names, Rotate(n) PROVE Inv'
  <2>1. reqs' = Held(tokens')
    BY <1>4 DEF Rotate
  <2>. QED
    BY <1>0, <1>4, <2>1, HeldSound, TickKeepsLedger DEF Rotate, Inv
<1>5. ASSUME NEW n \in Names, NEW m \in Names, Rename(n, m) PROVE Inv'
  <2>1. reqs' = Held(tokens')
    BY <1>5 DEF Rename
  <2>. QED
    BY <1>0, <1>5, <2>1, HeldSound, TickKeepsLedger DEF Rename, Inv
<1>6. ASSUME NEW n \in Names, Create(n) PROVE Inv'
  <2>1. reqs' = Held(tokens')
    BY <1>6 DEF Create
  <2>. QED
    BY <1>0, <1>6, <2>1, HeldSound, TickKeepsLedger DEF Create, Inv
<1>7. CASE Take
  BY <1>0, <1>7, TickKeepsLedger DEF Take, project, Requests, Inv
<1>8. CASE CloseChannel
  BY <1>0, <1>8, TickKeepsLedger DEF CloseChannel, project, Requests, Inv
<1>9. CASE UNCHANGED vars
  BY <1>0, <1>9, TickKeepsLedger DEF vars, project, Requests, Inv
<1>. QED
  BY <1>1, <1>2, <1>3, <1>4, <1>5, <1>6, <1>7, <1>8, <1>9 DEF Next

\* The limiter's accounts and the key checks are in order at all times
\* (RateLimiter::check, ingest_envelope).
THEOREM IngressInvariant == Spec => []Inv
<1>. QED
  BY InitInv, NextInv, PTL DEF Spec

\* The accounts show that the budget was kept.
LEMMA InvWithinBudget == Inv => WithinBudget
<1>. SUFFICES ASSUME Inv, NEW n \in Names PROVE Affordable(grants[n])
  BY DEF WithinBudget
<1>. QED
  BY BucketAccount DEF Inv

\* The grants of a name over any stretch of time fit the burst and the rate,
\* for every rate, burst and clock and any mix of requests (RateLimiter::check,
\* TokenBucket::try_acquire).
THEOREM BudgetKept == Spec => []WithinBudget
<1>. QED
  BY IngressInvariant, InvWithinBudget, PTL

\* A sound request past the key check carries a key that was its project's.
LEMMA InvKeyHeld == Inv => KeyHeldDuringRequest
<1>. SUFFICES ASSUME Inv, RequireAuth, NEW s \in Slots,
                     reqs[s].pc \in {"admit", "send", "touch"}
     PROVE  reqs[s].held
  BY DEF KeyHeldDuringRequest
<1>. QED
  BY UnderWayAt DEF Inv

\* However tokens are rotated and projects renamed or created meanwhile, a
\* request past the key check carries a token that was its project's at some
\* moment since it came in (ingest_envelope).
THEOREM KeysHeld == Spec => []KeyHeldDuringRequest
<1>. QED
  BY IngressInvariant, InvKeyHeld, PTL

\* The check refuses only a name whose bucket has no token to give.
LEMMA RefusalIsDry ==
  ASSUME Inv, NEW s \in Slots, Refuse(s)
  PROVE  ~Affordable(Append(grants[reqs[s].name], now))
<1> DEFINE n == reqs[s].name
           r == Refilled(BucketOf(n), now)
<1>1. n \in Names /\ ~Passes(n)
  BY UnderWayAt DEF Refuse, Inv, UnderWay
<1>. HIDE DEF n
<1>2. Balanced(r, grants[n]) /\ r.last = now
  BY <1>1, RefilledAccount DEF Inv
<1>3. r.tokens \in Nat /\ ~(r.tokens >= TicksPerMin)
  BY <1>1, <1>2, Rates DEF Passes, HasToken, Balanced, Bucket
<1>. HIDE DEF r
<1>4. ~Affordable(Append(grants[n], r.last))
  BY <1>2, <1>3, Rates, DryIsOverBudget
<1>. QED
  BY <1>2, <1>4 DEF n

\* Nothing but a refusal answers 429.
LEMMA OnlyRefusals ==
  ASSUME Inv, [Next]_vars, NEW s \in Slots,
         reqs[s].pc = "admit", reqs'[s].pc = "free", reqs'[s].answer = "429"
  PROVE  Refuse(s)
<1>0. DOMAIN reqs = Slots
  BY DEF Inv, Requests
<1>1. reqs' # reqs
  OBVIOUS
<1>2. ASSUME NEW table, reqs' = Held(table) PROVE FALSE
  BY <1>2, UnderWayAt DEF Held, Inv, UnderWay
<1>3. ASSUME NEW k \in Slots, NEW r, Goto(k, r) PROVE k = s /\ r.answer = "429"
  BY <1>0, <1>3 DEF Goto
<1>4. ASSUME NEW k \in Slots, NEW n \in Names, NEW key \in 0 .. issued, Ask(k, n, key)
      PROVE  FALSE
  <2>1. reqs[k].pc = "free" /\ k # s
    BY <1>4 DEF Ask
  <2>2. CASE RequireAuth /\ key = NoKey
    BY <1>3, <1>4, <2>1, <2>2 DEF Ask, Answer
  <2>3. CASE ~(RequireAuth /\ key = NoKey)
    BY <1>3, <1>4, <2>1, <2>3 DEF Ask
  <2>. QED
    BY <2>2, <2>3
<1>5. ASSUME NEW k \in Slots, Handler(k) PROVE Refuse(s)
  <2>1. ASSUME NEW answer, Answer(k, answer) PROVE k = s /\ answer = "429"
    BY <1>3, <2>1 DEF Answer, Free
  <2>2. ASSUME Lookup(k) \/ Send(k) \/ Touch(k) PROVE FALSE
    <3>1. reqs[k].pc # "admit"
      BY <2>2 DEF Lookup, Send, Touch
    <3>2. reqs'[s] = reqs[s]
      BY <1>0, <2>2, <3>1 DEF Lookup, Send, Touch, Answer, Goto
    <3>. QED
      BY <3>2
  <2>3. ~LookupFails(k)
    BY <2>1 DEF LookupFails
  <2>4. ASSUME NEW body \in Bodies, Admit(k, body) PROVE FALSE
    <3>1. CASE Decoded(body) = Malformed
      BY <2>1, <2>4, <3>1 DEF Admit
    <3>2. CASE Decoded(body) # Malformed
      <4> DEFINE events == Decoded(body).events
                 q == [pc |-> IF events = <<>> THEN "touch" ELSE "send",
                       name |-> reqs[k].name, key |-> reqs[k].key,
                       held |-> reqs[k].held, events |-> events, sent |-> 0]
      <4>1. Goto(k, q)
        BY <2>4, <3>2 DEF Admit, Proceed
      <4>2. q.pc # "free"
        OBVIOUS
      <4>. HIDE DEF q
      <4>. QED
        BY <1>0, <1>3, <4>1, <4>2 DEF Goto
    <3>. QED
      BY <3>1, <3>2
  <2>5. ASSUME Refuse(k) PROVE Refuse(s)
    BY <2>1, <2>5 DEF Refuse
  <2>6. ASSUME Disconnect(k) PROVE FALSE
    <3>1. reqs[k].pc # "admit"
      BY <2>6 DEF Disconnect
    <3>2. reqs'[s] = reqs[s]
      BY <1>0, <2>6, <3>1 DEF Disconnect, Answer, Goto
    <3>. QED
      BY <3>2
  <2>. QED
    BY <1>5, <2>2, <2>3, <2>4, <2>5, <2>6 DEF Handler
<1>6. ~Tick /\ ~Take /\ ~CloseChannel /\ ~UNCHANGED vars
  BY <1>1 DEF Tick, Take, CloseChannel, vars
<1>7. /\ ~ \E n \in Names : Rotate(n) \/ Create(n)
      /\ ~ \E n, m \in Names : Rename(n, m)
  BY <1>2 DEF Rotate, Create, Rename
<1>. QED
  BY <1>4, <1>5, <1>6, <1>7 DEF Next

\* Whatever the rate, the burst and the clock, a request is refused only when
\* one more grant would have broken the budget (TokenBucket::try_acquire).
THEOREM RefusalsJustified == Spec => RefusedOnlyOverBudget
<1>1. Inv /\ [Next]_vars =>
        [\A s \in Slots :
           reqs[s].pc = "admit" /\ reqs'[s].pc = "free" /\ reqs'[s].answer = "429"
             => ~Affordable(Append(grants[reqs[s].name], now))]_vars
  BY OnlyRefusals, RefusalIsDry
<1>. QED
  BY <1>1, IngressInvariant, PTL DEF Spec, RefusedOnlyOverBudget

----------------------------------------------------------------------------
(***************************************************************************)
(* The envelope parser                                                     *)
(***************************************************************************)

\* The principle of induction, of a set of numbers.
LEMMA EveryNumber ==
  ASSUME NEW S, 0 \in S, \A n \in Nat : n \in S => n + 1 \in S
  PROVE  Nat \subseteq S
<1> DEFINE wrong == Nat \ S
<1>1. SUFFICES ASSUME wrong # {} PROVE FALSE
  OBVIOUS
<1>2. PICK n \in wrong : \A m \in wrong : ~(m < n)
  <2> HIDE DEF wrong
  <2>1. wrong \subseteq Nat
    BY DEF wrong
  <2>2. PICK n \in wrong : \A m \in wrong : <<m, n>> \notin OpToRel(<, Nat)
    BY <1>1, <2>1, NatLessThanWellFounded, WFMin
  <2>. QED BY <2>1, <2>2 DEF OpToRel
<1>3. n # 0 /\ n - 1 \in Nat /\ n - 1 < n /\ n = (n - 1) + 1
  OBVIOUS
<1>4. n - 1 \in S
  BY <1>2, <1>3
<1>. QED BY <1>3, <1>4

\* A set of numbers has a least.
LEMMA LeastNumber ==
  ASSUME NEW S \in SUBSET Nat, S # {}
  PROVE  Min(S) \in S /\ \A m \in S : Min(S) <= m
<1>1. PICK n \in S : \A m \in S : <<m, n>> \notin OpToRel(<, Nat)
  BY NatLessThanWellFounded, WFMin
<1>2. \A m \in S : ~(m < n)
  BY <1>1 DEF OpToRel
<1>3. \A m \in S : n <= m
  BY <1>2
<1>. QED BY <1>3 DEF Min

\* Division leaves less than the divisor, and nothing less than it.
LEMMA Wrapping ==
  ASSUME NEW w \in Nat \ {0}, NEW x \in Nat
  PROVE  x % w \in 0 .. w - 1 /\ x % w <= x /\ (x < w => x % w = x)
OBVIOUS

\* read_line: a line ends past its newline, or with the envelope.
LEMMA LineEndsPast ==
  ASSUME NEW S, NEW raw \in Seq(S), NEW c \in Nat, c < Len(raw)
  PROVE  /\ LineEnd(raw, c) \in c + 1 .. Len(raw)
         /\ LineEnd(raw, c) = Len(raw) \/ raw[LineEnd(raw, c)] = NL
         /\ \A i \in c + 1 .. LineEnd(raw, c) - 1 : raw[i] # NL
<1> DEFINE found == NewlinesFrom(raw, c)
<1>1. found \in SUBSET Nat /\ found = {i \in c .. Len(raw) - 1 : raw[i + 1] = NL}
  BY DEF NewlinesFrom
<1>2. CASE found = {}
  <2>1. LineEnd(raw, c) = Len(raw)
    BY <1>2 DEF LineEnd
  <2>2. ASSUME NEW i \in c + 1 .. Len(raw) PROVE raw[i] # NL
    <3>1. i - 1 \in c .. Len(raw) - 1 /\ (i - 1) + 1 = i
      OBVIOUS
    <3> HIDE DEF found
    <3>. QED BY <1>1, <1>2, <3>1
  <2>. QED BY <2>1, <2>2
<1>3. CASE found # {}
  <2>1. Min(found) \in found /\ \A m \in found : Min(found) <= m
    BY <1>1, <1>3, LeastNumber
  <2>2. LineEnd(raw, c) = Min(found) + 1
    BY <1>3 DEF LineEnd
  <2> HIDE DEF found
  <2>3. Min(found) \in c .. Len(raw) - 1 /\ raw[Min(found) + 1] = NL
    BY <1>1, <2>1
  <2>4. ASSUME NEW i \in c + 1 .. Min(found) PROVE raw[i] # NL
    <3>1. i - 1 \in c .. Len(raw) - 1 /\ (i - 1) + 1 = i /\ ~(Min(found) <= i - 1)
      BY <2>3
    <3>. QED BY <1>1, <2>1, <3>1
  <2>. QED BY <2>2, <2>3, <2>4
<1>. QED BY <1>2, <1>3

\* A bounded set of numbers has a greatest.
LEMMA GreatestNumber ==
  ASSUME NEW n \in Nat, NEW S \in SUBSET (1 .. n), S # {}
  PROVE  Max(S) \in S /\ \A m \in S : m <= Max(S)
<1> DEFINE below == {k \in Nat : \E m \in S : k = n - m}
<1>1. below \in SUBSET Nat /\ below # {}
  <2>1. PICK m \in S : TRUE
    OBVIOUS
  <2>2. n - m \in Nat
    OBVIOUS
  <2>. QED BY <2>1, <2>2
<1>2. Min(below) \in below /\ \A k \in below : Min(below) <= k
  BY <1>1, LeastNumber
<1>3. PICK m \in S : Min(below) = n - m
  BY <1>2
<1>4. ASSUME NEW k \in S PROVE k <= m
  <2>1. n - k \in below
    OBVIOUS
  <2>2. n - m <= n - k
    BY <1>2, <1>3, <2>1
  <2>. QED BY <2>2
<1>5. m \in S /\ \A y \in S : m >= y
  BY <1>4
<1>. QED BY <1>5 DEF Max

\* What serde_json skips: newlines around, and nothing else.
LEMMA TrimmedIs ==
  ASSUME NEW S, NEW s \in Seq(S)
  PROVE  \/ Trimmed(s) = <<>> /\ \A i \in DOMAIN s : s[i] = NL
         \/ \E a, b \in DOMAIN s :
              /\ a <= b /\ Trimmed(s) = SubSeq(s, a, b)
              /\ s[a] # NL /\ s[b] # NL
              /\ \A i \in DOMAIN s : i < a \/ i > b => s[i] = NL
<1> DEFINE inner == {i \in DOMAIN s : s[i] # NL}
<1>1. CASE inner = {}
  BY <1>1 DEF Trimmed
<1>2. CASE inner # {}
  <2>1. inner \in SUBSET (1 .. Len(s)) /\ Len(s) \in Nat /\ inner \in SUBSET Nat
    OBVIOUS
  <2>2. Min(inner) \in inner /\ \A m \in inner : Min(inner) <= m
    BY <1>2, <2>1, LeastNumber
  <2>3. Max(inner) \in inner /\ \A m \in inner : m <= Max(inner)
    BY <1>2, <2>1, GreatestNumber
  <2>4. Trimmed(s) = SubSeq(s, Min(inner), Max(inner))
    BY <1>2 DEF Trimmed
  <2>5. ASSUME NEW i \in DOMAIN s, i < Min(inner) \/ i > Max(inner) PROVE s[i] = NL
    <3>1. i \in Int /\ (i \notin inner => s[i] = NL)
      OBVIOUS
    <3>2. Min(inner) \in DOMAIN s /\ Max(inner) \in DOMAIN s
      BY <2>2, <2>3
    <3> HIDE DEF inner
    <3>3. i \notin inner
      BY <2>2, <2>3, <2>5, <3>1, <3>2
    <3>. QED BY <3>1, <3>3
  <2>6. Min(inner) <= Max(inner)
    BY <2>2, <2>3
  <2>. QED BY <2>2, <2>3, <2>4, <2>5, <2>6
<1>. QED BY <1>1, <1>2

\* Without newlines nothing is skipped.
LEMMA TrimsNothing ==
  ASSUME NEW S, NEW s \in Seq(S), \A i \in DOMAIN s : s[i] # NL
  PROVE  Trimmed(s) = s
<1>1. CASE s = <<>>
  <2>1. DOMAIN s = {}
    BY <1>1
  <2>. QED BY <1>1, <2>1, TrimmedIs
<1>2. CASE s # <<>>
  <2>1. 1 \in DOMAIN s /\ Len(s) \in DOMAIN s
    BY <1>2
  <2>2. PICK a, b \in DOMAIN s :
              /\ Trimmed(s) = SubSeq(s, a, b)
              /\ \A i \in DOMAIN s : i < a \/ i > b => s[i] = NL
    BY <2>1, TrimmedIs
  <2>3. a = 1 /\ b = Len(s)
    <3>1. ~(1 < a) /\ ~(Len(s) > b)
      BY <2>1, <2>2
    <3>. QED BY <3>1
  <2>. QED BY <2>2, <2>3, SubSeqFull
<1>. QED BY <1>1, <1>2

\* A document's first symbol is one of the slice's.
LEMMA DocIsThere ==
  ASSUME NEW S, NEW s \in Seq(S), IsJson(s)
  PROVE  \E i \in DOMAIN s : s[i].sym = "open" /\ DocOf(s) = s[i].doc
<1>1. Len(Trimmed(s)) >= 2 /\ Trimmed(s)[1].sym = "open"
  BY DEF IsJson
<1>2. PICK a, b \in DOMAIN s : a <= b /\ Trimmed(s) = SubSeq(s, a, b)
  <2>1. Trimmed(s) # <<>>
    BY <1>1
  <2>. QED BY <2>1, TrimmedIs
<1>3. Trimmed(s)[1] = s[a]
  BY <1>2
<1>. QED BY <1>1, <1>3 DEF DocOf

\* One pass of the loop of parse_envelope.
Pass(raw, c, items) ==
  IF c >= Len(raw) THEN Parsed(<<>>)
  ELSE IF LineAt(raw, c) = <<>> THEN items[LineEnd(raw, c)]
  ELSE ItemAt(raw, c, items)

\* A declared length, one of one entry, is a number.
LEMMA OneNumber == \A d \in Seq(Nat) : Len(d) = 1 => d[1] \in Nat
OBVIOUS

\* The header of the line at c is one of the envelope's documents.
LEMMA HeaderIsThere ==
  ASSUME NEW S, NEW raw \in Seq(S),
         NEW c \in Nat, c < Len(raw), IsJson(LineAt(raw, c))
  PROVE  \E i \in DOMAIN raw : raw[i].sym = "open" /\ DocOf(LineAt(raw, c)) = raw[i].doc
<1> DEFINE line == LineAt(raw, c)
           e == LineEnd(raw, c)
<1>1. e \in c + 1 .. Len(raw)
  BY LineEndsPast
<1> HIDE DEF e
<1>2. line = SubSeq(raw, c + 1, e - 1)
  BY DEF LineAt, Slice, e
<1>3. line \in Seq(S) /\ \A i \in DOMAIN line : \E j \in DOMAIN raw : line[i] = raw[j]
  <2>1. c + 1 \in 1 .. Len(raw) + 1 /\ e - 1 \in c .. Len(raw)
    BY <1>1
  <2>2. line \in Seq(S) /\ Len(line) = (e - 1) - (c + 1) + 1
        /\ \A i \in 1 .. Len(line) : line[i] = raw[c + i]
    BY <1>2, <2>1
  <2>3. ASSUME NEW i \in 1 .. Len(line) PROVE c + i \in 1 .. Len(raw)
    BY <2>1, <2>2
  <2>. QED BY <2>2, <2>3
<1> HIDE DEF line
<1>4. PICK i \in DOMAIN line : line[i].sym = "open" /\ DocOf(line) = line[i].doc
  BY <1>3, DocIsThere DEF line
<1>5. PICK j \in DOMAIN raw : line[i] = raw[j]
  BY <1>3
<1>. QED BY <1>4, <1>5 DEF line

\* It declares a number, if anything.
LEMMA HeaderDeclares ==
  ASSUME NEW S, NEW raw \in Seq(S), LengthsDeclared(raw),
         NEW c \in Nat, c < Len(raw), IsJson(LineAt(raw, c))
  PROVE  LET declared == LengthIn(DocOf(LineAt(raw, c)))
         IN  declared # NoLength => declared[1] \in Nat
<1> DEFINE declared == LengthIn(DocOf(LineAt(raw, c)))
<1>1. declared = NoLength \/ (declared \in Seq(Nat) /\ Len(declared) = 1)
  BY HeaderIsThere DEF LengthsDeclared, Declares
<1>2. declared # NoLength => declared[1] \in Nat
  <2> HIDE DEF declared
  <2>. QED BY <1>1, OneNumber
<1>. QED BY <1>2

\* A payload ends at a number; unless its declared length wraps, not before its
\* start.
LEMMA PayloadEnds ==
  ASSUME NEW S, NEW raw \in Seq(S), Width \in Nat \ {0}, NEW start \in 0 .. Len(raw),
         NEW header, LengthIn(header) # NoLength => LengthIn(header)[1] \in Nat
  PROVE  LET end == PayloadEnd(raw, start, header)
         IN  /\ end \in Nat
             /\ end < start => LengthIn(header) # NoLength /\ start + LengthIn(header)[1] >= Width
<1> DEFINE end == PayloadEnd(raw, start, header)
           n == LengthIn(header)[1]
<1>1. CASE LengthIn(header) # NoLength
  <2>1. end = (start + n) % Width
    BY <1>1 DEF PayloadEnd
  <2>2. n \in Nat
    BY <1>1
  <2> HIDE DEF end, n
  <2>3. start + n \in Nat /\ start + n >= start
    BY <2>2
  <2> DEFINE sum == start + n
  <2>4. sum \in Nat /\ sum >= start /\ end = sum % Width
    BY <2>1, <2>3
  <2> HIDE DEF sum
  <2>5. end \in 0 .. Width - 1 /\ (sum < Width => end = sum)
    BY <2>4, Wrapping
  <2>6. end \in Nat /\ (end < start => sum >= Width)
    BY <2>4, <2>5
  <2>. QED BY <1>1, <2>6 DEF end, n, sum
<1>2. CASE LengthIn(header) = NoLength
  <2> DEFINE found == NewlinesFrom(raw, start)
  <2>1. found \in SUBSET Nat /\ \A i \in found : i >= start
    BY DEF NewlinesFrom
  <2>2. end = IF found = {} THEN Len(raw) ELSE Min(found)
    BY <1>2 DEF PayloadEnd
  <2>3. found # {} => Min(found) \in found
    BY <2>1, LeastNumber
  <2> HIDE DEF found, end
  <2>4. ASSUME found = {} PROVE end \in Nat /\ end >= start
    BY <2>2, <2>4
  <2>5. ASSUME found # {} PROVE end \in Nat /\ end >= start
    BY <2>1, <2>2, <2>3, <2>5
  <2>6. end \in Nat /\ end >= start
    BY <2>4, <2>5
  <2>. QED BY <2>6 DEF end
<1>. QED BY <1>1, <1>2

\* A pass only asks what comes of the rest of the envelope.
LEMMA PassLooksAhead ==
  ASSUME NEW S, NEW raw \in Seq(S), LengthsDeclared(raw), Width \in Nat \ {0},
         NEW c \in Nat, NEW g, NEW h, \A d \in Nat : d > c => g[d] = h[d]
  PROVE  Pass(raw, c, g) = Pass(raw, c, h)
<1>1. CASE c >= Len(raw)
  BY <1>1 DEF Pass
<1>2. CASE c < Len(raw)
  <2> DEFINE start == LineEnd(raw, c)
             header == DocOf(LineAt(raw, c))
             end == PayloadEnd(raw, start, header)
             next == After(raw, end)
  <2>1. start \in c + 1 .. Len(raw)
    BY <1>2, LineEndsPast
  <2>2. g[start] = h[start]
    <3> HIDE DEF start
    <3>. QED BY <2>1
  <2>3. ASSUME IsJson(LineAt(raw, c)), ~(end > Len(raw)), ~(end < start) PROVE g[next] = h[next]
    <3>1. LengthIn(header) # NoLength => LengthIn(header)[1] \in Nat
      BY <1>2, <2>3, HeaderDeclares
    <3>2. start \in 0 .. Len(raw)
      <4> HIDE DEF start
      <4>. QED BY <2>1
    <3>3. end \in Nat
      BY <3>1, <3>2, PayloadEnds
    <3>4. next = end \/ next = end + 1
      BY DEF After
    <3> HIDE DEF start, header, end, next
    <3>. QED BY <2>1, <2>3, <3>3, <3>4
  <2>4. ItemAt(raw, c, g) = ItemAt(raw, c, h)
    <3>1. CASE ~IsJson(LineAt(raw, c)) \/ end > Len(raw)
      BY <3>1 DEF ItemAt
    <3>2. CASE ~(~IsJson(LineAt(raw, c)) \/ end > Len(raw)) /\ end < start
      BY <3>2 DEF ItemAt
    <3>3. CASE ~(~IsJson(LineAt(raw, c)) \/ end > Len(raw)) /\ ~(end < start)
      BY <2>3, <3>3 DEF ItemAt
    <3>. QED BY <3>1, <3>2, <3>3
  <2>5. ~(c >= Len(raw))
    BY <1>2
  <2>. QED BY <2>2, <2>4, <2>5 DEF Pass
<1>. QED BY <1>1, <1>2

\* The loop ends: there is a table of what it makes of every rest.
LEMMA LoopEnds ==
  ASSUME NEW S, NEW raw \in Seq(S), LengthsDeclared(raw), Width \in Nat \ {0}
  PROVE  ItemsFrom(raw) = [c \in Nat |-> Pass(raw, c, ItemsFrom(raw))]
<1> DEFINE N == Len(raw)
           Good(m, g) == \A c \in Nat : c + m >= N => g[c] = Pass(raw, c, g)
           solved == {m \in Nat : \E g : g = [c \in Nat |-> g[c]] /\ Good(m, g)}
<1>1. N \in Nat
  OBVIOUS
<1>2. 0 \in solved
  <2> DEFINE g == [c \in Nat |-> Parsed(<<>>)]
  <2>1. ASSUME NEW c \in Nat, c + 0 >= N PROVE g[c] = Pass(raw, c, g)
    <3>1. c >= Len(raw)
      BY <2>1
    <3>. QED BY <3>1 DEF Pass
  <2>2. g = [c \in Nat |-> g[c]]
    OBVIOUS
  <2>. QED BY <2>1, <2>2
<1>3. ASSUME NEW m \in Nat, m \in solved PROVE m + 1 \in solved
  <2>1. PICK g : g = [c \in Nat |-> g[c]] /\ Good(m, g)
    BY <1>3
  <2>2. CASE N < m + 1
    <3>1. Good(m + 1, g)
      <4> SUFFICES ASSUME NEW c \in Nat PROVE g[c] = Pass(raw, c, g)
        OBVIOUS
      <4>1. c + m >= N
        BY <1>1, <2>2
      <4>. QED BY <2>1, <4>1
    <3>. QED BY <2>1, <3>1
  <2>3. CASE N >= m + 1
    <3> DEFINE k == N - (m + 1)
               h == [c \in Nat |-> IF c = k THEN Pass(raw, k, g) ELSE g[c]]
    <3>1. k \in Nat /\ k + (m + 1) = N
      BY <1>1, <2>3
    <3> HIDE DEF k, N
    <3>2. ASSUME NEW c \in Nat, c + (m + 1) >= N PROVE h[c] = Pass(raw, c, h)
      <4>1. c >= k
        BY <1>1, <3>1, <3>2
      <4>2. \A d \in Nat : d > c => g[d] = h[d]
        BY <3>1, <4>1
      <4>3. Pass(raw, c, g) = Pass(raw, c, h)
        <5> HIDE DEF h
        <5>. QED BY <4>2, PassLooksAhead
      <4>4. CASE c = k
        BY <4>3, <4>4
      <4>5. CASE c # k
        <5>1. c + m >= N
          BY <1>1, <3>1, <4>1, <4>5
        <5>2. h[c] = g[c] /\ g[c] = Pass(raw, c, g)
          BY <2>1, <4>5, <5>1
        <5>. QED BY <4>3, <5>2
      <4>. QED BY <4>4, <4>5
    <3>3. h = [c \in Nat |-> h[c]]
      OBVIOUS
    <3>4. Good(m + 1, h)
      BY <3>2
    <3> HIDE DEF h, Good
    <3>. QED BY <3>3, <3>4
  <2>. QED BY <1>1, <2>2, <2>3
<1>4. Nat \subseteq solved
  <2> HIDE DEF solved
  <2>. QED BY <1>2, <1>3, EveryNumber
<1>5. PICK g : g = [c \in Nat |-> g[c]] /\ Good(N, g)
  BY <1>1, <1>4
<1>6. g = [c \in Nat |-> Pass(raw, c, g)]
  <2>1. ASSUME NEW c \in Nat PROVE g[c] = Pass(raw, c, g)
    <3>1. c + N >= N
      BY <1>1
    <3>. QED BY <1>5, <3>1
  <2>. QED BY <1>5, <2>1
<1> DEFINE Solves(items) == items = [c \in Nat |-> Pass(raw, c, items)]
<1>7. ItemsFrom(raw) = CHOOSE items : Solves(items)
  BY DEF ItemsFrom, Pass
<1>8. Solves(g)
  BY <1>6
<1> HIDE DEF Solves
<1>9. Solves(ItemsFrom(raw))
  BY <1>7, <1>8
<1>. QED BY <1>9 DEF Solves

\* What a caller of the parser may get.
EventsRead(raw) == {EventOf(Slice(raw, c, e)) : c \in Nat, e \in Nat}
Outcomes(raw) ==
  {Malformed} \cup {r \in {Panic} : ~LengthsFit(raw)}
    \cup {Parsed(events) : events \in Seq(EventsRead(raw))}

\* One event more is a list of events.
LEMMA PrependYields ==
  ASSUME NEW raw, NEW event \in EventsRead(raw), NEW rest \in Outcomes(raw)
  PROVE  Prepend(event, rest) \in Outcomes(raw)
<1>1. CASE rest.result # "events"
  BY <1>1 DEF Prepend
<1>2. CASE rest.result = "events"
  <2>1. rest # Malformed /\ rest # Panic
    BY <1>2 DEF Malformed, Panic
  <2>2. PICK events \in Seq(EventsRead(raw)) : rest = Parsed(events)
    BY <2>1 DEF Outcomes
  <2>3. rest.events = events
    BY <2>2 DEF Parsed
  <2>4. <<event>> \o events \in Seq(EventsRead(raw))
    OBVIOUS
  <2>. QED BY <1>2, <2>3, <2>4 DEF Prepend, Outcomes
<1>. QED BY <1>1, <1>2

\* A pass yields one of them if every rest does.
LEMMA PassYields ==
  ASSUME NEW S, NEW raw \in Seq(S), LengthsDeclared(raw), Width \in Nat \ {0},
         NEW c \in Nat, NEW items, \A d \in Nat : d > c => items[d] \in Outcomes(raw)
  PROVE  Pass(raw, c, items) \in Outcomes(raw)
<1>1. CASE c >= Len(raw)
  <2>1. <<>> \in Seq(EventsRead(raw))
    OBVIOUS
  <2>. QED BY <1>1, <2>1 DEF Pass, Outcomes
<1>2. CASE c < Len(raw)
  <2> DEFINE start == LineEnd(raw, c)
             header == DocOf(LineAt(raw, c))
             declared == LengthIn(header)
             end == PayloadEnd(raw, start, header)
             next == After(raw, end)
             payload == Slice(raw, start, end)
  <2>1. start \in c + 1 .. Len(raw)
    BY <1>2, LineEndsPast
  <2>2. items[start] \in Outcomes(raw)
    <3> HIDE DEF start
    <3>. QED BY <2>1
  <2>3. ASSUME IsJson(LineAt(raw, c))
        PROVE  /\ end \in Nat /\ start \in Nat
               /\ end >= start => items[next] \in Outcomes(raw)
               /\ end < start => ~LengthsFit(raw)
    <3>1. declared # NoLength => declared[1] \in Nat
      BY <1>2, <2>3, HeaderDeclares
    <3>2. start \in 0 .. Len(raw)
      <4> HIDE DEF start
      <4>. QED BY <2>1
    <3>3. end \in Nat /\ (end < start => declared # NoLength /\ start + declared[1] >= Width)
      BY <3>1, <3>2, PayloadEnds
    <3>4. next = end \/ next = end + 1
      BY DEF After
    <3>5. LengthsFit(raw) /\ declared # NoLength => Len(raw) + declared[1] < Width
      BY <1>2, <2>3, HeaderIsThere DEF LengthsFit
    <3> HIDE DEF start, header, declared, end, next
    <3>6. end >= start => next \in Nat /\ next > c
      BY <2>1, <3>3, <3>4
    <3>7. end < start => ~LengthsFit(raw)
      BY <3>1, <3>2, <3>3, <3>5
    <3>. QED BY <3>2, <3>3, <3>6, <3>7
  <2>4. ItemAt(raw, c, items) \in Outcomes(raw)
    <3>1. CASE ~IsJson(LineAt(raw, c)) \/ end > Len(raw)
      BY <3>1 DEF ItemAt, Outcomes
    <3>2. CASE IsJson(LineAt(raw, c)) /\ ~(end > Len(raw)) /\ end < start
      <4>1. ItemAt(raw, c, items) = Panic
        BY <3>2 DEF ItemAt
      <4>. QED BY <2>3, <3>2, <4>1 DEF Outcomes
    <3>3. CASE IsJson(LineAt(raw, c)) /\ ~(end > Len(raw)) /\ ~(end < start)
      <4>1. ItemAt(raw, c, items) =
              IF TypeIn(header) # "event" THEN items[next]
              ELSE IF ~IsEvent(payload) THEN Malformed
              ELSE Prepend(EventOf(payload), items[next])
        BY <3>3 DEF ItemAt
      <4>2. end >= start
        <5>1. end \in Nat /\ start \in Nat
          BY <2>3, <3>3
        <5> HIDE DEF end, start
        <5>. QED BY <3>3, <5>1
      <4>3. items[next] \in Outcomes(raw) /\ EventOf(payload) \in EventsRead(raw)
        BY <2>3, <3>3, <4>2 DEF EventsRead
      <4> HIDE DEF next, payload, header
      <4>. QED BY <4>1, <4>3, PrependYields DEF Outcomes
    <3>. QED BY <3>1, <3>2, <3>3
  <2>5. ~(c >= Len(raw))
    BY <1>2
  <2>. QED BY <2>2, <2>4, <2>5 DEF Pass
<1>. QED BY <1>1, <1>2

\* So the loop does, from everywhere.
LEMMA LoopYields ==
  ASSUME NEW S, NEW raw \in Seq(S), LengthsDeclared(raw), Width \in Nat \ {0}
  PROVE  \A c \in Nat : ItemsFrom(raw)[c] \in Outcomes(raw)
<1> DEFINE N == Len(raw)
           items == ItemsFrom(raw)
           known == {m \in Nat : \A c \in Nat : c + m >= N => items[c] \in Outcomes(raw)}
<1>1. N \in Nat
  OBVIOUS
<1>2. \A c \in Nat : items[c] = Pass(raw, c, items)
  BY LoopEnds
<1> HIDE DEF items
<1>3. 0 \in known
  <2> SUFFICES ASSUME NEW c \in Nat, c + 0 >= N PROVE items[c] \in Outcomes(raw)
    OBVIOUS
  <2>1. c >= Len(raw) /\ <<>> \in Seq(EventsRead(raw))
    OBVIOUS
  <2>2. items[c] = Parsed(<<>>)
    BY <1>2, <2>1 DEF Pass
  <2>. QED BY <2>1, <2>2 DEF Outcomes
<1>4. ASSUME NEW m \in Nat, m \in known PROVE m + 1 \in known
  <2> SUFFICES ASSUME NEW c \in Nat, c + (m + 1) >= N PROVE items[c] \in Outcomes(raw)
    OBVIOUS
  <2>1. ASSUME NEW d \in Nat, d > c PROVE items[d] \in Outcomes(raw)
    <3>1. d + m >= N
      BY <1>1, <2>1
    <3>. QED BY <1>4, <3>1
  <2>. QED BY <1>2, <2>1, PassYields
<1>5. N \in known
  <2> HIDE DEF known
  <2>. QED BY <1>1, <1>3, <1>4, EveryNumber
<1>6. ASSUME NEW c \in Nat PROVE items[c] \in Outcomes(raw)
  <2>1. c + N >= N
    BY <1>1
  <2>. QED BY <1>5, <2>1
<1>. QED BY <1>6 DEF items

\* parse_envelope, of any bytes: a list of events or an error, and a panic only if
\* a length is declared with which the end of a payload wraps (ingest.rs:893-959).
THEOREM ParserAnswers ==
  ASSUME NEW S, NEW raw \in Seq(S), LengthsDeclared(raw), Width \in Nat \ {0}
  PROVE  /\ ParseEnvelope(raw) = Panic => ~LengthsFit(raw)
         /\ \/ ParseEnvelope(raw) \in {Malformed, Panic}
            \/ \E events \in Seq(EventsRead(raw)) : ParseEnvelope(raw) = Parsed(events)
<1>1. ParseEnvelope(raw) \in Outcomes(raw)
  <2>1. CASE raw = <<>> \/ ~IsJson(LineAt(raw, 0))
    BY <2>1 DEF ParseEnvelope, Outcomes
  <2>2. CASE ~(raw = <<>> \/ ~IsJson(LineAt(raw, 0)))
    <3>1. 0 \in Nat /\ 0 < Len(raw)
      BY <2>2
    <3>2. LineEnd(raw, 0) \in 0 + 1 .. Len(raw)
      BY <3>1, LineEndsPast
    <3>3. LineEnd(raw, 0) \in Nat
      BY <3>2
    <3>4. ParseEnvelope(raw) = ItemsFrom(raw)[LineEnd(raw, 0)]
      BY <2>2 DEF ParseEnvelope
    <3>. QED BY <3>3, <3>4, LoopYields
  <2>. QED BY <2>1, <2>2
<1>2. \A events : Parsed(events) # Panic /\ Malformed # Panic
  <2>1. Panic.result = "panic" /\ Malformed.result = "malformed"
    BY DEF Panic, Malformed
  <2>2. \A events : Parsed(events).result = "events"
    BY DEF Parsed
  <2>. QED BY <2>1, <2>2
<1>. QED BY <1>1, <1>2 DEF Outcomes

\* The sequences that FlattenSeq puts together on its way, each the beginning of
\* the next.
LEMMA FlattenIs ==
  ASSUME NEW S, NEW s \in Seq(Seq(S))
  PROVE  \E f \in [0 .. Len(s) -> Seq(S)] :
           /\ f[0] = <<>> /\ FlattenSeq(s) = f[Len(s)]
           /\ \A k \in 1 .. Len(s) : f[k] = f[k - 1] \o s[k]
           /\ \A k \in 0 .. Len(s) : IsPrefix(f[k], FlattenSeq(s))
<1> DEFINE n == Len(s)
           Glued(i, g) == IF i = 1 THEN s[i] ELSE g[i - 1] \o s[i]
           Upto(m) == \E g : /\ g = [i \in 1 .. n |-> g[i]]
                             /\ \A i \in 1 .. n : i <= m => g[i] = Glued(i, g)
           solved == {m \in Nat : Upto(m)}
           Solves(g) == g = [i \in 1 .. n |-> Glued(i, g)]
           flat == CHOOSE g : Solves(g)
           f == [k \in 0 .. n |-> IF k = 0 THEN <<>> ELSE flat[k]]
<1>1. n \in Nat /\ \A i \in 1 .. n : s[i] \in Seq(S)
  OBVIOUS
<1> HIDE DEF n
<1>2. 0 \in solved
  <2> DEFINE g == [i \in 1 .. n |-> <<>>]
  <2>1. g = [i \in 1 .. n |-> g[i]] /\ \A i \in 1 .. n : ~(i <= 0)
    OBVIOUS
  <2>. QED BY <2>1
<1>3. ASSUME NEW m \in Nat, m \in solved PROVE m + 1 \in solved
  <2>1. PICK g : g = [i \in 1 .. n |-> g[i]] /\ \A i \in 1 .. n : i <= m => g[i] = Glued(i, g)
    BY <1>3
  <2> DEFINE h == [i \in 1 .. n |-> IF i = m + 1 THEN Glued(i, g) ELSE g[i]]
  <2>2. ASSUME NEW i \in 1 .. n, i <= m + 1 PROVE h[i] = Glued(i, h)
    <3>1. i # 1 => i - 1 \in 1 .. n /\ i - 1 # m + 1
      BY <2>2, <1>1
    <3>2. Glued(i, h) = Glued(i, g)
      BY <3>1
    <3>3. CASE i = m + 1
      BY <3>2, <3>3
    <3>4. CASE i # m + 1
      <4>1. i <= m
        BY <2>2, <3>4, <1>1
      <4>. QED BY <2>1, <3>2, <3>4, <4>1
    <3>. QED BY <3>3, <3>4
  <2>3. h = [i \in 1 .. n |-> h[i]]
    OBVIOUS
  <2> HIDE DEF h
  <2>4. Upto(m + 1)
    <3> HIDE DEF Glued
    <3>. QED BY <2>2, <2>3
  <2> HIDE DEF Upto
  <2>. QED BY <2>4
<1>4. n \in solved
  <2> HIDE DEF solved
  <2>. QED BY <1>1, <1>2, <1>3, EveryNumber
<1>5. Solves(flat)
  <2>1. PICK g : g = [i \in 1 .. n |-> g[i]] /\ \A i \in 1 .. n : i <= n => g[i] = Glued(i, g)
    BY <1>4
  <2>2. \A i \in 1 .. n : i <= n
    BY <1>1
  <2> HIDE DEF Glued
  <2>3. g = [i \in 1 .. n |-> Glued(i, g)]
    BY <2>1, <2>2
  <2>4. Solves(g)
    BY <2>3
  <2> HIDE DEF Solves
  <2>. QED BY <2>4
<1> HIDE DEF solved
<1>6. FlattenSeq(s) = IF n = 0 THEN s ELSE flat[n]
  BY DEF FlattenSeq, n
<1> HIDE DEF flat
<1>7. \A i \in 1 .. n : flat[i] = Glued(i, flat)
  <2> HIDE DEF Glued
  <2>. QED BY <1>5
<1>8. ASSUME NEW k \in 1 .. n PROVE f[k] = f[k - 1] \o s[k]
  <2>1. k - 1 \in 0 .. n /\ k \in 0 .. n /\ k # 0 /\ (k # 1 => k - 1 # 0)
    BY <1>1
  <2>2. f[k] = flat[k] /\ flat[k] = Glued(k, flat) /\ f[k - 1] = IF k - 1 = 0 THEN <<>> ELSE flat[k - 1]
    BY <1>7, <2>1
  <2>3. CASE k = 1
    <3>1. flat[k] = s[k] /\ f[k - 1] = <<>>
      BY <2>2, <2>3
    <3>. QED BY <1>1, <2>2, <3>1, ConcatEmptySeq
  <2>4. CASE k # 1
    BY <2>1, <2>2, <2>4
  <2>. QED BY <2>3, <2>4
<1>9. f[0] = <<>>
  BY <1>1
<1>10. f = [k \in 0 .. n |-> f[k]]
  OBVIOUS
<1>11. FlattenSeq(s) = f[n]
  <2>1. n = 0 => s = <<>>
    BY DEF n
  <2>2. n \in 0 .. n /\ (n # 0 => f[n] = flat[n])
    BY <1>1
  <2> HIDE DEF f
  <2>. QED BY <1>6, <1>9, <2>1, <2>2
<1> HIDE DEF f
<1>12. \A k \in Nat : k <= n => \A j \in 0 .. k : f[j] \in Seq(S) /\ IsPrefix(f[j], f[k])
  <2> DEFINE fine == {k \in Nat : k <= n => \A j \in 0 .. k : f[j] \in Seq(S) /\ IsPrefix(f[j], f[k])}
  <2>1. 0 \in fine
    <3>1. \A j \in 0 .. 0 : j = 0
      OBVIOUS
    <3>2. <<>> \in Seq(S) /\ IsPrefix(<<>>, <<>>)
      BY DEF IsPrefix
    <3>. QED BY <1>9, <3>1, <3>2
  <2>2. ASSUME NEW k \in Nat, k \in fine PROVE k + 1 \in fine
    <3> SUFFICES ASSUME k + 1 <= n
                 PROVE  \A j \in 0 .. k + 1 : f[j] \in Seq(S) /\ IsPrefix(f[j], f[k + 1])
      OBVIOUS
    <3>1. f[k] \in Seq(S) /\ \A j \in 0 .. k : f[j] \in Seq(S) /\ IsPrefix(f[j], f[k])
      <4>1. k <= n /\ k \in 0 .. k
        BY <1>1
      <4>. QED BY <2>2, <4>1
    <3>2. k + 1 \in 1 .. n /\ (k + 1) - 1 = k
      BY <1>1
    <3>3. f[k + 1] = f[k] \o s[k + 1] /\ s[k + 1] \in Seq(S)
      BY <1>1, <1>8, <3>2
    <3>4. f[k + 1] \in Seq(S) /\ IsPrefix(f[k], f[k + 1]) /\ IsPrefix(f[k + 1], f[k + 1])
      <4> DEFINE a == f[k]
                 b == s[k + 1]
      <4>1. a \in Seq(S) /\ b \in Seq(S) /\ f[k + 1] = a \o b
        BY <3>1, <3>3
      <4> HIDE DEF a, b
      <4>2. a \o b \in Seq(S) /\ IsPrefix(a, a \o b) /\ IsPrefix(a \o b, a \o b)
        BY <4>1 DEF IsPrefix
      <4>. QED BY <4>1, <4>2 DEF a
    <3>5. ASSUME NEW j \in 0 .. k PROVE f[j] \in Seq(S) /\ IsPrefix(f[j], f[k + 1])
      <4>1. IsPrefix(f[j], f[k])
        BY <3>1
      <4> DEFINE a == f[j]
                 b == f[k]
                 c == f[k + 1]
      <4>2. /\ Len(a) <= Len(b) /\ SubSeq(a, 1, Len(a)) = SubSeq(b, 1, Len(a))
            /\ Len(b) <= Len(c) /\ SubSeq(b, 1, Len(b)) = SubSeq(c, 1, Len(b))
            /\ b \in Seq(S) /\ c \in Seq(S)
        BY <3>1, <3>4, <4>1 DEF IsPrefix
      <4> HIDE DEF a, b, c
      <4>3. Len(a) \in Nat
        BY <3>1 DEF a
      <4>4. a \in Seq(S)
        BY <3>1 DEF a
      <4>5. IsPrefix(a, c)
        BY <4>2, <4>3 DEF IsPrefix
      <4>. QED BY <4>4, <4>5 DEF a, c
    <3>6. \A j \in 0 .. k + 1 : j \in 0 .. k \/ j = k + 1
      OBVIOUS
    <3>. QED BY <3>4, <3>5, <3>6
  <2> HIDE DEF fine
  <2>3. Nat \subseteq fine
    BY <2>1, <2>2, EveryNumber
  <2>. QED BY <2>3 DEF fine
<1>13. /\ f \in [0 .. n -> Seq(S)]
       /\ \A k \in 0 .. n : IsPrefix(f[k], FlattenSeq(s))
  <2>1. \A k \in 0 .. n : k \in Nat /\ k <= n /\ k \in 0 .. n
    BY <1>1
  <2>2. n \in Nat /\ n <= n
    BY <1>1
  <2>. QED BY <1>10, <1>11, <1>12, <2>1, <2>2
<1>. QED BY <1>8, <1>9, <1>11, <1>13 DEF n

\* What senders may put into items: symbols that are, with NL and Close and the
\* headers of the items, those of an envelope.
Sendables(items, S) ==
  /\ \A x \in S : Declares(x)
  /\ \A i \in DOMAIN items : items[i].payload \in Seq(S) /\ WellFormed(items[i])

FirstHeader == Header("", NoLength)

Alphabet(items, S) ==
  S \cup {NL, Close, Open(FirstHeader)} \cup {Open(items[i].header) : i \in DOMAIN items}

\* Their envelopes declare lengths as numbers.
LEMMA AlphabetDeclares ==
  ASSUME NEW S, NEW T, NEW items \in Seq(T), Sendables(items, S)
  PROVE  \A x \in Alphabet(items, S) : Declares(x)
<1>1. Declares(NL) /\ Declares(Close)
  BY DEF Declares, NL, Close
<1>2. Declares(Open(FirstHeader))
  <2>1. Open(FirstHeader).doc.doc = "header" /\ Open(FirstHeader).doc.length = NoLength
    BY DEF Open, FirstHeader, Header
  <2>. QED BY <2>1 DEF Declares, LengthIn
<1>3. ASSUME NEW i \in DOMAIN items PROVE Declares(Open(items[i].header))
  <2>1. Open(items[i].header).doc = items[i].header
    BY DEF Open
  <2>2. LengthIn(items[i].header) = NoLength \/ LengthIn(items[i].header) = <<Len(items[i].payload)>>
    BY DEF Sendables, WellFormed
  <2>3. Len(items[i].payload) \in Nat
    BY LenProperties DEF Sendables
  <2>4. <<Len(items[i].payload)>> \in Seq(Nat) /\ Len(<<Len(items[i].payload)>>) = 1
    BY <2>3
  <2>. QED BY <2>1, <2>2, <2>4 DEF Declares
<1>. QED BY <1>1, <1>2, <1>3 DEF Alphabet, Sendables

\* A sequence with one element more, in parts.
LEMMA OneMore ==
  ASSUME NEW U, NEW s \in Seq(U), NEW e \in U, NEW t \in Seq(U),
         Len(t) = Len(s) + 1, t[Len(t)] = e, \A i \in 1 .. Len(s) : t[i] = s[i]
  PROVE  s \o <<e>> = t
<1> DEFINE one == <<e>>
           both == s \o one
<1>1. one \in Seq(U) /\ Len(one) = 1 /\ one[1] = e
  OBVIOUS
<1> HIDE DEF one
<1>2. /\ both \in Seq(U) /\ Len(both) = Len(s) + Len(one)
      /\ \A i \in 1 .. Len(s) + Len(one) :
           both[i] = IF i <= Len(s) THEN s[i] ELSE one[i - Len(s)]
  BY <1>1, ConcatProperties
<1> HIDE DEF both
<1>3. Len(both) = Len(t) /\ Len(s) \in Nat /\ Len(t) = Len(s) + 1
  BY <1>1, <1>2, LenProperties
<1>4. ASSUME NEW i \in 1 .. Len(both) PROVE both[i] = t[i]
  <2>1. i \in 1 .. Len(s) + 1 /\ i \in 1 .. Len(s) + Len(one)
    BY <1>1, <1>3
  <2>2. CASE i <= Len(s)
    BY <1>2, <1>3, <2>1, <2>2
  <2>3. CASE ~(i <= Len(s))
    <3>1. i = Len(t) /\ i - Len(s) = 1
      BY <1>3, <2>1, <2>3
    <3>. QED BY <1>1, <1>2, <2>1, <2>3, <3>1
  <2>. QED BY <2>2, <2>3
<1>5. both = t
  BY <1>2, <1>3, <1>4, SeqEqual
<1>. QED BY <1>5 DEF both, one

\* Short sequences, joined.
LEMMA Pair == \A a, b : <<a>> \o <<b>> = <<a, b>>
<1> SUFFICES ASSUME NEW a, NEW b PROVE <<a>> \o <<b>> = <<a, b>>
  OBVIOUS
<1> DEFINE U == {a, b}
           s == <<a>>
           t == <<a, b>>
<1>1. s \in Seq(U) /\ t \in Seq(U) /\ b \in U /\ Len(s) = 1 /\ Len(t) = 2
      /\ s[1] = a /\ t[1] = a /\ t[2] = b
  OBVIOUS
<1> HIDE DEF s, t, U
<1>2. Len(t) = Len(s) + 1 /\ t[Len(t)] = b /\ \A i \in 1 .. Len(s) : t[i] = s[i]
  BY <1>1
<1>3. s \o <<b>> = t
  BY <1>1, <1>2, OneMore
<1>. QED BY <1>3 DEF s, t

\* The same, with one more.
LEMMA Triple == \A a, b, c : <<a, b>> \o <<c>> = <<a, b, c>>
<1> SUFFICES ASSUME NEW a, NEW b, NEW c PROVE <<a, b>> \o <<c>> = <<a, b, c>>
  OBVIOUS
<1> DEFINE U == {a, b, c}
           s == <<a, b>>
           t == <<a, b, c>>
<1>1. s \in Seq(U) /\ t \in Seq(U) /\ c \in U /\ Len(s) = 2 /\ Len(t) = 3
      /\ s[1] = a /\ s[2] = b /\ t[1] = a /\ t[2] = b /\ t[3] = c
  OBVIOUS
<1> HIDE DEF s, t, U
<1>2. Len(t) = Len(s) + 1 /\ t[Len(t)] = c /\ \A i \in 1 .. Len(s) : t[i] = s[i]
  BY <1>1
<1>3. s \o <<c>> = t
  BY <1>1, <1>2, OneMore
<1>. QED BY <1>3 DEF s, t
\* Where the elements of two sequences are when they are put together.
LEMMA Glue ==
  ASSUME NEW U, NEW s \in Seq(U), NEW t \in Seq(U)
  PROVE  /\ s \o t \in Seq(U) /\ Len(s \o t) = Len(s) + Len(t)
         /\ Len(s) \in Nat /\ Len(t) \in Nat
         /\ \A i \in 1 .. Len(s) : (s \o t)[i] = s[i]
         /\ \A i \in 1 .. Len(t) : (s \o t)[Len(s) + i] = t[i]
<1> DEFINE both == s \o t
           m == Len(s)
           n == Len(t)
<1>1. m \in Nat /\ n \in Nat
  BY LenProperties
<1>2. /\ both \in Seq(U) /\ Len(both) = m + n
      /\ \A i \in 1 .. m + n : both[i] = IF i <= m THEN s[i] ELSE t[i - m]
  BY ConcatProperties
<1> HIDE DEF both, m, n
<1>3. ASSUME NEW i \in 1 .. m PROVE both[i] = s[i]
  BY <1>1, <1>2
<1>4. ASSUME NEW i \in 1 .. n PROVE both[m + i] = t[i]
  <2>1. m + i \in 1 .. m + n /\ ~(m + i <= m) /\ (m + i) - m = i
    BY <1>1
  <2>. QED BY <1>2, <2>1
<1>. QED BY <1>1, <1>2, <1>3, <1>4 DEF both, m, n

\* A prefix is the beginning.
LEMMA PrefixAgrees ==
  ASSUME NEW U, NEW s \in Seq(U), NEW t \in Seq(U), IsPrefix(s, t)
  PROVE  Len(s) <= Len(t) /\ \A i \in 1 .. Len(s) : t[i] = s[i]
<1>1. /\ Len(s) <= Len(t) /\ SubSeq(s, 1, Len(s)) = SubSeq(t, 1, Len(s))
      /\ Len(s) \in Nat /\ Len(t) \in Nat
  BY LenProperties DEF IsPrefix
<1>2. ASSUME NEW i \in 1 .. Len(s) PROVE t[i] = s[i]
  <2>1. SubSeq(s, 1, Len(s))[i] = s[i] /\ SubSeq(t, 1, Len(s))[i] = t[i]
    BY <1>1
  <2>. QED BY <1>1, <2>1
<1>. QED BY <1>1, <1>2

\* A document without anything inside, and a newline.
LEMMA DocumentLine ==
  ASSUME NEW doc
  PROVE  Json(doc, <<>>) = <<Open(doc), Close>> /\ Json(doc, <<>>) \o <<NL>> = <<Open(doc), Close, NL>>
<1>1. \A a, b, c : /\ (<<a>> \o <<>>) \o <<b>> = <<a, b>>
                   /\ ((<<a>> \o <<>>) \o <<b>>) \o <<c>> = <<a, b, c>>
  <2> SUFFICES ASSUME NEW a, NEW b, NEW c
               PROVE  /\ (<<a>> \o <<>>) \o <<b>> = <<a, b>>
                      /\ ((<<a>> \o <<>>) \o <<b>>) \o <<c>> = <<a, b, c>>
    OBVIOUS
  <2>1. <<a>> \o <<>> = <<a>>
    <3>1. <<a>> \in Seq({a})
      OBVIOUS
    <3>. QED BY <3>1, ConcatEmptySeq
  <2>2. <<a>> \o <<b>> = <<a, b>> /\ <<a, b>> \o <<c>> = <<a, b, c>>
    BY Pair, Triple
  <2>. QED BY <2>1, <2>2
<1>. QED BY <1>1 DEF Json

\* What is where when three symbols, a payload and one symbol are put together.
LEMMA PutTogether ==
  ASSUME NEW U, NEW head \in Seq(U), Len(head) = 3, NEW payload \in Seq(U), NEW last \in U
  PROVE  LET symbols == (head \o payload) \o <<last>>
         IN  /\ symbols \in Seq(U) /\ Len(payload) \in Nat /\ Len(symbols) = Len(payload) + 4
             /\ \A j \in 1 .. 3 : symbols[j] = head[j]
             /\ \A j \in 1 .. Len(payload) : symbols[3 + j] = payload[j]
             /\ symbols[Len(payload) + 4] = last
<1> DEFINE front == head \o payload
           symbols == front \o <<last>>
           n == Len(payload)
<1>1. /\ front \in Seq(U) /\ Len(front) = n + 3 /\ n \in Nat
      /\ \A i \in 1 .. 3 + n : front[i] = IF i <= 3 THEN head[i] ELSE payload[i - 3]
  <2>1. /\ front \in Seq(U) /\ Len(front) = Len(head) + Len(payload)
        /\ \A i \in 1 .. Len(head) + Len(payload) :
             front[i] = IF i <= Len(head) THEN head[i] ELSE payload[i - Len(head)]
    BY ConcatProperties
  <2>2. Len(head) = 3 /\ n \in Nat
    BY LenProperties
  <2> HIDE DEF front
  <2>. QED BY <2>1, <2>2
<1>2. <<last>> \in Seq(U) /\ Len(<<last>>) = 1 /\ <<last>>[1] = last
  OBVIOUS
<1> HIDE DEF front, n
<1>3. /\ symbols \in Seq(U) /\ Len(symbols) = n + 4
      /\ \A i \in 1 .. n + 4 : symbols[i] = IF i <= n + 3 THEN front[i] ELSE <<last>>[i - (n + 3)]
  <2>1. /\ symbols \in Seq(U) /\ Len(symbols) = Len(front) + 1
        /\ \A i \in 1 .. Len(front) + 1 :
             symbols[i] = IF i <= Len(front) THEN front[i] ELSE <<last>>[i - Len(front)]
    BY <1>1, <1>2, ConcatProperties
  <2>2. Len(front) + 1 = n + 4 /\ Len(front) = n + 3
    BY <1>1
  <2> HIDE DEF symbols
  <2>. QED BY <2>1, <2>2
<1> HIDE DEF symbols
<1>4. ASSUME NEW j \in 1 .. 3 PROVE symbols[j] = head[j]
  <2>1. j \in 1 .. n + 4 /\ j <= n + 3 /\ j \in 1 .. 3 + n /\ j <= 3
    BY <1>1
  <2>. QED BY <1>1, <1>3, <2>1
<1>5. ASSUME NEW j \in 1 .. n PROVE symbols[3 + j] = payload[j]
  <2>1. 3 + j \in 1 .. n + 4 /\ 3 + j <= n + 3 /\ 3 + j \in 1 .. 3 + n /\ ~(3 + j <= 3) /\ (3 + j) - 3 = j
    BY <1>1
  <2>2. symbols[3 + j] = front[3 + j] /\ front[3 + j] = payload[(3 + j) - 3]
    BY <1>1, <1>3, <2>1
  <2>. QED BY <2>1, <2>2
<1>6. symbols[n + 4] = last
  <2>1. n + 4 \in 1 .. n + 4 /\ ~(n + 4 <= n + 3) /\ (n + 4) - (n + 3) = 1
    BY <1>1
  <2>. QED BY <1>2, <1>3, <2>1
<1>. QED BY <1>1, <1>3, <1>4, <1>5, <1>6 DEF symbols, front, n

\* An item's header, its payload of that length and a newline.
Written(symbols, item, length) ==
  /\ length \in Nat /\ Len(symbols) = length + 4
  /\ symbols[1] = Open(item.header) /\ symbols[2] = Close /\ symbols[3] = NL
  /\ \A j \in 1 .. length : symbols[3 + j] = item.payload[j]
  /\ symbols[length + 4] = NL

\* The symbols of an item, one by one.
LEMMA ItemSymbolsAre ==
  ASSUME NEW S, NEW item, item.payload \in Seq(S)
  PROVE  /\ ItemSymbols(item) \in Seq(S \cup {NL, Close, Open(item.header)})
         /\ Written(ItemSymbols(item), item, Len(item.payload))
<1> DEFINE U == S \cup {NL, Close, Open(item.header)}
           payload == item.payload
           head == <<Open(item.header), Close, NL>>
<1>1. payload \in Seq(U) /\ head \in Seq(U) /\ NL \in U
  <2>1. S \subseteq U
    OBVIOUS
  <2>2. Open(item.header) \in U /\ Close \in U /\ NL \in U
    OBVIOUS
  <2> HIDE DEF U
  <2>3. payload \in Seq(U)
    BY <2>1, SeqMonotonic
  <2>. QED BY <2>2, <2>3
<1>2. ItemSymbols(item) = (head \o payload) \o <<NL>>
  BY DocumentLine DEF ItemSymbols
<1>3. Len(head) = 3 /\ head[1] = Open(item.header) /\ head[2] = Close /\ head[3] = NL
  OBVIOUS
<1> HIDE DEF payload, head, U
<1> DEFINE symbols == ItemSymbols(item)
<1>4. /\ symbols \in Seq(U) /\ Len(payload) \in Nat /\ Len(symbols) = Len(payload) + 4
      /\ \A j \in 1 .. 3 : symbols[j] = head[j]
      /\ \A j \in 1 .. Len(payload) : symbols[3 + j] = payload[j]
      /\ symbols[Len(payload) + 4] = NL
  BY <1>1, <1>2, <1>3, PutTogether
<1>5. symbols[1] = head[1] /\ symbols[2] = head[2] /\ symbols[3] = head[3]
  BY <1>4
<1>. QED BY <1>3, <1>4, <1>5 DEF payload, U, Written

\* Where items start in their envelope, counted from 0: places[k] is the end of
\* the k-th, and where the next starts.
LaidOut(items, raw, places) ==
  /\ places \in [0 .. Len(items) -> Nat]
  /\ places[0] = 3 /\ places[Len(items)] = Len(raw)
  /\ raw[1] = Open(FirstHeader) /\ raw[2] = Close /\ raw[3] = NL
  /\ \A k \in 1 .. Len(items) :
       LET item == items[k]
           p == places[k - 1]
       IN  /\ places[k] = p + Len(item.payload) + 4
           /\ raw[p + 1] = Open(item.header) /\ raw[p + 2] = Close /\ raw[p + 3] = NL
           /\ \A j \in 1 .. Len(item.payload) : raw[p + 3 + j] = item.payload[j]
           /\ raw[places[k]] = NL

\* An envelope is laid out as it was encoded.
LEMMA EncodedIsLaidOut ==
  ASSUME NEW S, NEW T, NEW items \in Seq(T), Sendables(items, S)
  PROVE  /\ Encoded(items) \in Seq(Alphabet(items, S))
         /\ \E places : LaidOut(items, Encoded(items), places)
<1> DEFINE U == Alphabet(items, S)
           n == Len(items)
           parts == [i \in DOMAIN items |-> ItemSymbols(items[i])]
           flat == FlattenSeq(parts)
           head == <<Open(FirstHeader), Close, NL>>
           raw == head \o flat
<1>1. n \in Nat /\ DOMAIN items = 1 .. n
  OBVIOUS
<1>2. ASSUME NEW k \in 1 .. n
      PROVE  LET symbols == ItemSymbols(items[k])
                 length == Len(items[k].payload)
             IN  /\ symbols \in Seq(U)
                 /\ length \in Nat /\ Len(symbols) = length + 4
                 /\ symbols[1] = Open(items[k].header) /\ symbols[2] = Close /\ symbols[3] = NL
                 /\ \A j \in 1 .. length : symbols[3 + j] = items[k].payload[j]
                 /\ symbols[length + 4] = NL
  <2>1. items[k].payload \in Seq(S)
    BY <1>1 DEF Sendables
  <2>2. S \cup {NL, Close, Open(items[k].header)} \subseteq U
    BY <1>1 DEF Alphabet
  <2> DEFINE V == S \cup {NL, Close, Open(items[k].header)}
             item == items[k]
  <2> HIDE DEF U
  <2>3. /\ item.payload \in Seq(S) /\ V \subseteq U
        /\ V = S \cup {NL, Close, Open(item.header)}
    BY <2>1, <2>2
  <2> HIDE DEF V, item
  <2>4. ItemSymbols(item) \in Seq(V)
    BY <2>3, ItemSymbolsAre
  <2>5. ItemSymbols(item) \in Seq(U)
    BY <2>3, <2>4, SeqMonotonic
  <2>6. LET symbols == ItemSymbols(item)
            length == Len(item.payload)
        IN  /\ symbols \in Seq(U)
            /\ length \in Nat /\ Len(symbols) = length + 4
            /\ symbols[1] = Open(item.header) /\ symbols[2] = Close /\ symbols[3] = NL
            /\ \A j \in 1 .. length : symbols[3 + j] = item.payload[j]
            /\ symbols[length + 4] = NL
    <3>1. item.payload \in Seq(S)
      BY <2>3
    <3>2. Written(ItemSymbols(item), item, Len(item.payload))
      BY ONLY <3>1, ItemSymbolsAre
    <3>. QED BY <2>5, <3>2 DEF Written
  <2>. QED BY <2>6 DEF item
<1>3. head \in Seq(U) /\ Len(head) = 3 /\ head[1] = Open(FirstHeader) /\ head[2] = Close /\ head[3] = NL
  <2>1. Open(FirstHeader) \in U /\ Close \in U /\ NL \in U
    BY DEF Alphabet
  <2> HIDE DEF U
  <2>. QED BY <2>1
<1>4. parts \in Seq(Seq(U)) /\ Len(parts) = n /\ \A k \in 1 .. n : parts[k] = ItemSymbols(items[k])
  <2>1. parts = [i \in 1 .. n |-> ItemSymbols(items[i])]
    BY <1>1
  <2> HIDE DEF parts, U
  <2>2. \A k \in 1 .. n : ItemSymbols(items[k]) \in Seq(U)
    BY <1>2
  <2>. QED BY <1>1, <2>1, <2>2
<1>5. Encoded(items) = raw
  BY DocumentLine DEF Encoded, FirstHeader
<1> HIDE DEF head, parts, flat, U, n
<1>6. PICK f \in [0 .. n -> Seq(U)] :
        /\ f[0] = <<>> /\ flat = f[n]
        /\ \A k \in 1 .. n : f[k] = f[k - 1] \o parts[k]
        /\ \A k \in 0 .. n : IsPrefix(f[k], flat)
  BY <1>4, FlattenIs DEF flat
<1>7. flat \in Seq(U)
  BY <1>1, <1>6
<1>8. /\ raw \in Seq(U) /\ Len(raw) = 3 + Len(flat) /\ Len(flat) \in Nat
      /\ \A i \in 1 .. 3 : raw[i] = head[i]
      /\ \A i \in 1 .. Len(flat) : raw[3 + i] = flat[i]
  <2>1. /\ raw \in Seq(U) /\ Len(raw) = Len(head) + Len(flat) /\ Len(flat) \in Nat
        /\ \A i \in 1 .. Len(head) : raw[i] = head[i]
        /\ \A i \in 1 .. Len(flat) : raw[Len(head) + i] = flat[i]
    <3>1. head \in Seq(U) /\ flat \in Seq(U)
      BY <1>3, <1>7
    <3>. QED BY <3>1, Glue
  <2>2. Len(head) = 3
    BY <1>3
  <2> HIDE DEF raw
  <2>. QED BY <2>1, <2>2
<1> HIDE DEF raw
<1> DEFINE places == [k \in 0 .. n |-> 3 + Len(f[k])]
<1>9. \A k \in 0 .. n : places[k] = 3 + Len(f[k]) /\ Len(f[k]) \in Nat
  BY <1>6, LenProperties
<1>10. /\ places \in [0 .. n -> Nat]
       /\ places[0] = 3 /\ places[n] = Len(raw)
  <2>1. 0 \in 0 .. n /\ n \in 0 .. n /\ Len(<<>>) = 0
    BY <1>1
  <2>. QED BY <1>6, <1>8, <1>9, <2>1
<1>11. ASSUME NEW k \in 1 .. n
       PROVE  LET item == items[k]
                  p == places[k - 1]
              IN  /\ places[k] = p + Len(item.payload) + 4
                  /\ raw[p + 1] = Open(item.header) /\ raw[p + 2] = Close /\ raw[p + 3] = NL
                  /\ \A j \in 1 .. Len(item.payload) : raw[p + 3 + j] = item.payload[j]
                  /\ raw[places[k]] = NL
  <2> DEFINE length == Len(items[k].payload)
             part == parts[k]
             before == f[k - 1]
             after == f[k]
  <2>1. k - 1 \in 0 .. n /\ k \in 0 .. n
    BY <1>1
  <2>2. /\ part \in Seq(U) /\ length \in Nat /\ Len(part) = length + 4
        /\ part[1] = Open(items[k].header) /\ part[2] = Close /\ part[3] = NL
        /\ \A j \in 1 .. length : part[3 + j] = items[k].payload[j]
        /\ part[length + 4] = NL
    BY <1>2, <1>4
  <2>3. /\ before \in Seq(U) /\ after \in Seq(U) /\ after = before \o part
        /\ IsPrefix(after, flat)
        /\ places[k - 1] = 3 + Len(before) /\ places[k] = 3 + Len(after)
        /\ Len(before) \in Nat
    BY <1>6, <1>9, <2>1
  <2> HIDE DEF length, part, before, after, places
  <2>4. /\ Len(after) = Len(before) + length + 4
        /\ \A i \in 1 .. length + 4 : after[Len(before) + i] = part[i]
    <3>1. /\ Len(after) = Len(before) + Len(part)
          /\ \A i \in 1 .. Len(part) : after[Len(before) + i] = part[i]
      <4>1. before \in Seq(U) /\ part \in Seq(U) /\ after = before \o part
        BY <2>2, <2>3
      <4>. QED BY <4>1, Glue
    <3>. QED BY <2>2, <2>3, <3>1
  <2>5. Len(after) <= Len(flat) /\ \A i \in 1 .. Len(after) : flat[i] = after[i]
    BY <1>7, <2>3, PrefixAgrees
  <2>6. ASSUME NEW i \in 1 .. length + 4 PROVE raw[places[k - 1] + i] = part[i]
    <3>1. Len(before) + i \in 1 .. Len(after)
      BY <2>2, <2>3, <2>4
    <3>2. Len(before) + i \in 1 .. Len(flat)
      BY <1>8, <2>5, <3>1
    <3>3. raw[3 + (Len(before) + i)] = flat[Len(before) + i]
      BY <1>8, <3>2
    <3>4. 3 + (Len(before) + i) = places[k - 1] + i
      BY <2>3
    <3>. QED BY <2>4, <2>5, <3>1, <3>3, <3>4
  <2>7. places[k] = places[k - 1] + length + 4 /\ places[k - 1] + (length + 4) = places[k]
    BY <2>2, <2>3, <2>4
  <2>8. 1 \in 1 .. length + 4 /\ 2 \in 1 .. length + 4 /\ 3 \in 1 .. length + 4
        /\ length + 4 \in 1 .. length + 4
    BY <2>2
  <2>9. ASSUME NEW j \in 1 .. length PROVE raw[places[k - 1] + 3 + j] = items[k].payload[j]
    <3>1. 3 + j \in 1 .. length + 4 /\ places[k - 1] + 3 + j = places[k - 1] + (3 + j)
      BY <2>2, <2>3
    <3>. QED BY <2>2, <2>6, <3>1
  <2>10. raw[places[k]] = NL
    BY <2>2, <2>6, <2>7, <2>8
  <2>11. /\ raw[places[k - 1] + 1] = Open(items[k].header) /\ raw[places[k - 1] + 2] = Close
         /\ raw[places[k - 1] + 3] = NL
    BY <2>2, <2>6, <2>8
  <2>. QED BY <2>7, <2>9, <2>10, <2>11 DEF length
<1> HIDE DEF places
<1>12. LaidOut(items, raw, places)
  <2>1. raw[1] = Open(FirstHeader) /\ raw[2] = Close /\ raw[3] = NL
    BY <1>3, <1>8
  <2>. QED BY <1>10, <1>11, <2>1 DEF LaidOut, n
<1>. QED BY <1>5, <1>8, <1>12 DEF U

\* The numbers of an item at p of an envelope of that size, with a payload of n
\* up to q.
LEMMA ItemNumbers ==
  ASSUME NEW p \in Nat, NEW n \in Nat, NEW q, NEW size \in Nat, NEW w,
         q = p + 3 + n, q <= size, size < w, w \in Nat
  PROVE  /\ q \in Nat /\ q < w /\ w \in Nat \ {0}
         /\ p + 3 \in Nat /\ p + 3 <= q /\ p + 3 <= size /\ p < size /\ ~(q > size) /\ ~(q < p + 3)
         /\ q - (p + 3 + 1) + 1 = n
         /\ \A i \in p + 3 + 1 .. q : i - (p + 3) \in 1 .. n /\ p + 3 + (i - (p + 3)) = i
         /\ \A j \in 1 .. n : p + 3 + 1 + j - 1 = p + 3 + j /\ p + 3 + j \in 1 .. size
OBVIOUS

\* A slice of a sequence, one by one.
LEMMA SliceIs ==
  ASSUME NEW U, NEW raw \in Seq(U), NEW s \in Nat, NEW n \in Nat, s + n <= Len(raw)
  PROVE  /\ SubSeq(raw, s + 1, s + n) \in Seq(U) /\ Len(SubSeq(raw, s + 1, s + n)) = n
         /\ \A j \in 1 .. n : SubSeq(raw, s + 1, s + n)[j] = raw[s + j]
<1>1. Len(raw) \in Nat /\ \A i \in 1 .. Len(raw) : raw[i] \in U
  OBVIOUS
<1>2. \A i \in s + 1 .. s + n : i \in 1 .. Len(raw)
  BY <1>1
<1>3. SubSeq(raw, s + 1, s + n) = [i \in 1 .. n |-> raw[s + i]]
  BY <1>1
<1>4. \A j \in 1 .. n : raw[s + j] \in U
  BY <1>1, <1>2
<1>. QED BY <1>3, <1>4

\* A header's line, with its newline.
LEMMA HeaderLine ==
  ASSUME NEW U, NEW raw \in Seq(U), NEW p \in Nat, p + 3 <= Len(raw), NEW header,
         raw[p + 1] = Open(header), raw[p + 2] = Close, raw[p + 3] = NL
  PROVE  /\ LineEnd(raw, p) = p + 3 /\ LineAt(raw, p) # <<>>
         /\ IsJson(LineAt(raw, p)) /\ DocOf(LineAt(raw, p)) = header
<1> DEFINE end == LineEnd(raw, p)
           line == LineAt(raw, p)
<1>1. Open(header) # NL /\ Close # NL
  <2>1. Open(header).sym = "open" /\ Close.sym = "close" /\ NL.sym = "newline"
    BY DEF Open, Close, NL
  <2>. QED BY <2>1
<1>2. Len(raw) \in Nat /\ p < Len(raw)
  OBVIOUS
<1>3. /\ end \in p + 1 .. Len(raw)
      /\ end = Len(raw) \/ raw[end] = NL
      /\ \A i \in p + 1 .. end - 1 : raw[i] # NL
  BY <1>2, LineEndsPast
<1>4. end = p + 3
  <2> HIDE DEF end
  <2>1. ~(end > p + 3)
    <3>1. end > p + 3 => p + 3 \in p + 1 .. end - 1
      BY <1>3
    <3>. QED BY <1>3, <3>1
  <2>2. end # p + 1 /\ end # p + 2
    BY <1>1, <1>2, <1>3
  <2>. QED BY <1>3, <2>1, <2>2
<1>5. line = SubSeq(raw, p + 1, p + 2)
  <2>1. line = SubSeq(raw, p + 1, end - 1)
    BY DEF LineAt, Slice
  <2> HIDE DEF end, line
  <2>2. end - 1 = p + 2
    BY <1>4
  <2>. QED BY <2>1, <2>2
<1> HIDE DEF line
<1>6. line \in Seq(U) /\ Len(line) = 2 /\ line[1] = Open(header) /\ line[2] = Close
  <2> DEFINE n == 2
             slice == SubSeq(raw, p + 1, p + n)
  <2>1. raw \in Seq(U) /\ p \in Nat /\ n \in Nat /\ p + n <= Len(raw)
    BY <1>2
  <2>2. n = 2 /\ slice = line
    BY <1>5
  <2> HIDE DEF n
  <2>3. slice \in Seq(U) /\ Len(slice) = n /\ \A j \in 1 .. n : slice[j] = raw[p + j]
    BY ONLY <2>1, SliceIs
  <2> HIDE DEF slice
  <2>4. 1 \in 1 .. n /\ 2 \in 1 .. n
    BY <2>2
  <2>. QED BY <2>2, <2>3, <2>4
<1>7. Trimmed(line) = line
  <2>1. \A i \in DOMAIN line : line[i] # NL
    BY <1>1, <1>6
  <2>. QED BY <1>6, <2>1, TrimsNothing
<1>8. IsJson(line)
  <2>1. Open(header).sym = "open"
    BY DEF Open
  <2>2. Len(line) >= 2 /\ line[1].sym = "open" /\ line[Len(line)] = Close
        /\ \A i \in 2 .. Len(line) - 1 : line[i] \in {NL, Text}
    BY <1>6, <2>1
  <2>. QED BY <1>7, <2>2 DEF IsJson
<1>9. DocOf(line) = header
  <2>1. Open(header).doc = header
    BY DEF Open
  <2>. QED BY <1>6, <1>7, <2>1 DEF DocOf
<1>10. line # <<>>
  <2> SUFFICES ASSUME line = <<>> PROVE FALSE
    OBVIOUS
  <2>1. Len(line) = 0
    <3>1. Len(<<>>) = 0
      OBVIOUS
    <3>. QED BY <3>1
  <2>. QED BY <1>6, <2>1
<1>. QED BY <1>4, <1>8, <1>9, <1>10 DEF line

\* A payload without a declared length ends at the next newline, or with the
\* envelope.
LEMMA EndsAtNewline ==
  ASSUME NEW U, NEW raw \in Seq(U), NEW s \in Nat, NEW q \in Nat, s <= q, q <= Len(raw),
         \A i \in s + 1 .. q : raw[i] # NL, q < Len(raw) => raw[q + 1] = NL,
         NEW header, LengthIn(header) = NoLength
  PROVE  PayloadEnd(raw, s, header) = q
<1> DEFINE found == NewlinesFrom(raw, s)
           end == PayloadEnd(raw, s, header)
<1>1. Len(raw) \in Nat
  OBVIOUS
<1>2. found = {i \in s .. Len(raw) - 1 : raw[i + 1] = NL}
  BY DEF NewlinesFrom
<1>3. end = IF found = {} THEN Len(raw) ELSE Min(found)
  BY DEF PayloadEnd
<1> HIDE DEF found, end
<1>4. \A i \in found : i >= q
  <2> SUFFICES ASSUME NEW i \in found, i < q PROVE FALSE
    BY <1>1, <1>2
  <2>1. i \in s .. Len(raw) - 1 /\ raw[i + 1] = NL
    BY <1>2
  <2>2. i + 1 \in s + 1 .. q
    BY <1>1, <2>1
  <2>. QED BY <2>1, <2>2
<1>5. ASSUME q < Len(raw) PROVE end = q
  <2>1. q \in found
    <3>1. q \in s .. Len(raw) - 1
      BY <1>1, <1>5
    <3>. QED BY <1>2, <1>5, <3>1
  <2>2. found \in SUBSET Nat
    BY <1>1, <1>2
  <2>3. Min(found) \in found /\ Min(found) <= q
    BY <2>1, <2>2, LeastNumber
  <2>4. Min(found) = q
    <3>1. Min(found) >= q /\ Min(found) \in Nat
      BY <1>4, <2>2, <2>3
    <3>. QED BY <2>3, <3>1
  <2>. QED BY <1>3, <2>1, <2>4
<1>6. ASSUME q = Len(raw) PROVE end = q
  <2>1. found = {}
    <3> SUFFICES ASSUME NEW i \in found PROVE FALSE
      OBVIOUS
    <3>1. i <= Len(raw) - 1 /\ i \in Int
      BY <1>1, <1>2
    <3>2. i >= q
      BY <1>4
    <3>. QED BY <1>1, <1>6, <3>1, <3>2
  <2>. QED BY <1>3, <1>6, <2>1
<1>7. end = q
  BY <1>1, <1>5, <1>6
<1>. QED BY <1>7 DEF end

\* The header of an item is at p, and its payload from there to q.
ItemThere(raw, item, p, q) ==
  /\ q = p + 3 + Len(item.payload) /\ q <= Len(raw)
  /\ raw[p + 1] = Open(item.header) /\ raw[p + 2] = Close /\ raw[p + 3] = NL
  /\ \A j \in 1 .. Len(item.payload) : raw[p + 3 + j] = item.payload[j]
  /\ q < Len(raw) => raw[q + 1] = NL

\* A pass over an item all of whose payload is there: it is read as it was meant,
\* and the next starts past its newline.
LEMMA ItemRead ==
  ASSUME NEW U, NEW raw \in Seq(U), LengthsDeclared(raw),
         Width \in Nat, Len(raw) < Width,
         NEW T, NEW item, item.payload \in Seq(T), WellFormed(item),
         NEW p \in Nat, NEW q \in Nat, ItemThere(raw, item, p, q)
  PROVE  LET rest == ItemsFrom(raw)[IF q < Len(raw) THEN q + 1 ELSE q]
         IN  ItemsFrom(raw)[p] =
               IF TypeIn(item.header) = "event" THEN Prepend(EventOf(item.payload), rest)
               ELSE rest
<1> DEFINE payload == item.payload
           header == item.header
           n == Len(payload)
           start == LineEnd(raw, p)
           end == PayloadEnd(raw, start, header)
           items == ItemsFrom(raw)
<1> SUFFICES ASSUME q = p + 3 + Len(item.payload), q <= Len(raw),
                    raw[p + 1] = Open(item.header), raw[p + 2] = Close, raw[p + 3] = NL,
                    \A j \in 1 .. Len(item.payload) : raw[p + 3 + j] = item.payload[j],
                    q < Len(raw) => raw[q + 1] = NL
             PROVE  LET rest == ItemsFrom(raw)[IF q < Len(raw) THEN q + 1 ELSE q]
                    IN  ItemsFrom(raw)[p] =
                          IF TypeIn(item.header) = "event" THEN Prepend(EventOf(item.payload), rest)
                          ELSE rest
  BY DEF ItemThere
<1>1. n \in Nat /\ Len(raw) \in Nat
  BY LenProperties
<1>2. /\ q \in Nat /\ q < Width /\ Width \in Nat \ {0}
      /\ p + 3 \in Nat /\ p + 3 <= q /\ p + 3 <= Len(raw) /\ p < Len(raw)
      /\ ~(q > Len(raw)) /\ ~(q < p + 3)
      /\ \A i \in p + 3 + 1 .. q : i - (p + 3) \in 1 .. n /\ p + 3 + (i - (p + 3)) = i
  <2> DEFINE size == Len(raw)
             w == Width
  <2>1. n \in Nat /\ size \in Nat /\ p \in Nat /\ w \in Nat
    BY <1>1
  <2>2. q = p + 3 + n /\ q <= size /\ size < w
    OBVIOUS
  <2> HIDE DEF n, size, w
  <2>3. /\ q \in Nat /\ q < w /\ w \in Nat \ {0}
        /\ p + 3 \in Nat /\ p + 3 <= q /\ p + 3 <= size /\ p < size
        /\ ~(q > size) /\ ~(q < p + 3)
        /\ \A i \in p + 3 + 1 .. q : i - (p + 3) \in 1 .. n /\ p + 3 + (i - (p + 3)) = i
    BY ONLY <2>1, <2>2, ItemNumbers
  <2>. QED BY <2>3 DEF size, w
<1>3. /\ start = p + 3 /\ LineAt(raw, p) # <<>>
      /\ IsJson(LineAt(raw, p)) /\ DocOf(LineAt(raw, p)) = header
  BY <1>2, HeaderLine
<1>4. end = q
  <2>1. CASE LengthIn(header) = NoLength
    <3>1. \A i \in 1 .. n : payload[i] # NL
      <4>1. \A i \in DOMAIN payload : payload[i] # NL
        BY <2>1 DEF WellFormed
      <4>2. DOMAIN payload = 1 .. n
        BY LenProperties
      <4>. QED BY <4>1, <4>2
    <3>2. ASSUME NEW i \in p + 3 + 1 .. q PROVE raw[i] # NL
      <4>1. i - (p + 3) \in 1 .. n /\ p + 3 + (i - (p + 3)) = i
        <5> HIDE DEF n
        <5>. QED BY <1>2
      <4>. QED BY <3>1, <4>1
    <3>4. PayloadEnd(raw, p + 3, header) = q
      <4> HIDE DEF header, n
      <4> DEFINE s == p + 3
      <4>1. s \in Nat /\ s <= q
        BY <1>2
      <4>2. \A i \in s + 1 .. q : raw[i] # NL
        BY <3>2
      <4>3. q \in Nat /\ q <= Len(raw) /\ (q < Len(raw) => raw[q + 1] = NL)
        OBVIOUS
      <4> HIDE DEF s
      <4>4. raw \in Seq(U) /\ q <= Len(raw) /\ (q < Len(raw) => raw[q + 1] = NL)
        BY <4>3
      <4>5. PayloadEnd(raw, s, header) = q
        BY ONLY <2>1, <4>1, <4>2, <4>3, <4>4, EndsAtNewline
      <4>. QED BY <4>5 DEF s
    <3>. QED BY <1>3, <3>4
  <2>2. CASE LengthIn(header) # NoLength
    <3>1. LengthIn(header) = <<n>>
      BY <2>2 DEF WellFormed
    <3>2. LengthIn(header)[1] = n
      BY <3>1
    <3>3. end = (start + n) % Width
      BY <2>2, <3>2 DEF PayloadEnd
    <3>4. start + n = q
      BY <1>3
    <3>5. q % Width = q
      <4> HIDE DEF n
      <4>. QED BY <1>2, Wrapping
    <3>. QED BY <3>3, <3>4, <3>5
  <2>. QED BY <2>1, <2>2
<1>5. Slice(raw, start, end) = payload
  <2>1. Slice(raw, start, end) = SubSeq(raw, p + 3 + 1, q)
    <3> HIDE DEF start, end
    <3>. QED BY <1>3, <1>4 DEF Slice
  <2>2. payload \in Seq(T) /\ n = Len(payload) /\ q = p + 3 + n /\ n \in Nat
    BY <1>1
  <2>3. \A j \in 1 .. n : raw[p + 3 + j] = payload[j]
    OBVIOUS
  <2> HIDE DEF payload, n
  <2> DEFINE slice == SubSeq(raw, p + 3 + 1, q)
  <2>4. /\ slice \in Seq(U) /\ Len(slice) = n
        /\ \A j \in 1 .. n : slice[j] = raw[p + 3 + j]
    <3> DEFINE s == p + 3
    <3>1. s \in Nat /\ n \in Nat /\ raw \in Seq(U) /\ q = s + n /\ s + n <= Len(raw)
      BY <1>2, <2>2
    <3> HIDE DEF s, slice
    <3>2. /\ SubSeq(raw, s + 1, s + n) \in Seq(U) /\ Len(SubSeq(raw, s + 1, s + n)) = n
          /\ \A j \in 1 .. n : SubSeq(raw, s + 1, s + n)[j] = raw[s + j]
      BY ONLY <3>1, SliceIs
    <3>3. SubSeq(raw, s + 1, s + n) = slice
      BY <3>1 DEF s, slice
    <3>. QED BY <3>2, <3>3 DEF s
  <2>5. slice = payload
    <3> HIDE DEF slice
    <3>1. slice \in Seq(U \cup T) /\ payload \in Seq(U \cup T)
      BY <2>2, <2>4, SeqMonotonic
    <3>. QED BY <2>2, <2>3, <2>4, <3>1, SeqEqual
  <2>. QED BY <2>1, <2>5
<1>6. After(raw, end) = IF q < Len(raw) THEN q + 1 ELSE q
  <2> HIDE DEF end
  <2>. QED BY <1>4 DEF After
<1> DEFINE rest == items[IF q < Len(raw) THEN q + 1 ELSE q]
<1>7. items[p] = ItemAt(raw, p, items)
  <2>1. items[p] = Pass(raw, p, items)
    <3>1. items = [c \in Nat |-> Pass(raw, c, items)]
      BY <1>1, LoopEnds
    <3> HIDE DEF items
    <3>. QED BY <3>1
  <2>2. ~(p >= Len(raw))
    BY <1>2
  <2>. QED BY <1>3, <2>1, <2>2 DEF Pass
<1>8. ItemAt(raw, p, items) =
        IF TypeIn(header) # "event" THEN rest
        ELSE IF ~IsEvent(payload) THEN Malformed
        ELSE Prepend(EventOf(payload), rest)
  <2>1. ~(end > Len(raw)) /\ ~(end < start)
    <3> HIDE DEF start, end
    <3>. QED BY <1>2, <1>3, <1>4
  <2> HIDE DEF items, rest, header, payload, start, end
  <2>2. ItemAt(raw, p, items) =
          IF TypeIn(header) # "event" THEN items[After(raw, end)]
          ELSE IF ~IsEvent(Slice(raw, start, end)) THEN Malformed
          ELSE Prepend(EventOf(Slice(raw, start, end)), items[After(raw, end)])
    BY <1>3, <2>1 DEF ItemAt, start, end
  <2>. QED BY <1>5, <1>6, <2>2 DEF rest
<1>9. TypeIn(header) = "event" => IsEvent(payload)
  BY DEF WellFormed
<1> HIDE DEF rest, items, header, payload
<1>10. items[p] = IF TypeIn(header) = "event" THEN Prepend(EventOf(payload), rest) ELSE rest
  BY <1>7, <1>8, <1>9
<1>. QED BY <1>10 DEF rest, items, header, payload

\* The line of an envelope cut in a header, before the newline.
LEMMA ShortLine ==
  ASSUME NEW U, NEW raw \in Seq(U), NEW p \in Nat, Len(raw) = p + 1 \/ Len(raw) = p + 2,
         raw[p + 1] # NL, Len(raw) = p + 2 => raw[p + 2] # NL
  PROVE  /\ LineEnd(raw, p) = Len(raw) /\ (LineAt(raw, p) = <<>> <=> Len(raw) = p + 1)
         /\ ~IsJson(LineAt(raw, p))
<1> DEFINE end == LineEnd(raw, p)
           line == LineAt(raw, p)
           r == Len(raw) - (p + 1)
<1>1. Len(raw) \in Nat /\ p < Len(raw) /\ r \in {0, 1} /\ Len(raw) - 1 = p + r /\ p + r <= Len(raw)
      /\ (r = 0 <=> Len(raw) = p + 1)
  OBVIOUS
<1>2. /\ end \in p + 1 .. Len(raw)
      /\ end = Len(raw) \/ raw[end] = NL
  BY <1>1, LineEndsPast
<1>3. end = Len(raw)
  <2> HIDE DEF end, r
  <2> SUFFICES ASSUME end # Len(raw) PROVE FALSE
    OBVIOUS
  <2>1. raw[end] = NL /\ end = p + 1
    BY <1>1, <1>2
  <2>. QED BY <2>1
<1>4. line = SubSeq(raw, p + 1, p + r)
  <2>1. line = SubSeq(raw, p + 1, end - 1)
    BY DEF LineAt, Slice
  <2> HIDE DEF line, end, r
  <2>. QED BY <1>1, <1>3, <2>1
<1> HIDE DEF r, line, end
<1>5. /\ line \in Seq(U) /\ Len(line) = r
      /\ \A j \in 1 .. r : line[j] = raw[p + j]
  <2>1. r \in Nat
    BY <1>1
  <2>2. raw \in Seq(U) /\ p \in Nat /\ p + r <= Len(raw)
    BY <1>1
  <2>. QED BY ONLY <1>4, <2>1, <2>2, SliceIs
<1>6. Trimmed(line) = line
  <2>1. \A i \in DOMAIN line : line[i] # NL
    <3>1. \A j \in 1 .. r : j = 1
      BY <1>1
    <3>. QED BY <1>5, <3>1
  <2>. QED BY <1>5, <2>1, TrimsNothing
<1>7. ~IsJson(line)
  <2>1. Len(line) \in {0, 1}
    BY <1>1, <1>5
  <2>. QED BY <1>6, <2>1 DEF IsJson
<1>8. line = <<>> <=> r = 0
  BY <1>5, EmptySeq
<1>. QED BY <1>1, <1>3, <1>7, <1>8 DEF line, end

\* A part of an event's payload that is cut short is not JSON.
LEMMA CutIsNotJson ==
  ASSUME NEW U, NEW t \in Seq(U), IsJson(t), \A i \in DOMAIN t : t[i] # NL,
         NEW s \in Seq(U), Len(s) < Len(t), \A j \in 1 .. Len(s) : s[j] = t[j]
  PROVE  ~IsJson(s)
<1>1. Len(s) \in Nat /\ Len(t) \in Nat /\ DOMAIN s = 1 .. Len(s) /\ DOMAIN t = 1 .. Len(t)
  OBVIOUS
<1>2. Trimmed(t) = t
  BY TrimsNothing
<1>3. \A i \in DOMAIN s : s[i] # NL
  BY <1>1
<1>4. Trimmed(s) = s
  BY <1>3, TrimsNothing
<1>5. \A i \in 2 .. Len(t) - 1 : t[i] \in {NL, Text}
  BY <1>2 DEF IsJson
<1>6. SUFFICES ASSUME Len(s) >= 2, s[Len(s)] = Close PROVE FALSE
  BY <1>4 DEF IsJson
<1>7. Len(s) \in 2 .. Len(t) - 1 /\ Len(s) \in 1 .. Len(s)
  BY <1>1, <1>6
<1>8. Close \in {NL, Text}
  BY <1>5, <1>6, <1>7
<1>9. Close.sym = "close" /\ NL.sym = "newline" /\ Text.sym = "text"
  BY DEF Close, NL, Text
<1>. QED BY <1>8, <1>9
\* The envelope ends before the payload of the item at p does.
ItemBegun(raw, item, p) ==
  /\ p <= Len(raw) /\ Len(raw) < p + 3 + Len(item.payload)
  /\ p + 3 + Len(item.payload) < Width
  /\ Len(raw) >= p + 1 => raw[p + 1] = Open(item.header)
  /\ Len(raw) >= p + 2 => raw[p + 2] = Close
  /\ Len(raw) >= p + 3 => raw[p + 3] = NL
  /\ \A j \in 1 .. Len(item.payload) :
       p + 3 + j <= Len(raw) => raw[p + 3 + j] = item.payload[j]

\* An envelope cut within an item yields nothing more, or is refused.
LEMMA ItemCut ==
  ASSUME NEW U, NEW raw \in Seq(U), LengthsDeclared(raw), Width \in Nat \ {0},
         NEW T, NEW item, item.payload \in Seq(T), WellFormed(item), NEW p \in Nat,
         ItemBegun(raw, item, p)
  PROVE  ItemsFrom(raw)[p] \in {Malformed, Parsed(<<>>)}
<1> SUFFICES
      ASSUME p <= Len(raw), Len(raw) < p + 3 + Len(item.payload),
             p + 3 + Len(item.payload) < Width,
             Len(raw) >= p + 1 => raw[p + 1] = Open(item.header),
             Len(raw) >= p + 2 => raw[p + 2] = Close,
             Len(raw) >= p + 3 => raw[p + 3] = NL,
             \A j \in 1 .. Len(item.payload) :
               p + 3 + j <= Len(raw) => raw[p + 3 + j] = item.payload[j]
      PROVE  ItemsFrom(raw)[p] \in {Malformed, Parsed(<<>>)}
  BY DEF ItemBegun
<1> DEFINE payload == item.payload
           header == item.header
           n == Len(payload)
           size == Len(raw)
           items == ItemsFrom(raw)
           line == LineAt(raw, p)
           start == LineEnd(raw, p)
           end == PayloadEnd(raw, start, header)
<1>1. n \in Nat /\ size \in Nat
  BY LenProperties
<1>2. \A c \in Nat : items[c] = Pass(raw, c, items)
  <2>1. items = [c \in Nat |-> Pass(raw, c, items)]
    BY LoopEnds
  <2> HIDE DEF items
  <2>. QED BY <2>1
<1>3. items[size] = Parsed(<<>>)
  <2> HIDE DEF items
  <2>1. items[size] = Pass(raw, size, items) /\ size >= size
    BY <1>1, <1>2
  <2>. QED BY <2>1 DEF Pass, size
<1>4. items[p] = Pass(raw, p, items)
  BY <1>2
<1>5. Open(header) # NL /\ Close # NL
  <2>1. Open(header).sym = "open" /\ Close.sym = "close" /\ NL.sym = "newline"
    BY DEF Open, Close, NL
  <2>. QED BY <2>1
<1>6. \/ size = p \/ size = p + 1 \/ size = p + 2
      \/ size >= p + 3
  <2>1. p <= size
    OBVIOUS
  <2> HIDE DEF size
  <2>. QED BY <1>1, <2>1
<1>7. ASSUME size = p PROVE items[p] = Parsed(<<>>)
  BY <1>3, <1>7
<1>8. ASSUME size = p + 1 \/ size = p + 2 PROVE items[p] \in {Malformed, Parsed(<<>>)}
  <2>1. raw[p + 1] # NL /\ (Len(raw) = p + 2 => raw[p + 2] # NL)
    BY <1>5, <1>8
  <2>2. /\ start = size /\ (line = <<>> <=> size = p + 1) /\ ~IsJson(line)
    BY <1>8, <2>1, ShortLine
  <2>3. ~(p >= size)
    BY <1>8
  <2>4. Pass(raw, p, items) = IF line = <<>> THEN items[start] ELSE ItemAt(raw, p, items)
    BY <2>3 DEF Pass
  <2>5. ItemAt(raw, p, items) = Malformed
    BY <2>2 DEF ItemAt
  <2> HIDE DEF items, size, line, start
  <2>. QED BY <1>3, <1>4, <2>2, <2>4, <2>5
<1>9. ASSUME size >= p + 3 PROVE items[p] \in {Malformed, Parsed(<<>>)}
  <2> DEFINE m == size - (p + 3)
             cut == Slice(raw, start, end)
  <2>1. m \in Nat /\ m < n /\ size = p + 3 + m /\ ~(p >= size)
    <3>1. size < p + 3 + n
      OBVIOUS
    <3> HIDE DEF size, n
    <3>. QED BY <1>1, <1>9, <3>1
  <2>2. /\ start = p + 3 /\ line # <<>> /\ IsJson(line) /\ DocOf(line) = header
    <3>1. p + 3 <= Len(raw) /\ raw[p + 1] = Open(header) /\ raw[p + 2] = Close /\ raw[p + 3] = NL
      <4>1. size >= p + 1 /\ size >= p + 2
        <5> HIDE DEF size
        <5>. QED BY <1>1, <1>9
      <4>. QED BY <1>9, <4>1
    <3> HIDE DEF header
    <3>. QED BY <3>1, HeaderLine
  <2>3. \A j \in 1 .. m : j \in 1 .. n /\ raw[p + 3 + j] = payload[j]
    <3>1. \A j \in 1 .. m : j \in 1 .. n /\ p + 3 + j <= size
      <4> HIDE DEF size, n
      <4>. QED BY <1>1, <2>1
    <3>. QED BY <3>1
  <2>4. Pass(raw, p, items) = ItemAt(raw, p, items)
    BY <2>1, <2>2 DEF Pass
  <2>5. ASSUME LengthIn(header) # NoLength PROVE items[p] = Malformed
    <3>1. LengthIn(header) = <<n>>
      BY <2>5 DEF WellFormed
    <3>2. LengthIn(header)[1] = n
      BY <3>1
    <3>3. end = (start + n) % Width
      BY <2>5, <3>2 DEF PayloadEnd
    <3>4. p + 3 + n < Width
      OBVIOUS
    <3> HIDE DEF n, size, end, start
    <3>5. end = p + 3 + n
      <4> DEFINE x == p + 3 + n
      <4>1. x \in Nat /\ x < Width
        BY <1>1, <3>4
      <4>2. end = x % Width
        BY <2>2, <3>3
      <4> HIDE DEF x
      <4>3. end = x
        BY <4>1, <4>2, Wrapping
      <4>. QED BY <4>3 DEF x
    <3>6. end > size
      BY <1>1, <2>1, <3>5
    <3>7. ItemAt(raw, p, items) = Malformed
      BY <2>2, <3>6 DEF ItemAt, end, start, size
    <3>. QED BY <1>4, <2>4, <3>7
  <2>6. ASSUME LengthIn(header) = NoLength PROVE items[p] \in {Malformed, Parsed(<<>>)}
    <3>1. \A i \in 1 .. n : payload[i] # NL
      <4>1. \A i \in DOMAIN payload : payload[i] # NL
        BY <2>6 DEF WellFormed
      <4>2. DOMAIN payload = 1 .. n
        BY LenProperties
      <4>. QED BY <4>1, <4>2
    <3>2. \A i \in p + 3 + 1 .. size : raw[i] # NL
      <4> SUFFICES ASSUME NEW i \in p + 3 + 1 .. size PROVE raw[i] # NL
        OBVIOUS
      <4>1. i - (p + 3) \in 1 .. m /\ p + 3 + (i - (p + 3)) = i
        <5> HIDE DEF m, size
        <5>. QED BY <2>1
      <4>. QED BY <2>3, <3>1, <4>1
    <3>3. end = size
      <4> DEFINE s == p + 3
      <4>1. s \in Nat /\ s <= size
        BY <1>9
      <4>2. \A i \in s + 1 .. size : raw[i] # NL
        BY <3>2
      <4>3. size = Len(raw) /\ size <= Len(raw) /\ ~(size < Len(raw))
        BY <1>1
      <4> HIDE DEF s, size, header
      <4>4. PayloadEnd(raw, s, header) = size
        BY <1>1, <2>6, <4>1, <4>2, <4>3, EndsAtNewline
      <4>. QED BY <2>2, <4>4 DEF s
    <3>4. After(raw, end) = size
      BY <3>3 DEF After
    <3>5. /\ cut \in Seq(U) /\ Len(cut) = m /\ \A j \in 1 .. m : cut[j] = payload[j]
      <4> DEFINE s == p + 3
      <4>1. s \in Nat /\ size = s + m /\ s + m <= Len(raw)
        BY <2>1
      <4>2. cut = SubSeq(raw, s + 1, size)
        <5> HIDE DEF start, end
        <5>. QED BY <2>2, <3>3 DEF Slice
      <4>3. \A j \in 1 .. m : raw[s + j] = payload[j]
        BY <2>3
      <4> HIDE DEF s, size, m, cut
      <4>4. cut = SubSeq(raw, s + 1, s + m)
        BY <4>1, <4>2
      <4>. QED BY <2>1, <4>1, <4>3, <4>4, SliceIs
    <3>6. TypeIn(header) = "event" => ~IsEvent(cut)
      <4> SUFFICES ASSUME TypeIn(header) = "event" PROVE ~IsJson(cut)
        BY DEF IsEvent
      <4>1. IsJson(payload)
        BY DEF WellFormed, IsEvent
      <4>2. \A i \in DOMAIN payload : payload[i] # NL
        BY <3>1, LenProperties
      <4>3. payload \in Seq(U \cup T) /\ n = Len(payload)
        BY SeqMonotonic
      <4> HIDE DEF payload, n, m, cut
      <4>4. cut \in Seq(U \cup T)
        BY <3>5, SeqMonotonic
      <4>5. Len(cut) < Len(payload) /\ \A j \in 1 .. Len(cut) : cut[j] = payload[j]
        BY <2>1, <3>5, <4>3
      <4>. QED BY <4>1, <4>2, <4>3, <4>4, <4>5, CutIsNotJson
    <3>7. ~(end > size) /\ ~(end < start)
      <4> HIDE DEF end, start, size
      <4>. QED BY <1>1, <1>9, <2>2, <3>3
    <3>8. ItemAt(raw, p, items) =
            IF TypeIn(header) # "event" THEN items[After(raw, end)]
            ELSE IF ~IsEvent(cut) THEN Malformed
            ELSE Prepend(EventOf(cut), items[After(raw, end)])
      BY <2>2, <3>7 DEF ItemAt
    <3> HIDE DEF items, size, header, payload, start, end, cut
    <3>. QED BY <1>3, <1>4, <2>4, <3>4, <3>6, <3>8
  <2>. QED BY <2>5, <2>6
<1>. QED BY <1>6, <1>7, <1>8, <1>9

\* What the parser answers when it has read es and the rest of the envelope
\* answers that.
Ahead(es, rest) == IF rest.result = "events" THEN Parsed(es \o rest.events) ELSE rest

Results(E) == {Malformed, Panic} \cup {Parsed(es) : es \in Seq(E)}

\* Nothing read before the rest changes nothing.
LEMMA AheadNothing ==
  ASSUME NEW E, NEW rest \in Results(E)
  PROVE  Ahead(<<>>, rest) = rest
<1>1. CASE rest.result # "events"
  BY <1>1 DEF Ahead
<1>2. CASE rest.result = "events"
  <2>1. Malformed.result # "events" /\ Panic.result # "events"
    BY DEF Malformed, Panic
  <2>2. PICK es \in Seq(E) : rest = Parsed(es)
    BY <1>2, <2>1 DEF Results
  <2>3. rest.events = es
    BY <2>2 DEF Parsed
  <2>4. <<>> \o es = es
    BY ConcatEmptySeq
  <2>. QED BY <1>2, <2>2, <2>3, <2>4 DEF Ahead
<1>. QED BY <1>1, <1>2

\* An event read before the rest is one event more.
LEMMA AheadMore ==
  ASSUME NEW E, NEW rest \in Results(E), NEW es \in Seq(E), NEW event \in E
  PROVE  Ahead(es, Prepend(event, rest)) = Ahead(es \o <<event>>, rest)
<1>1. CASE rest.result # "events"
  BY <1>1 DEF Ahead, Prepend
<1>2. CASE rest.result = "events"
  <2>1. Malformed.result # "events" /\ Panic.result # "events"
    BY DEF Malformed, Panic
  <2>2. PICK tail \in Seq(E) : rest = Parsed(tail)
    BY <1>2, <2>1 DEF Results
  <2>3. rest.events = tail
    BY <2>2 DEF Parsed
  <2>4. <<event>> \in Seq(E)
    OBVIOUS
  <2>5. (es \o <<event>>) \o tail = es \o (<<event>> \o tail)
    BY <2>4, ConcatAssociative
  <2>6. Prepend(event, rest) = Parsed(<<event>> \o tail)
    BY <1>2, <2>3 DEF Prepend
  <2>7. Parsed(<<event>> \o tail).result = "events" /\ Parsed(<<event>> \o tail).events = <<event>> \o tail
    BY DEF Parsed
  <2>8. Ahead(es, Prepend(event, rest)) = Parsed(es \o (<<event>> \o tail))
    BY <2>6, <2>7 DEF Ahead
  <2>9. Ahead(es \o <<event>>, rest) = Parsed((es \o <<event>>) \o tail)
    BY <1>2, <2>3 DEF Ahead
  <2>. QED BY <2>5, <2>8, <2>9
<1>. QED BY <1>1, <1>2

\* The loop's answers are results over the events that can be read.
LEMMA OutcomesAreResults ==
  ASSUME NEW raw, NEW E, EventsRead(raw) \subseteq E
  PROVE  Outcomes(raw) \subseteq Results(E)
<1>1. Seq(EventsRead(raw)) \subseteq Seq(E)
  BY SeqMonotonic
<1>. QED BY <1>1 DEF Outcomes, Results

\* The events of the first k items are told[k].
Told(items, E, told) ==
  /\ told \in [0 .. Len(items) -> Seq(E)]
  /\ told[0] = <<>> /\ told[Len(items)] = EventsIn(items)
  /\ \A k \in 1 .. Len(items) :
       told[k] = told[k - 1] \o
                   IF TypeIn(items[k].header) = "event" THEN <<EventOf(items[k].payload)>> ELSE <<>>
  /\ \A k \in 0 .. Len(items) : IsPrefix(told[k], EventsIn(items))

\* There are such lists, of events in any set that has the events of the items.
LEMMA EventsAreTold ==
  ASSUME NEW T, NEW items \in Seq(T), NEW E,
         \A i \in DOMAIN items : EventOf(items[i].payload) \in E
  PROVE  \E told : Told(items, E, told)
<1> DEFINE parts == [i \in DOMAIN items |->
             IF TypeIn(items[i].header) = "event" THEN <<EventOf(items[i].payload)>> ELSE <<>>]
           n == Len(items)
<1>1. n \in Nat /\ DOMAIN items = 1 .. n
  OBVIOUS
<1>2. \A k \in 1 .. n : parts[k] =
        IF TypeIn(items[k].header) = "event" THEN <<EventOf(items[k].payload)>> ELSE <<>>
  BY <1>1
<1>3. parts \in Seq(Seq(E)) /\ Len(parts) = n
  <2>1. parts = [i \in 1 .. n |-> parts[i]]
    BY <1>1
  <2>2. \A k \in 1 .. n : parts[k] \in Seq(E)
    <3> SUFFICES ASSUME NEW k \in 1 .. n PROVE parts[k] \in Seq(E)
      OBVIOUS
    <3>1. EventOf(items[k].payload) \in E
      BY <1>1
    <3>2. \A e \in E : <<e>> \in Seq(E)
      OBVIOUS
    <3>3. <<>> \in Seq(E)
      OBVIOUS
    <3> HIDE DEF parts
    <3>. QED BY <1>2, <3>1, <3>2, <3>3
  <2> HIDE DEF parts
  <2>. QED BY <1>1, <2>1, <2>2
<1>4. EventsIn(items) = FlattenSeq(parts)
  BY DEF EventsIn
<1> HIDE DEF parts
<1>5. PICK told \in [0 .. Len(parts) -> Seq(E)] :
        /\ told[0] = <<>> /\ FlattenSeq(parts) = told[Len(parts)]
        /\ \A k \in 1 .. Len(parts) : told[k] = told[k - 1] \o parts[k]
        /\ \A k \in 0 .. Len(parts) : IsPrefix(told[k], FlattenSeq(parts))
  BY <1>3, FlattenIs
<1>6. Told(items, E, told)
  BY <1>2, <1>3, <1>4, <1>5 DEF Told
<1>. QED BY <1>6

\* The beginning of an envelope.
LEMMA BeginningIs ==
  ASSUME NEW U, NEW whole \in Seq(U), NEW m \in 0 .. Len(whole)
  PROVE  LET raw == SubSeq(whole, 1, m)
         IN  raw \in Seq(U) /\ Len(raw) = m /\ \A i \in 1 .. m : raw[i] = whole[i]
<1> DEFINE s == 0
<1>1. s \in Nat /\ m \in Nat /\ s + m <= Len(whole) /\ s + 1 = 1 /\ s + m = m
      /\ \A i \in 1 .. m : s + i = i
  OBVIOUS
<1> HIDE DEF s
<1>2. /\ SubSeq(whole, s + 1, s + m) \in Seq(U) /\ Len(SubSeq(whole, s + 1, s + m)) = m
      /\ \A j \in 1 .. m : SubSeq(whole, s + 1, s + m)[j] = whole[s + j]
  BY <1>1, SliceIs
<1>. QED BY <1>1, <1>2

\* An envelope cut in its own header is refused.
LEMMA HeaderCut ==
  ASSUME NEW U, NEW raw \in Seq(U), Len(raw) < 3,
         Len(raw) >= 1 => raw[1] = Open(FirstHeader), Len(raw) >= 2 => raw[2] = Close
  PROVE  ParseEnvelope(raw) = Malformed
<1>1. CASE raw = <<>>
  BY <1>1 DEF ParseEnvelope
<1>2. CASE raw # <<>>
  <2>1. Len(raw) \in Nat /\ Len(raw) # 0
    BY <1>2, EmptySeq
  <2>2. Len(raw) = 0 + 1 \/ Len(raw) = 0 + 2
    <3> DEFINE size == Len(raw)
    <3>1. size \in Nat /\ size # 0 /\ size < 3
      BY <2>1
    <3> HIDE DEF size
    <3>2. size = 1 \/ size = 2
      BY <3>1
    <3>. QED BY <3>2 DEF size
  <2>3. Open(FirstHeader) # NL /\ Close # NL
    <3>1. Open(FirstHeader).sym = "open" /\ Close.sym = "close" /\ NL.sym = "newline"
      BY DEF Open, Close, NL
    <3>. QED BY <3>1
  <2>4. raw[0 + 1] # NL /\ (Len(raw) = 0 + 2 => raw[0 + 2] # NL)
    BY <2>1, <2>2, <2>3
  <2>5. ~IsJson(LineAt(raw, 0))
    <3> DEFINE p == 0
    <3>1. p \in Nat /\ (Len(raw) = p + 1 \/ Len(raw) = p + 2)
          /\ raw[p + 1] # NL /\ (Len(raw) = p + 2 => raw[p + 2] # NL)
      BY <2>2, <2>4
    <3> HIDE DEF p
    <3>2. ~IsJson(LineAt(raw, p))
      BY <3>1, ShortLine
    <3>. QED BY <3>2 DEF p
  <2>. QED BY <2>5 DEF ParseEnvelope
<1>. QED BY <1>1, <1>2
\* Everything that is known of an envelope sent: where its items are and what
\* their events are, in a set that has every event that can be read from it.
Sent(T, S, items, whole, places, E, told) ==
  /\ items \in Seq(T) /\ Sendables(items, S) /\ Width \in Nat \ {0}
  /\ whole \in Seq(Alphabet(items, S)) /\ Len(whole) < Width
  /\ LaidOut(items, whole, places) /\ Told(items, E, told)
  /\ \A i \in DOMAIN items : EventOf(items[i].payload) \in E
  /\ \A m \in 0 .. Len(whole) : EventsRead(SubSeq(whole, 1, m)) \subseteq E

\* The envelope cut to its first m symbols.
CutTo(whole, m, raw) == m \in 0 .. Len(whole) /\ raw = SubSeq(whole, 1, m)

\* The items whose last newlines are there are read one after the other.
LEMMA Progress ==
  ASSUME NEW T, NEW S, NEW items, NEW whole, NEW places, NEW E, NEW told,
         Sent(T, S, items, whole, places, E, told),
         NEW m, NEW raw, CutTo(whole, m, raw), m >= 3
  PROVE  /\ \A c \in Nat : ItemsFrom(raw)[c] \in Results(E)
         /\ \A k \in 0 .. Len(items) :
              places[k] <= m => ParseEnvelope(raw) = Ahead(told[k], ItemsFrom(raw)[places[k]])
<1> SUFFICES
      ASSUME items \in Seq(T), Sendables(items, S), Width \in Nat \ {0},
             whole \in Seq(Alphabet(items, S)), Len(whole) < Width,
             LaidOut(items, whole, places), Told(items, E, told),
             \A i \in DOMAIN items : EventOf(items[i].payload) \in E,
             m \in 3 .. Len(whole), raw = SubSeq(whole, 1, m), EventsRead(raw) \subseteq E
      PROVE  /\ \A c \in Nat : ItemsFrom(raw)[c] \in Results(E)
             /\ \A k \in 0 .. Len(items) :
                  places[k] <= m => ParseEnvelope(raw) = Ahead(told[k], ItemsFrom(raw)[places[k]])
  <2>1. Len(whole) \in Nat
    <3>1. whole \in Seq(Alphabet(items, S))
      BY DEF Sent
    <3>. QED BY <3>1, LenProperties
  <2>2. m \in 3 .. Len(whole)
    BY <2>1 DEF CutTo
  <2>. QED BY <2>2 DEF Sent, CutTo
<1> DEFINE U == Alphabet(items, S)
           n == Len(items)
           got == ParseEnvelope(raw)
           rest == ItemsFrom(raw)
           known == {k \in Nat : k <= n /\ places[k] <= m => got = Ahead(told[k], rest[places[k]])}
<1>1. n \in Nat /\ DOMAIN items = 1 .. n /\ m \in Nat /\ m \in 0 .. Len(whole)
      /\ Len(whole) \in Nat
  OBVIOUS
<1>2. /\ raw \in Seq(U) /\ Len(raw) = m /\ \A i \in 1 .. m : raw[i] = whole[i]
  <2> HIDE DEF U
  <2>1. whole \in Seq(U)
    BY DEF U
  <2>. QED BY <1>1, <2>1, BeginningIs
<1>3. LengthsDeclared(raw)
  <2>1. \A x \in U : Declares(x)
    BY AlphabetDeclares
  <2> HIDE DEF U
  <2>2. \A i \in DOMAIN raw : raw[i] \in U
    BY <1>2
  <2>. QED BY <2>1, <2>2 DEF LengthsDeclared
<1> HIDE DEF U
<1>4. \A c \in Nat : rest[c] \in Results(E)
  <2>1. \A c \in Nat : rest[c] \in Outcomes(raw)
    BY <1>2, <1>3, LoopYields
  <2>. QED BY <2>1, OutcomesAreResults
<1>5. /\ places \in [0 .. n -> Nat] /\ told \in [0 .. n -> Seq(E)]
      /\ places[0] = 3 /\ told[0] = <<>>
  BY DEF LaidOut, Told
<1>6. 0 \in known
  <2>1. /\ LineEnd(raw, 0) = 3 /\ LineAt(raw, 0) # <<>> /\ IsJson(LineAt(raw, 0))
    <3> DEFINE p == 0
    <3>1. /\ p \in Nat /\ p + 3 <= Len(raw) /\ raw[p + 1] = Open(FirstHeader)
          /\ raw[p + 2] = Close /\ raw[p + 3] = NL /\ p + 3 = 3
      <4>1. 1 \in 1 .. m /\ 2 \in 1 .. m /\ 3 \in 1 .. m
        OBVIOUS
      <4>. QED BY <1>2, <4>1 DEF LaidOut
    <3> HIDE DEF p
    <3>2. LineEnd(raw, p) = p + 3 /\ LineAt(raw, p) # <<>> /\ IsJson(LineAt(raw, p))
      BY <1>2, <3>1, HeaderLine
    <3>. QED BY <3>1, <3>2 DEF p
  <2>2. raw # <<>>
    <3> SUFFICES ASSUME raw = <<>> PROVE FALSE
      OBVIOUS
    <3>1. m >= 3
      OBVIOUS
    <3>2. Len(raw) = 0
      BY EmptySeq
    <3>. QED BY <1>1, <1>2, <3>1, <3>2
  <2>3. got = rest[3]
    BY <2>1, <2>2 DEF ParseEnvelope
  <2>4. Ahead(<<>>, rest[3]) = rest[3]
    <3> HIDE DEF rest
    <3>. QED BY <1>4, AheadNothing
  <2>. QED BY <1>1, <1>5, <2>3, <2>4
<1>7. ASSUME NEW k \in Nat, k \in known PROVE k + 1 \in known
  <2> SUFFICES ASSUME k + 1 <= n, places[k + 1] <= m
               PROVE  got = Ahead(told[k + 1], rest[places[k + 1]])
    OBVIOUS
  <2> DEFINE item == items[k + 1]
             p == places[k]
             next == places[k + 1]
             length == Len(item.payload)
             q == p + 3 + length
  <2>1. k + 1 \in 1 .. n /\ (k + 1) - 1 = k /\ k \in 0 .. n /\ k + 1 \in 0 .. n /\ k <= n
    BY <1>1
  <2>2. item.payload \in Seq(S) /\ WellFormed(item) /\ length \in Nat
    BY <1>1, <2>1, LenProperties DEF Sendables
  <2>3. /\ next = p + length + 4
        /\ whole[p + 1] = Open(item.header) /\ whole[p + 2] = Close /\ whole[p + 3] = NL
        /\ \A j \in 1 .. length : whole[p + 3 + j] = item.payload[j]
        /\ whole[next] = NL
    BY <2>1 DEF LaidOut
  <2>4. p \in Nat /\ next \in Nat /\ told[k] \in Seq(E)
    BY <1>5, <2>1
  <2> HIDE DEF known
  <2>5. next = q + 1 /\ q + 1 <= m /\ p <= m /\ q \in Nat /\ q <= m /\ q < m
        /\ p + 1 \in 1 .. m /\ p + 2 \in 1 .. m /\ p + 3 \in 1 .. m /\ q + 1 \in 1 .. m
        /\ \A j \in 1 .. length : p + 3 + j \in 1 .. m
    <3>1. /\ next <= m /\ m \in Nat /\ p \in Nat /\ next \in Nat /\ length \in Nat
          /\ next = p + length + 4
      BY <1>1, <2>2, <2>3, <2>4
    <3> HIDE DEF item, p, next, length
    <3>. QED BY ONLY <3>1
  <2>6. /\ raw[p + 1] = Open(item.header) /\ raw[p + 2] = Close /\ raw[p + 3] = NL
        /\ \A j \in 1 .. length : raw[p + 3 + j] = item.payload[j]
        /\ raw[q + 1] = NL
    BY <1>2, <2>3, <2>5
  <2>7. got = Ahead(told[k], rest[p])
    BY <1>7, <2>1, <2>5 DEF known
  <2>8. told[k + 1] = told[k] \o
          IF TypeIn(item.header) = "event" THEN <<EventOf(item.payload)>> ELSE <<>>
    BY <2>1 DEF Told
  <2>9. EventOf(item.payload) \in E
    BY <1>1, <2>1
  <2> HIDE DEF item, p, next, q, got
  <2>10. rest[p] = IF TypeIn(item.header) = "event" THEN Prepend(EventOf(item.payload), rest[q + 1])
                   ELSE rest[q + 1]
    <3>1. /\ q = p + 3 + Len(item.payload) /\ q <= Len(raw) /\ q < Len(raw)
          /\ Len(raw) < Width /\ Width \in Nat
      <4>1. q <= Len(raw) /\ q < Len(raw)
        BY <1>2, <2>5
      <4>2. Len(raw) < Width /\ Width \in Nat
        <5>1. m <= Len(whole) /\ Len(whole) < Width
          OBVIOUS
        <5> DEFINE size == Len(whole)
                   w == Width
        <5>2. m \in Nat /\ size \in Nat /\ w \in Nat /\ m <= size /\ size < w
          BY <1>1, <5>1
        <5> HIDE DEF size, w
        <5>3. m < w
          BY ONLY <5>2
        <5>. QED BY <1>2, <5>3 DEF w
      <4>. QED BY <4>1, <4>2 DEF q
    <3>2. /\ raw[p + 1] = Open(item.header) /\ raw[p + 2] = Close /\ raw[p + 3] = NL
          /\ \A j \in 1 .. Len(item.payload) : raw[p + 3 + j] = item.payload[j]
          /\ (q < Len(raw) => raw[q + 1] = NL)
      BY <2>6
    <3>3. /\ item.payload \in Seq(S) /\ WellFormed(item) /\ p \in Nat /\ q \in Nat
          /\ raw \in Seq(U) /\ LengthsDeclared(raw)
      BY <1>2, <1>3, <2>2, <2>4, <2>5
    <3>0. ItemThere(raw, item, p, q)
      BY <3>1, <3>2 DEF ItemThere
    <3> DEFINE then == ItemsFrom(raw)[IF q < Len(raw) THEN q + 1 ELSE q]
    <3>4. ItemsFrom(raw)[p] =
            IF TypeIn(item.header) = "event" THEN Prepend(EventOf(item.payload), then) ELSE then
      BY ONLY <3>0, <3>1, <3>3, ItemRead
    <3>5. then = rest[q + 1]
      BY <3>1
    <3>. QED BY <3>4, <3>5
  <2> HIDE DEF rest
  <2>11. rest[q + 1] \in Results(E)
    BY <1>4, <2>5
  <2>12. CASE TypeIn(item.header) = "event"
    <3>1. told[k + 1] = told[k] \o <<EventOf(item.payload)>>
      BY <2>8, <2>12
    <3>2. rest[p] = Prepend(EventOf(item.payload), rest[q + 1])
      BY <2>10, <2>12
    <3>3. Ahead(told[k], Prepend(EventOf(item.payload), rest[q + 1]))
            = Ahead(told[k] \o <<EventOf(item.payload)>>, rest[q + 1])
      BY <2>4, <2>9, <2>11, AheadMore
    <3>. QED BY <2>5, <2>7, <3>1, <3>2, <3>3 DEF next
  <2>13. CASE TypeIn(item.header) # "event"
    <3>1. told[k + 1] = told[k]
      <4>1. told[k] \o <<>> = told[k]
        BY <2>4, ConcatEmptySeq
      <4>. QED BY <2>8, <2>13, <4>1
    <3>2. rest[p] = rest[q + 1]
      BY <2>10, <2>13
    <3>. QED BY <2>5, <2>7, <3>1, <3>2 DEF next
  <2>. QED BY <2>12, <2>13
<1>8. Nat \subseteq known
  <2> HIDE DEF known
  <2>. QED BY <1>6, <1>7, EveryNumber
<1>9. \A k \in 0 .. n : k \in Nat /\ k <= n
  BY <1>1
<1>. QED BY <1>4, <1>8, <1>9

\* Where an envelope ends nothing is left to read.
LEMMA EndIsReached ==
  ASSUME NEW S, NEW raw \in Seq(S), LengthsDeclared(raw), Width \in Nat \ {0}
  PROVE  ItemsFrom(raw)[Len(raw)] = Parsed(<<>>)
<1> DEFINE size == Len(raw)
<1>1. size \in Nat
  OBVIOUS
<1>2. ItemsFrom(raw) = [c \in Nat |-> Pass(raw, c, ItemsFrom(raw))]
  BY LoopEnds
<1> DEFINE items == ItemsFrom(raw)
<1> HIDE DEF items, size
<1>3. items[size] = Pass(raw, size, items) /\ size >= size
  BY <1>1, <1>2 DEF items
<1>. QED BY <1>3 DEF Pass, size, items

\* Events ahead of an end are all there is, and ahead of an error they are lost.
LEMMA AheadEnds ==
  ASSUME NEW E, NEW es \in Seq(E)
  PROVE  Ahead(es, Parsed(<<>>)) = Parsed(es) /\ Ahead(es, Malformed) = Malformed
<1>1. es \o <<>> = es
  BY ConcatEmptySeq
<1>2. Parsed(<<>>).result = "events" /\ Parsed(<<>>).events = <<>>
  BY DEF Parsed
<1>3. Malformed.result # "events"
  BY DEF Malformed
<1>. QED BY <1>1, <1>2, <1>3 DEF Ahead

\* What holds of its beginnings.
LEMMA Beginning ==
  ASSUME NEW T, NEW S, NEW items, NEW whole, NEW places, NEW E, NEW told,
         Sent(T, S, items, whole, places, E, told),
         NEW m, NEW raw, CutTo(whole, m, raw)
  PROVE  /\ raw \in Seq(Alphabet(items, S)) /\ Len(raw) = m /\ LengthsDeclared(raw)
         /\ m \in Nat /\ m < Width /\ \A i \in 1 .. m : raw[i] = whole[i]
         /\ ItemsFrom(raw)[m] = Parsed(<<>>)
         /\ m >= 3 => \A k \in 0 .. Len(items) :
              places[k] <= m => ParseEnvelope(raw) = Ahead(told[k], ItemsFrom(raw)[places[k]])
<1> DEFINE U == Alphabet(items, S)
<1>1. /\ Sendables(items, S) /\ Width \in Nat \ {0} /\ whole \in Seq(U) /\ Len(whole) < Width
      /\ LaidOut(items, whole, places) /\ Told(items, E, told)
      /\ \A i \in DOMAIN items : EventOf(items[i].payload) \in E
      /\ EventsRead(raw) \subseteq E
  BY DEF Sent, CutTo
<1>2. /\ raw \in Seq(U) /\ Len(raw) = m /\ \A i \in 1 .. m : raw[i] = whole[i]
  <2> HIDE DEF U
  <2>1. m \in 0 .. Len(whole) /\ raw = SubSeq(whole, 1, m)
    BY DEF CutTo
  <2>. QED BY <1>1, <2>1, BeginningIs
<1>3. LengthsDeclared(raw)
  <2>1. \A x \in U : Declares(x)
    <3>1. items \in Seq(T)
      BY DEF Sent
    <3>. QED BY <1>1, <3>1, AlphabetDeclares
  <2> HIDE DEF U
  <2>2. \A i \in DOMAIN raw : raw[i] \in U
    BY <1>2
  <2>. QED BY <2>1, <2>2 DEF LengthsDeclared
<1>4. m \in Nat /\ m < Width
  <2> DEFINE size == Len(whole)
             w == Width
  <2>1. size \in Nat /\ w \in Nat /\ size < w /\ m \in 0 .. size
    <3>1. m \in 0 .. Len(whole)
      BY DEF CutTo
    <3>. QED BY <1>1, <3>1
  <2> HIDE DEF size, w
  <2>2. m \in Nat /\ m < w
    BY ONLY <2>1
  <2>. QED BY <2>2 DEF w
<1>5. ItemsFrom(raw)[m] = Parsed(<<>>)
  <2> HIDE DEF U
  <2>. QED BY <1>1, <1>2, <1>3, EndIsReached
<1>6. m >= 3 => \A k \in 0 .. Len(items) :
        places[k] <= m => ParseEnvelope(raw) = Ahead(told[k], ItemsFrom(raw)[places[k]])
  BY Progress
<1>. QED BY <1>2, <1>3, <1>4, <1>5, <1>6

\* The k-th item in its envelope, counted from the place before it.
ItemIn(k, S, items, whole, places, E, told) ==
  LET item == items[k]
      p == places[k - 1]
  IN  /\ p \in Nat /\ places[k] \in Nat /\ k - 1 \in 0 .. Len(items) /\ k \in 0 .. Len(items)
      /\ item.payload \in Seq(S) /\ WellFormed(item) /\ Len(item.payload) \in Nat
      /\ places[k] = p + Len(item.payload) + 4
      /\ whole[p + 1] = Open(item.header) /\ whole[p + 2] = Close /\ whole[p + 3] = NL
      /\ \A j \in 1 .. Len(item.payload) : whole[p + 3 + j] = item.payload[j]
      /\ told[k - 1] \in Seq(E) /\ EventOf(item.payload) \in E
      /\ told[k] = told[k - 1] \o
           IF TypeIn(item.header) = "event" THEN <<EventOf(item.payload)>> ELSE <<>>

\* Of an envelope as it is sent, that holds of every item.
LEMMA ItemInEnvelope ==
  ASSUME NEW T, NEW S, NEW items, NEW whole, NEW places, NEW E, NEW told,
         Sent(T, S, items, whole, places, E, told)
  PROVE  \A k \in 1 .. Len(items) : ItemIn(k, S, items, whole, places, E, told)
<1> SUFFICES ASSUME NEW k \in 1 .. Len(items) PROVE ItemIn(k, S, items, whole, places, E, told)
  OBVIOUS
<1>1. Sendables(items, S) /\ LaidOut(items, whole, places) /\ Told(items, E, told)
      /\ \A i \in DOMAIN items : EventOf(items[i].payload) \in E
  BY DEF Sent
<1>0. items \in Seq(T)
  BY DEF Sent
<1>2. Len(items) \in Nat /\ k - 1 \in 0 .. Len(items) /\ k \in 0 .. Len(items) /\ k \in DOMAIN items
  BY <1>0
<1>3. places[k - 1] \in Nat /\ places[k] \in Nat /\ told[k - 1] \in Seq(E)
  BY <1>1, <1>2 DEF LaidOut, Told
<1>4. items[k].payload \in Seq(S) /\ WellFormed(items[k]) /\ EventOf(items[k].payload) \in E
  BY <1>1, <1>2 DEF Sendables
<1>5. Len(items[k].payload) \in Nat
  BY <1>4, LenProperties
<1>. QED BY <1>1, <1>2, <1>3, <1>4, <1>5 DEF LaidOut, Told, ItemIn

\* Every item is within the envelope.
LEMMA PlacesWithin ==
  ASSUME NEW T, NEW S, NEW items, NEW whole, NEW places, NEW E, NEW told,
         Sent(T, S, items, whole, places, E, told)
  PROVE  \A k \in 0 .. Len(items) : places[k] <= Len(whole)
<1> DEFINE n == Len(items)
           size == Len(whole)
           known == {j \in Nat : j <= n => places[n - j] <= size}
<1>1. n \in Nat /\ size \in Nat /\ places \in [0 .. n -> Nat] /\ places[n] = size
  <2>1. /\ items \in Seq(T) /\ whole \in Seq(Alphabet(items, S)) /\ LaidOut(items, whole, places)
    BY DEF Sent
  <2>. QED BY <2>1, LenProperties DEF LaidOut
<1>2. \A k \in 1 .. n : places[k - 1] <= places[k]
  <2> SUFFICES ASSUME NEW k \in 1 .. n PROVE places[k - 1] <= places[k]
    OBVIOUS
  <2>1. ItemIn(k, S, items, whole, places, E, told)
    BY ItemInEnvelope
  <2> DEFINE p == places[k - 1]
             length == Len(items[k].payload)
             next == places[k]
  <2>2. p \in Nat /\ length \in Nat /\ next = p + length + 4
    BY <2>1 DEF ItemIn
  <2> HIDE DEF p, length, next
  <2>3. p <= next
    BY ONLY <2>2
  <2>. QED BY <2>3 DEF p, next
<1> HIDE DEF n, size
<1>3. 0 \in known
  BY <1>1
<1>4. ASSUME NEW j \in Nat, j \in known PROVE j + 1 \in known
  <2> SUFFICES ASSUME j + 1 <= n PROVE places[n - (j + 1)] <= size
    OBVIOUS
  <2>1. n - j \in 1 .. n /\ (n - j) - 1 = n - (j + 1) /\ n - (j + 1) \in 0 .. n /\ n - j \in 0 .. n
    BY <1>1
  <2>2. places[n - (j + 1)] <= places[n - j]
    BY <1>2, <2>1
  <2>3. places[n - j] <= size /\ places[n - j] \in Nat /\ places[n - (j + 1)] \in Nat
    BY <1>1, <1>4, <2>1
  <2>. QED BY <1>1, <2>2, <2>3
<1>5. Nat \subseteq known
  <2> HIDE DEF known
  <2>. QED BY <1>3, <1>4, EveryNumber
<1>6. ASSUME NEW k \in 0 .. n PROVE places[k] <= size
  <2>1. n - k \in Nat /\ n - k <= n /\ n - (n - k) = k
    BY <1>1
  <2>2. n - k \in known
    BY <1>5, <2>1
  <2>. QED BY <2>1, <2>2
<1>. QED BY <1>6 DEF n, size

\* Cut at the last newline of an item, the item is the last that is read.
LEMMA CutAtNewline ==
  ASSUME NEW T, NEW S, NEW items, NEW whole, NEW places, NEW E, NEW told,
         Sent(T, S, items, whole, places, E, told),
         NEW m, NEW raw, CutTo(whole, m, raw),
         NEW k \in 1 .. Len(items), places[k] = m + 1
  PROVE  m >= 3 => ParseEnvelope(raw) = Parsed(told[k])
<1> SUFFICES ASSUME m >= 3 PROVE ParseEnvelope(raw) = Parsed(told[k])
  OBVIOUS
<1> DEFINE item == items[k]
           p == places[k - 1]
           length == Len(item.payload)
           event == EventOf(item.payload)
           U == Alphabet(items, S)
           rest == ItemsFrom(raw)
<1>1. /\ raw \in Seq(U) /\ Len(raw) = m /\ LengthsDeclared(raw)
      /\ m \in Nat /\ m < Width /\ \A i \in 1 .. m : raw[i] = whole[i]
      /\ rest[m] = Parsed(<<>>)
      /\ \A i \in 0 .. Len(items) : places[i] <= m => ParseEnvelope(raw) = Ahead(told[i], rest[places[i]])
  BY Beginning
<1>2. /\ p \in Nat /\ places[k] \in Nat /\ k - 1 \in 0 .. Len(items) /\ k \in 0 .. Len(items)
      /\ item.payload \in Seq(S) /\ WellFormed(item) /\ length \in Nat
      /\ places[k] = p + length + 4
      /\ whole[p + 1] = Open(item.header) /\ whole[p + 2] = Close /\ whole[p + 3] = NL
      /\ \A j \in 1 .. length : whole[p + 3 + j] = item.payload[j]
      /\ told[k - 1] \in Seq(E) /\ event \in E
      /\ told[k] = told[k - 1] \o IF TypeIn(item.header) = "event" THEN <<event>> ELSE <<>>
  <2>1. ItemIn(k, S, items, whole, places, E, told)
    BY ItemInEnvelope
  <2>. QED BY <2>1 DEF ItemIn
<1>3. Width \in Nat \ {0}
  BY DEF Sent
<1> HIDE DEF item, p, length, U, event
<1>4. /\ m = p + 3 + length /\ p <= m
      /\ p + 1 \in 1 .. m /\ p + 2 \in 1 .. m /\ p + 3 \in 1 .. m
      /\ \A j \in 1 .. length : p + 3 + j \in 1 .. m
  <2>1. m + 1 = p + length + 4 /\ m \in Nat /\ p \in Nat /\ length \in Nat
    BY <1>1, <1>2
  <2>. QED BY ONLY <2>1
<1>5. ItemThere(raw, item, p, m)
  <2>1. /\ raw[p + 1] = Open(item.header) /\ raw[p + 2] = Close /\ raw[p + 3] = NL
        /\ \A j \in 1 .. length : raw[p + 3 + j] = item.payload[j]
    BY <1>1, <1>2, <1>4
  <2>2. m = p + 3 + length /\ m <= Len(raw) /\ ~(m < Len(raw))
    BY <1>1, <1>4
  <2>. QED BY <2>1, <2>2 DEF ItemThere, length
<1>6. rest[p] = IF TypeIn(item.header) = "event" THEN Prepend(event, rest[m]) ELSE rest[m]
  <2>1. /\ raw \in Seq(U) /\ LengthsDeclared(raw) /\ Width \in Nat /\ Len(raw) < Width
        /\ item.payload \in Seq(S) /\ WellFormed(item) /\ p \in Nat /\ m \in Nat
        /\ ItemThere(raw, item, p, m)
    BY <1>1, <1>2, <1>3, <1>5
  <2> DEFINE then == ItemsFrom(raw)[IF m < Len(raw) THEN m + 1 ELSE m]
  <2>2. ItemsFrom(raw)[p] =
          IF TypeIn(item.header) = "event" THEN Prepend(EventOf(item.payload), then) ELSE then
    BY ONLY <2>1, ItemRead
  <2>3. then = rest[m]
    BY <1>1
  <2>. QED BY <2>2, <2>3 DEF event
<1>7. ParseEnvelope(raw) = Ahead(told[k - 1], rest[p])
  BY <1>1, <1>2, <1>4 DEF p
<1> HIDE DEF rest
<1>8. Parsed(<<>>) \in Results(E)
  <2>1. <<>> \in Seq(E)
    OBVIOUS
  <2>. QED BY <2>1 DEF Results
<1>9. CASE TypeIn(item.header) = "event"
  <2>1. rest[p] = Prepend(event, Parsed(<<>>)) /\ told[k] = told[k - 1] \o <<event>>
    BY <1>1, <1>2, <1>6, <1>9
  <2>2. Ahead(told[k - 1], Prepend(event, Parsed(<<>>))) = Ahead(told[k], Parsed(<<>>))
    <3> DEFINE before == told[k - 1]
               none == Parsed(<<>>)
    <3>1. before \in Seq(E) /\ none \in Results(E) /\ event \in E
      BY <1>2, <1>8
    <3> HIDE DEF before, none
    <3>2. Ahead(before, Prepend(event, none)) = Ahead(before \o <<event>>, none)
      BY ONLY <3>1, AheadMore
    <3>. QED BY <2>1, <3>2 DEF before, none
  <2>3. told[k] \in Seq(E)
    <3>1. <<event>> \in Seq(E)
      BY <1>2
    <3>. QED BY <1>2, <2>1, <3>1, ConcatProperties
  <2>. QED BY <1>7, <2>1, <2>2, <2>3, AheadEnds
<1>10. CASE TypeIn(item.header) # "event"
  <2>1. rest[p] = Parsed(<<>>) /\ told[k] = told[k - 1]
    <3>1. told[k - 1] \o <<>> = told[k - 1]
      BY <1>2, ConcatEmptySeq
    <3>. QED BY <1>1, <1>2, <1>6, <1>10, <3>1
  <2>. QED BY <1>2, <1>7, <2>1, AheadEnds
<1>. QED BY <1>9, <1>10

\* Cut elsewhere within an item, the items before it are what is read.
LEMMA CutWithin ==
  ASSUME NEW T, NEW S, NEW items, NEW whole, NEW places, NEW E, NEW told,
         Sent(T, S, items, whole, places, E, told),
         NEW m, NEW raw, CutTo(whole, m, raw), m >= 3,
         NEW k \in 1 .. Len(items), places[k - 1] <= m, m + 1 < places[k]
  PROVE  ParseEnvelope(raw) \in {Malformed, Parsed(told[k - 1])}
<1> DEFINE item == items[k]
           p == places[k - 1]
           length == Len(item.payload)
           event == EventOf(item.payload)
           U == Alphabet(items, S)
           rest == ItemsFrom(raw)
<1>1. /\ raw \in Seq(U) /\ Len(raw) = m /\ LengthsDeclared(raw)
      /\ m \in Nat /\ m < Width /\ \A i \in 1 .. m : raw[i] = whole[i]
      /\ rest[m] = Parsed(<<>>)
      /\ \A i \in 0 .. Len(items) : places[i] <= m => ParseEnvelope(raw) = Ahead(told[i], rest[places[i]])
  BY Beginning
<1>2. /\ p \in Nat /\ places[k] \in Nat /\ k - 1 \in 0 .. Len(items) /\ k \in 0 .. Len(items)
      /\ item.payload \in Seq(S) /\ WellFormed(item) /\ length \in Nat
      /\ places[k] = p + length + 4
      /\ whole[p + 1] = Open(item.header) /\ whole[p + 2] = Close /\ whole[p + 3] = NL
      /\ \A j \in 1 .. length : whole[p + 3 + j] = item.payload[j]
      /\ told[k - 1] \in Seq(E) /\ event \in E
      /\ told[k] = told[k - 1] \o IF TypeIn(item.header) = "event" THEN <<event>> ELSE <<>>
  <2>1. ItemIn(k, S, items, whole, places, E, told)
    BY ItemInEnvelope
  <2>. QED BY <2>1 DEF ItemIn
<1>3. /\ Width \in Nat \ {0} /\ places[k] < Width
  <2>1. /\ Width \in Nat \ {0} /\ Len(whole) < Width /\ Len(whole) \in Nat
        /\ LaidOut(items, whole, places)
    <3>1. whole \in Seq(U)
      BY DEF Sent
    <3>. QED BY <3>1, LenProperties DEF Sent
  <2>2. \A j \in 0 .. Len(items) : places[j] <= Len(whole)
    BY PlacesWithin
  <2> DEFINE size == Len(whole)
             w == Width
             next == places[k]
  <2>3. next \in Nat /\ size \in Nat /\ w \in Nat /\ next <= size /\ size < w
    BY <1>2, <2>1, <2>2
  <2> HIDE DEF size, w, next
  <2>4. next < w
    BY ONLY <2>3
  <2>. QED BY <2>1, <2>4 DEF next, w
<1> HIDE DEF item, p, length, U, event
<1>4. /\ p <= m /\ m < p + 3 + length /\ p + 3 + length < Width
      /\ (m >= p + 1 => p + 1 \in 1 .. m) /\ (m >= p + 2 => p + 2 \in 1 .. m)
      /\ (m >= p + 3 => p + 3 \in 1 .. m)
      /\ \A j \in 1 .. length : p + 3 + j <= m => p + 3 + j \in 1 .. m
  <2> DEFINE next == places[k]
             w == Width
  <2>1. /\ p <= m /\ m + 1 < next /\ m \in Nat /\ p \in Nat /\ next \in Nat /\ length \in Nat
        /\ next = p + length + 4 /\ w \in Nat /\ next < w
    BY <1>1, <1>2, <1>3 DEF p
  <2> HIDE DEF next, w
  <2>2. /\ p <= m /\ m < p + 3 + length /\ p + 3 + length < w
        /\ (m >= p + 1 => p + 1 \in 1 .. m) /\ (m >= p + 2 => p + 2 \in 1 .. m)
        /\ (m >= p + 3 => p + 3 \in 1 .. m)
        /\ \A j \in 1 .. length : p + 3 + j <= m => p + 3 + j \in 1 .. m
    BY ONLY <2>1
  <2>. QED BY <2>2 DEF w
<1>5. rest[p] \in {Malformed, Parsed(<<>>)}
  <2>1. /\ raw \in Seq(U) /\ LengthsDeclared(raw) /\ Width \in Nat \ {0}
        /\ item.payload \in Seq(S) /\ WellFormed(item) /\ p \in Nat
    BY <1>1, <1>2, <1>3
  <2>2. ItemBegun(raw, item, p)
    <3>1. /\ p <= Len(raw) /\ Len(raw) < p + 3 + Len(item.payload)
          /\ p + 3 + Len(item.payload) < Width
      BY <1>1, <1>4 DEF length
    <3>2. /\ Len(raw) >= p + 1 => raw[p + 1] = Open(item.header)
          /\ Len(raw) >= p + 2 => raw[p + 2] = Close
          /\ Len(raw) >= p + 3 => raw[p + 3] = NL
      BY <1>1, <1>2, <1>4
    <3>3. \A j \in 1 .. Len(item.payload) :
            p + 3 + j <= Len(raw) => raw[p + 3 + j] = item.payload[j]
      BY <1>1, <1>2, <1>4 DEF length
    <3>. QED BY <3>1, <3>2, <3>3 DEF ItemBegun
  <2>3. ItemsFrom(raw)[p] \in {Malformed, Parsed(<<>>)}
    BY ONLY <2>1, <2>2, ItemCut
  <2>. QED BY <2>3
<1>6. ParseEnvelope(raw) = Ahead(told[k - 1], rest[p])
  BY <1>1, <1>2 DEF p
<1> HIDE DEF rest
<1>. QED BY <1>2, <1>5, <1>6, AheadEnds

\* No item starts in the envelope's header.
LEMMA PlacesPast ==
  ASSUME NEW T, NEW S, NEW items, NEW whole, NEW places, NEW E, NEW told,
         Sent(T, S, items, whole, places, E, told)
  PROVE  \A k \in 0 .. Len(items) : places[k] >= 3
<1> SUFFICES ASSUME NEW k \in 0 .. Len(items) PROVE places[k] >= 3
  OBVIOUS
<1> DEFINE n == Len(items)
           known == {j \in Nat : j <= n => places[j] >= 3}
<1>1. n \in Nat /\ places \in [0 .. n -> Nat] /\ places[0] = 3
  <2>1. items \in Seq(T) /\ LaidOut(items, whole, places)
    BY DEF Sent
  <2>. QED BY <2>1, LenProperties DEF LaidOut
<1>2. 0 \in known
  BY <1>1
<1>3. ASSUME NEW j \in Nat, j \in known PROVE j + 1 \in known
  <2> SUFFICES ASSUME j + 1 <= n PROVE places[j + 1] >= 3
    OBVIOUS
  <2>1. j + 1 \in 1 .. n /\ (j + 1) - 1 = j /\ j <= n
    BY <1>1
  <2>2. ItemIn(j + 1, S, items, whole, places, E, told)
    BY <2>1, ItemInEnvelope
  <2> DEFINE p == places[j]
             length == Len(items[j + 1].payload)
             next == places[j + 1]
  <2>3. next = p + length + 4 /\ p \in Nat /\ length \in Nat
    BY <2>1, <2>2 DEF ItemIn
  <2>4. p >= 3
    BY <1>3, <2>1
  <2> HIDE DEF p, length, next, known
  <2>5. next >= 3
    BY ONLY <2>3, <2>4
  <2>. QED BY <2>5 DEF next
<1>4. Nat \subseteq known
  <2> HIDE DEF known
  <2>. QED BY <1>2, <1>3, EveryNumber
<1>. QED BY <1>1, <1>4

\* A sequence is all of its beginning.
LEMMA BeginningIsWhole ==
  ASSUME NEW U, NEW s \in Seq(U)
  PROVE  s = SubSeq(s, 1, Len(s))
<1> DEFINE t == SubSeq(s, 1, Len(s))
<1>1. Len(s) \in Nat /\ Len(s) \in 0 .. Len(s)
  OBVIOUS
<1>2. t \in Seq(U) /\ Len(t) = Len(s) /\ \A i \in 1 .. Len(s) : t[i] = s[i]
  BY <1>1, BeginningIs
<1> HIDE DEF t
<1>3. t = s
  BY <1>2, SeqEqual
<1>. QED BY <1>3 DEF t

\* Wherever an envelope is cut it is refused, or yields the events of the items
\* that begin it; and it yields all of them if no more than the last newline is
\* missing.
LEMMA CutAnswers ==
  ASSUME NEW T, NEW S, NEW items, NEW whole, NEW places, NEW E, NEW told,
         Sent(T, S, items, whole, places, E, told),
         NEW m, NEW raw, CutTo(whole, m, raw)
  PROVE  /\ \/ ParseEnvelope(raw) = Malformed
            \/ \E j \in 0 .. Len(items) : ParseEnvelope(raw) = Parsed(told[j])
         /\ m = Len(whole) \/ (m + 1 = Len(whole) /\ items # <<>>)
              => ParseEnvelope(raw) = Parsed(told[Len(items)])
<1> DEFINE n == Len(items)
           size == Len(whole)
           U == Alphabet(items, S)
           got == ParseEnvelope(raw)
<1>1. /\ raw \in Seq(U) /\ Len(raw) = m /\ m \in Nat
      /\ \A i \in 1 .. m : raw[i] = whole[i]
      /\ ItemsFrom(raw)[m] = Parsed(<<>>)
      /\ m >= 3 => \A k \in 0 .. n :
           places[k] <= m => got = Ahead(told[k], ItemsFrom(raw)[places[k]])
  BY Beginning
<1>2. /\ items \in Seq(T) /\ whole \in Seq(U) /\ LaidOut(items, whole, places)
      /\ Told(items, E, told)
  BY DEF Sent
<1>3. /\ n \in Nat /\ size \in Nat /\ m \in 0 .. size
      /\ places \in [0 .. n -> Nat] /\ places[0] = 3 /\ places[n] = size
      /\ told \in [0 .. n -> Seq(E)]
      /\ whole[1] = Open(FirstHeader) /\ whole[2] = Close
  <2>1. n \in Nat /\ size \in Nat
    BY <1>2, LenProperties
  <2>2. m \in 0 .. size
    BY DEF CutTo
  <2>. QED BY <1>2, <2>1, <2>2 DEF LaidOut, Told
<1>4. \A k \in 0 .. n : places[k] <= size
  BY PlacesWithin
<1>5. \A k \in 1 .. n : places[k] = m + 1 /\ m >= 3 => got = Parsed(told[k])
  BY CutAtNewline
<1>6. \A k \in 1 .. n : places[k - 1] <= m /\ m + 1 < places[k] /\ m >= 3
        => got \in {Malformed, Parsed(told[k - 1])}
  BY CutWithin
<1>7. items # <<>> => n # 0
  BY <1>2, EmptySeq
<1>8. n # 0 => places[n] >= 7
  <2> SUFFICES ASSUME n # 0 PROVE places[n] >= 7
    OBVIOUS
  <2>1. n \in 1 .. n
    BY <1>3
  <2>2. ItemIn(n, S, items, whole, places, E, told)
    BY <2>1, ItemInEnvelope
  <2> DEFINE p == places[n - 1]
             length == Len(items[n].payload)
             next == places[n]
  <2>3. next = p + length + 4 /\ p \in Nat /\ length \in Nat
    BY <2>2 DEF ItemIn
  <2>4. n - 1 \in 0 .. n
    BY <1>3, <2>1
  <2>5. p >= 3
    BY <2>4, PlacesPast
  <2> HIDE DEF p, length, next
  <2>6. next >= 7
    BY ONLY <2>3, <2>5
  <2>. QED BY <2>6 DEF next
<1> HIDE DEF n, size, U, got
<1>9. ASSUME m < 3 PROVE got = Malformed
  <2>1. Len(raw) < 3
    BY <1>1, <1>9
  <2>2. Len(raw) >= 1 => raw[1] = Open(FirstHeader)
    BY <1>1, <1>3
  <2>3. Len(raw) >= 2 => raw[2] = Close
    BY <1>1, <1>3
  <2>. QED BY <1>1, <2>1, <2>2, <2>3, HeaderCut DEF got
<1>10. ASSUME m = size PROVE got = Parsed(told[n])
  <2>1. n \in 0 .. n /\ 0 \in 0 .. n
    BY <1>3
  <2>2. m >= 3
    BY <1>3, <1>4, <1>10, <2>1
  <2>3. got = Ahead(told[n], ItemsFrom(raw)[m])
    <3>1. places[n] = m /\ m <= m
      BY <1>1, <1>3, <1>10
    <3>2. \A k \in 0 .. n :
            places[k] <= m => got = Ahead(told[k], ItemsFrom(raw)[places[k]])
      BY <1>1, <2>2
    <3>. QED BY <2>1, <3>1, <3>2
  <2>4. told[n] \in Seq(E)
    BY <1>3, <2>1
  <2>. QED BY <1>1, <2>3, <2>4, AheadEnds
<1>11. ASSUME m + 1 = size, n # 0 PROVE got = Parsed(told[n])
  <2>1. n \in 1 .. n
    BY <1>3, <1>11
  <2>2. m >= 3
    BY <1>1, <1>3, <1>8, <1>11
  <2>. QED BY <1>3, <1>5, <1>11, <2>1, <2>2
<1>12. ASSUME m >= 3, m < size
       PROVE  \/ got = Malformed
              \/ \E j \in 0 .. n : got = Parsed(told[j])
  <2> DEFINE past == {k \in 0 .. n : places[k] > m}
             k == Min(past)
  <2>1. past \in SUBSET Nat /\ n \in past
    BY <1>1, <1>3, <1>12
  <2>2. k \in past /\ \A j \in past : k <= j
    BY <2>1, LeastNumber
  <2> HIDE DEF k
  <2>3. k \in 0 .. n /\ places[k] > m
    BY <2>2
  <2>4. k # 0
    BY <1>3, <1>12, <1>1, <2>3
  <2>5. k \in 1 .. n /\ k - 1 \in 0 .. n /\ ~(k <= k - 1)
    BY <1>3, <2>3, <2>4
  <2>6. k - 1 \notin past
    BY <2>2, <2>5
  <2>7. places[k - 1] \in Nat /\ places[k] \in Nat
    BY <1>3, <2>5
  <2>8. places[k - 1] <= m
    BY <1>1, <2>5, <2>6, <2>7
  <2>9. CASE places[k] = m + 1
    BY <1>5, <1>12, <2>3, <2>5, <2>9
  <2>10. CASE places[k] # m + 1
    <3>1. m + 1 < places[k]
      BY <1>1, <2>3, <2>7, <2>10
    <3>2. got \in {Malformed, Parsed(told[k - 1])}
      BY <1>6, <1>12, <2>5, <2>8, <3>1
    <3>. QED BY <2>5, <3>2
  <2>. QED BY <2>9, <2>10
<1>13. \/ got = Malformed
       \/ \E j \in 0 .. n : got = Parsed(told[j])
  <2>1. n \in 0 .. n /\ (m < 3 \/ m = size \/ (m >= 3 /\ m < size))
    BY <1>1, <1>3
  <2>. QED BY <1>9, <1>10, <1>12, <2>1
<1>14. m = size \/ (m + 1 = size /\ items # <<>>) => got = Parsed(told[n])
  BY <1>7, <1>10, <1>11
<1>. QED BY <1>13, <1>14 DEF n, size, got

\* ParseEnvelope: whatever items a sender puts into an envelope, they are read as
\* it meant them, with or without the last newline; and an envelope cut short
\* anywhere is refused or yields the first of its events.
THEOREM EnvelopesAlwaysRead ==
  ASSUME NEW S, NEW T, NEW items \in Seq(T), Sendables(items, S), Width \in Nat,
         Len(Encoded(items)) < Width
  PROVE  ReadAsMeant(items) /\ CutShortIsSafe(items)
<1> DEFINE whole == Encoded(items)
           size == Len(whole)
           n == Len(items)
           E == {EventOf(items[i].payload) : i \in DOMAIN items}
                  \cup UNION {EventsRead(SubSeq(whole, 1, m)) : m \in 0 .. size}
<1>1. whole \in Seq(Alphabet(items, S))
  BY EncodedIsLaidOut
<1>2. PICK places : LaidOut(items, whole, places)
  BY EncodedIsLaidOut
<1>3. \A i \in DOMAIN items : EventOf(items[i].payload) \in E
  OBVIOUS
<1>4. \A m \in 0 .. size : EventsRead(SubSeq(whole, 1, m)) \subseteq E
  OBVIOUS
<1> HIDE DEF E
<1>5. PICK told : Told(items, E, told)
  BY <1>3, EventsAreTold
<1> HIDE DEF whole
<1>6. size \in Nat /\ size < Width /\ Width \in Nat \ {0}
  <2> DEFINE w == Width
  <2>1. size \in Nat /\ size < w /\ w \in Nat
    BY <1>1, LenProperties DEF whole
  <2> HIDE DEF size, w
  <2>2. w # 0
    BY ONLY <2>1
  <2>. QED BY <2>1, <2>2 DEF w
<1>7. Sent(T, S, items, whole, places, E, told)
  BY <1>1, <1>2, <1>3, <1>4, <1>5, <1>6 DEF Sent
<1>8. /\ told[n] = EventsIn(items)
      /\ \A k \in 0 .. n : IsPrefix(told[k], EventsIn(items))
  BY <1>5 DEF Told
<1>9. ASSUME NEW m \in 0 .. size
      PROVE  LET got == ParseEnvelope(SubSeq(whole, 1, m))
             IN  /\ \/ got = Malformed
                    \/ \E j \in 0 .. n : got = Parsed(told[j])
                 /\ m = size \/ (m + 1 = size /\ items # <<>>) => got = Parsed(told[n])
  <2> DEFINE raw == SubSeq(whole, 1, m)
  <2>1. CutTo(whole, m, raw)
    BY DEF CutTo
  <2> HIDE DEF raw
  <2>2. /\ \/ ParseEnvelope(raw) = Malformed
           \/ \E j \in 0 .. Len(items) : ParseEnvelope(raw) = Parsed(told[j])
        /\ m = Len(whole) \/ (m + 1 = Len(whole) /\ items # <<>>)
             => ParseEnvelope(raw) = Parsed(told[Len(items)])
    BY <1>7, <2>1, CutAnswers
  <2>. QED BY <2>2 DEF raw
<1>10. CutShortIsSafe(items)
  <2> SUFFICES ASSUME NEW m \in 0 .. size
               PROVE  LET got == ParseEnvelope(SubSeq(whole, 1, m))
                      IN  \/ got.result = "malformed"
                          \/ /\ got.result = "events"
                             /\ IsPrefix(got.events, EventsIn(items))
    BY DEF CutShortIsSafe, whole
  <2> DEFINE got == ParseEnvelope(SubSeq(whole, 1, m))
  <2>1. \/ got = Malformed
        \/ \E j \in 0 .. n : got = Parsed(told[j])
    BY <1>9
  <2> HIDE DEF got
  <2>2. CASE got = Malformed
    BY <2>2 DEF Malformed, got
  <2>3. CASE \E j \in 0 .. n : got = Parsed(told[j])
    <3>1. PICK j \in 0 .. n : got = Parsed(told[j])
      BY <2>3
    <3>2. got.result = "events" /\ got.events = told[j]
      BY <3>1 DEF Parsed
    <3>. QED BY <1>8, <3>2 DEF got
  <2>. QED BY <2>1, <2>2, <2>3
<1>11. ReadAsMeant(items)
  <2> SUFFICES ASSUME NEW raw \in {whole, Front(whole)}, items # <<>>
               PROVE  ParseEnvelope(raw) = Parsed(EventsIn(items))
    BY DEF ReadAsMeant, whole
  <2>1. size >= 3
    <3>1. \A k \in 0 .. n : places[k] >= 3
      BY <1>7, PlacesPast
    <3>2. n \in 0 .. n /\ places[n] = size
      BY <1>2, LenProperties DEF LaidOut
    <3>. QED BY <3>1, <3>2
  <2>2. size \in 0 .. size /\ size - 1 \in 0 .. size /\ (size - 1) + 1 = size
    BY <1>6, <2>1
  <2>3. whole = SubSeq(whole, 1, size)
    BY <1>1, BeginningIsWhole
  <2>4. Front(whole) = SubSeq(whole, 1, size - 1)
    BY DEF Front
  <2>5. ParseEnvelope(SubSeq(whole, 1, size)) = Parsed(told[n])
    BY <1>9, <2>2
  <2>6. ParseEnvelope(SubSeq(whole, 1, size - 1)) = Parsed(told[n])
    BY <1>9, <2>2
  <2>. QED BY <1>8, <2>3, <2>4, <2>5, <2>6
<1>. QED BY <1>10, <1>11

----------------------------------------------------------------------------
(***************************************************************************)
(* Types, and what senders are told                                        *)
(***************************************************************************)

\* What was done with the events of an answered request.
Honest(r) ==
  r.pc = "free" =>
    CASE r.answer = "200" -> r.sent = r.total
      [] r.answer = "503" -> r.sent < r.total
      [] r.answer = "gone" -> r.sent <= r.total
      [] OTHER            -> r.sent = 0

SlotsTyped ==
  /\ DOMAIN reqs = Slots
  /\ \A s \in Slots : IsRequest(reqs[s]) /\ Honest(reqs[s])

TableTyped ==
  /\ issued \in Nat
  /\ DOMAIN tokens \subseteq Names
  /\ \A n \in DOMAIN tokens : tokens[n] \in 1 .. issued
  /\ touched \subseteq Names

LimiterTyped ==
  /\ now \in 0 .. MaxTime
  /\ DOMAIN buckets \subseteq Names

\* Events of bodies that decode.
Sendable == UNION {Range(events) : events \in EventLists}

PipeTyped ==
  /\ channel \in Seq(Sendable) /\ Len(channel) <= ChannelCap
  /\ open \in BOOLEAN
  /\ taken \in Nat
  /\ metrics \in [accepted : Nat, limited : Nat]
  /\ metrics.accepted = taken + Len(channel)

Typed == SlotsTyped /\ TableTyped /\ LimiterTyped /\ PipeTyped

\* What parse_envelope makes of a body is a list.
LEMMA EventListsAre ==
  ASSUME NEW events \in EventLists
  PROVE  /\ events \in Seq(Sendable) /\ Len(events) \in Nat
         /\ Len(events) = 0 <=> events = <<>>
         /\ \A n \in 1 .. Len(events) : events[n] \in Sendable
<1>1. PICK body \in Bodies : Decoded(body) # Malformed /\ events = Decoded(body).events
  BY DEF EventLists
<1>2. events \in Seq(Range(events))
  <2> DEFINE raw == body.raw
             S == Range(raw)
  <2>1. raw \in Seq(S) /\ LengthsDeclared(raw) /\ LengthsFit(raw) /\ Width \in Nat \ {0}
    BY IngressAssumption
  <2>2. Decoded(body) = ParseEnvelope(raw)
    BY <1>1 DEF Decoded
  <2> HIDE DEF raw, S
  <2>3. PICK es \in Seq(EventsRead(raw)) : ParseEnvelope(raw) = Parsed(es)
    BY <1>1, <2>1, <2>2, ParserAnswers
  <2>4. events = es
    BY <1>1, <2>2, <2>3 DEF Parsed
  <2>. QED BY <2>3, <2>4 DEF Range
<1>3. \A n \in 1 .. Len(events) : events[n] \in Sendable
  BY <1>2 DEF Sendable, Range
<1>. QED
  BY <1>2, <1>3

\* The kinds of requests, one by one.
LEMMA RequestsAre ==
  /\ \A r : IsRequest(r) /\ r.pc \in {"lookup", "admit"} =>
       r \in [pc : {"lookup", "admit"}, name : Names, key : Nat, held : BOOLEAN]
  /\ \A r : IsRequest(r) /\ r.pc \in {"send", "touch"} =>
       /\ DOMAIN r = {"pc", "name", "key", "held", "events", "sent"}
       /\ r.name \in Names /\ r.held \in BOOLEAN /\ r.events \in EventLists
       /\ r.sent \in 0 .. Len(r.events)
       /\ r.pc = "send" <=> r.sent < Len(r.events)
BY DEF IsRequest, Free

\* An answered request is one, for any answer.
LEMMA FreeIs ==
  ASSUME NEW answer \in Answers, NEW sent \in Nat, NEW total \in Nat
  PROVE  /\ IsRequest(Free(answer, sent, total))
         /\ Free(answer, sent, total).pc = "free"
         /\ Free(answer, sent, total).answer = answer
         /\ Free(answer, sent, total).sent = sent
         /\ Free(answer, sent, total).total = total
BY DEF IsRequest, Free

\* A handler that goes on to a proper state leaves all in order.
LEMMA GotoTyped ==
  ASSUME SlotsTyped, NEW s \in Slots, NEW r, Goto(s, r), IsRequest(r), Honest(r)
  PROVE  SlotsTyped'
BY DEF SlotsTyped, Goto

\* So does one that answers before it has sent anything.
LEMMA AnswerTyped ==
  ASSUME SlotsTyped, NEW s \in Slots, Answer(s, "401") \/ Answer(s, "500") \/ Answer(s, "429")
                                        \/ Answer(s, "400") \/ Answer(s, "gone")
  PROVE  SlotsTyped'
<1>1. \A answer \in {"401", "500", "429", "400", "gone"} :
        IsRequest(Free(answer, 0, 0)) /\ Honest(Free(answer, 0, 0))
  <2>. SUFFICES ASSUME NEW answer \in {"401", "500", "429", "400", "gone"}
       PROVE  IsRequest(Free(answer, 0, 0)) /\ Honest(Free(answer, 0, 0))
    OBVIOUS
  <2>1. answer \in Answers /\ answer # "200" /\ answer # "503" /\ 0 \in Nat
    BY DEF Answers
  <2>2. /\ IsRequest(Free(answer, 0, 0))
        /\ Free(answer, 0, 0).answer = answer
        /\ Free(answer, 0, 0).sent = 0 /\ Free(answer, 0, 0).total = 0
    BY ONLY <2>1, FreeIs
  <2>. HIDE DEF Free
  <2>3. Honest(Free(answer, 0, 0))
    BY ONLY <2>1, <2>2 DEF Honest
  <2>. QED
    BY <2>2, <2>3
<1>. QED
  BY <1>1, GotoTyped DEF Answer

\* So does a new table of tokens, that the requests take note of.
LEMMA HeldTyped ==
  ASSUME SlotsTyped, NEW table, reqs' = Held(table)
  PROVE  SlotsTyped'
<1>1. DOMAIN reqs' = Slots
  BY DEF Held
<1>. SUFFICES ASSUME NEW s \in Slots PROVE IsRequest(reqs'[s]) /\ Honest(reqs'[s])
  BY <1>1 DEF SlotsTyped
<1> DEFINE r == reqs[s]
           holds == r.name \in DOMAIN table /\ table[r.name] = r.key
           q == [r EXCEPT !.held = r.held \/ holds]
<1>2. IsRequest(r) /\ Honest(r)
  BY DEF SlotsTyped
<1>3. CASE r.pc = "free"
  BY <1>2, <1>3 DEF Held
<1>4. CASE r.pc # "free"
  <2>1. reqs'[s] = q
    BY <1>4 DEF Held
  <2>2. holds \in BOOLEAN
    OBVIOUS
  <2>. HIDE DEF holds, r
  <2>3. r.pc \in {"lookup", "admit"} \/ r.pc \in {"send", "touch"}
    BY <1>2, <1>4 DEF IsRequest
  <2>4. CASE r.pc \in {"lookup", "admit"}
    <3>1. r \in [pc : {"lookup", "admit"}, name : Names, key : Nat, held : BOOLEAN]
      BY <1>2, <2>4, RequestsAre
    <3>2. /\ q \in [pc : {"lookup", "admit"}, name : Names, key : Nat, held : BOOLEAN]
          /\ q.pc # "free"
      BY <2>2, <3>1
    <3>. QED
      BY <2>1, <3>2 DEF IsRequest, Honest
  <2>5. CASE r.pc \in {"send", "touch"}
    <3>1. /\ DOMAIN r = {"pc", "name", "key", "held", "events", "sent"}
          /\ r.name \in Names /\ r.held \in BOOLEAN /\ r.events \in EventLists
          /\ r.sent \in 0 .. Len(r.events)
          /\ r.pc = "send" <=> r.sent < Len(r.events)
      BY <1>2, <2>5, RequestsAre
    <3>2. /\ DOMAIN q = DOMAIN r /\ q.pc = r.pc /\ q.name = r.name
          /\ q.events = r.events /\ q.sent = r.sent
          /\ q.held = (r.held \/ holds)
      BY <3>1
    <3>. HIDE DEF q
    <3>3. q.held \in BOOLEAN
      BY <2>2, <3>1, <3>2
    <3>. QED
      BY <2>1, <2>5, <3>1, <3>2, <3>3 DEF IsRequest, Honest
  <2>. QED
    BY <2>3, <2>4, <2>5
<1>. QED
  BY <1>3, <1>4

\* A request comes in.
LEMMA AskTyped ==
  ASSUME Typed, NEW s \in Slots, NEW n \in Names, NEW key \in 0 .. issued, Ask(s, n, key)
  PROVE  SlotsTyped'
<1>0. SlotsTyped /\ key \in Nat
  BY DEF Typed, TableTyped
<1>1. CASE RequireAuth /\ key = NoKey
  BY <1>0, <1>1, AnswerTyped DEF Ask
<1>2. CASE ~(RequireAuth /\ key = NoKey)
  <2> DEFINE q == [pc |-> IF RequireAuth THEN "lookup" ELSE "admit",
                   name |-> n, key |-> key, held |-> Opens(key, n)]
  <2>1. Goto(s, q)
    BY <1>2 DEF Ask
  <2>2. Opens(key, n) \in BOOLEAN
    BY DEF Opens
  <2>3. q \in [pc : {"lookup", "admit"}, name : Names, key : Nat, held : BOOLEAN]
        /\ q.pc # "free"
    BY <1>0, <2>2
  <2>. HIDE DEF q
  <2>4. IsRequest(q) /\ Honest(q)
    BY <2>3 DEF IsRequest, Honest
  <2>. QED
    BY <1>0, <2>1, <2>4, GotoTyped
<1>. QED
  BY <1>1, <1>2

\* What is known of a request whose events are being sent.
LEMMA SendingIs ==
  ASSUME SlotsTyped, NEW s \in Slots, reqs[s].pc \in {"send", "touch"}
  PROVE  LET r == reqs[s] IN
         /\ DOMAIN r = {"pc", "name", "key", "held", "events", "sent"}
         /\ r.name \in Names /\ r.held \in BOOLEAN /\ r.events \in EventLists
         /\ r.sent \in Nat /\ Len(r.events) \in Nat /\ r.sent <= Len(r.events)
         /\ r.pc = "send" <=> r.sent < Len(r.events)
<1> DEFINE r == reqs[s]
<1>1. IsRequest(r)
  BY DEF SlotsTyped
<1>. HIDE DEF r
<1>2. /\ DOMAIN r = {"pc", "name", "key", "held", "events", "sent"}
      /\ r.name \in Names /\ r.held \in BOOLEAN /\ r.events \in EventLists
      /\ r.sent \in 0 .. Len(r.events)
      /\ r.pc = "send" <=> r.sent < Len(r.events)
  BY <1>1, RequestsAre DEF r
<1>3. Len(r.events) \in Nat
  BY <1>2, EventListsAre
<1>. QED
  BY <1>2, <1>3 DEF r

\* events.send: one more is sent, or the request is answered 503 with events
\* left.
LEMMA SendTyped ==
  ASSUME Typed, NEW s \in Slots, Send(s)
  PROVE  SlotsTyped' /\ PipeTyped'
<1> DEFINE r == reqs[s]
           n == r.sent + 1
           next == IF n = Len(r.events) THEN "touch" ELSE "send"
           q == [r EXCEPT !.sent = n, !.pc = next]
<1>0. SlotsTyped /\ PipeTyped /\ r.pc = "send"
  BY DEF Typed, Send
<1>1. /\ DOMAIN r = {"pc", "name", "key", "held", "events", "sent"}
      /\ r.name \in Names /\ r.held \in BOOLEAN /\ r.events \in EventLists
      /\ r.sent \in Nat /\ Len(r.events) \in Nat /\ r.sent < Len(r.events)
  BY <1>0, SendingIs
<1>2. CASE open
  <2>1. /\ Len(channel) < ChannelCap /\ channel' = Append(channel, r.events[n])
        /\ metrics' = [metrics EXCEPT !.accepted = @ + 1]
        /\ Goto(s, q) /\ UNCHANGED <<taken, open>>
    BY <1>2 DEF Send
  <2>. HIDE DEF r
  <2>2. /\ DOMAIN q = DOMAIN r /\ q.pc = next /\ q.sent = n
        /\ q.name = r.name /\ q.held = r.held /\ q.events = r.events
    BY <1>1
  <2>3. n \in 0 .. Len(r.events) /\ n \in 1 .. Len(r.events) /\ (next = "send" <=> n < Len(r.events))
        /\ next \in {"send", "touch"}
    BY <1>1
  <2>. HIDE DEF q, next, n
  <2>4. IsRequest(q) /\ Honest(q)
    BY <1>1, <2>2, <2>3 DEF IsRequest, Honest
  <2>5. SlotsTyped'
    BY <1>0, <2>1, <2>4, GotoTyped
  <2>6. r.events[n] \in Sendable
    BY <1>1, <2>3, EventListsAre
  <2>7. PipeTyped'
    BY <1>0, <2>1, <2>6, IngressAssumption DEF PipeTyped
  <2>. QED
    BY <2>5, <2>7
<1>3. CASE ~open
  <2> DEFINE f == Free("503", r.sent, Len(r.events))
  <2>1. Goto(s, f) /\ UNCHANGED <<channel, metrics, taken, open>>
    BY <1>3 DEF Send
  <2>. HIDE DEF r
  <2>2. IsRequest(f) /\ f.answer = "503" /\ f.sent = r.sent /\ f.total = Len(r.events)
    BY <1>1, FreeIs DEF Answers
  <2>. HIDE DEF f
  <2>3. Honest(f)
    BY <1>1, <2>2 DEF Honest
  <2>. QED
    BY <1>0, <2>1, <2>2, <2>3, GotoTyped DEF PipeTyped
<1>. QED
  BY <1>2, <1>3

\* touch_project_used comes after the last event.
LEMMA TouchTyped ==
  ASSUME SlotsTyped, NEW s \in Slots, Touch(s)
  PROVE  SlotsTyped'
<1> DEFINE r == reqs[s]
           f == Free("200", r.sent, Len(r.events))
<1>1. r.pc = "touch" /\ Goto(s, f)
  BY DEF Touch
<1>2. r.sent \in Nat /\ Len(r.events) \in Nat /\ r.sent = Len(r.events)
  BY <1>1, SendingIs
<1>. HIDE DEF r
<1>3. IsRequest(f) /\ f.answer = "200" /\ f.sent = r.sent /\ f.total = Len(r.events)
  BY <1>2, FreeIs DEF Answers
<1>. HIDE DEF f
<1>4. Honest(f)
  BY <1>2, <1>3 DEF Honest
<1>. QED
  BY <1>1, <1>3, <1>4, GotoTyped

\* A client that goes away has had no more sent than there was.
LEMMA DisconnectTyped ==
  ASSUME SlotsTyped, NEW s \in Slots, Disconnect(s)
  PROVE  SlotsTyped'
<1> DEFINE r == reqs[s]
           f == Free("gone", r.sent, Len(r.events))
<1>1. CASE r.pc = "lookup"
  BY <1>1, AnswerTyped DEF Disconnect
<1>2. CASE r.pc # "lookup"
  <2>1. r.pc \in {"send", "touch"} /\ Goto(s, f)
    BY <1>2 DEF Disconnect
  <2>2. r.sent \in Nat /\ Len(r.events) \in Nat /\ r.sent <= Len(r.events)
    BY <2>1, SendingIs
  <2>. HIDE DEF r
  <2>3. IsRequest(f) /\ f.answer = "gone" /\ f.sent = r.sent /\ f.total = Len(r.events)
    BY <2>2, FreeIs DEF Answers
  <2>. HIDE DEF f
  <2>4. Honest(f)
    BY <2>2, <2>3 DEF Honest
  <2>. QED
    BY <2>1, <2>3, <2>4, GotoTyped
<1>. QED
  BY <1>1, <1>2

\* The steps before the events are sent.
LEMMA ChecksTyped ==
  ASSUME SlotsTyped, NEW s \in Slots,
         Lookup(s) \/ LookupFails(s) \/ Refuse(s) \/ \E body \in Bodies : Admit(s, body)
  PROVE  SlotsTyped'
<1> DEFINE r == reqs[s]
           Early == [pc : {"lookup", "admit"}, name : Names, key : Nat, held : BOOLEAN]
<1>1. ASSUME r.pc \in {"lookup", "admit"} PROVE r \in Early
  <2>1. IsRequest(r)
    BY DEF SlotsTyped
  <2>. HIDE DEF r
  <2>. QED
    BY <1>1, <2>1, RequestsAre
<1>2. CASE Lookup(s)
  <2>1. CASE Opens(reqs[s].key, reqs[s].name)
    <3> DEFINE q == [r EXCEPT !.pc = "admit"]
    <3>1. Goto(s, q) /\ r \in Early
      BY <1>1, <1>2, <2>1 DEF Lookup
    <3>2. q \in Early /\ q.pc # "free"
      BY <3>1
    <3>. HIDE DEF q
    <3>3. IsRequest(q) /\ Honest(q)
      BY <3>2 DEF IsRequest, Honest
    <3>. QED
      BY <3>1, <3>3, GotoTyped
  <2>2. CASE ~Opens(reqs[s].key, reqs[s].name)
    BY <1>2, <2>2, AnswerTyped DEF Lookup
  <2>. QED
    BY <2>1, <2>2
<1>3. CASE LookupFails(s)
  BY <1>3, AnswerTyped DEF LookupFails
<1>4. CASE Refuse(s)
  BY <1>4, AnswerTyped DEF Refuse
<1>5. ASSUME NEW body \in Bodies, Admit(s, body) PROVE SlotsTyped'
  <2>1. CASE Decoded(body) = Malformed
    BY <1>5, <2>1, AnswerTyped DEF Admit
  <2>2. CASE Decoded(body) # Malformed
    <3> DEFINE events == Decoded(body).events
               pc == IF events = <<>> THEN "touch" ELSE "send"
               q == [pc |-> pc, name |-> r.name, key |-> r.key, held |-> r.held,
                     events |-> events, sent |-> 0]
    <3>1. Goto(s, q) /\ r \in Early
      BY <1>1, <1>5, <2>2 DEF Admit, Proceed
    <3>2. events \in EventLists
      BY <2>2 DEF EventLists
    <3>. HIDE DEF events
    <3>3. Len(events) \in Nat /\ (Len(events) = 0 <=> events = <<>>)
      BY <3>2, EventListsAre
    <3>4. pc \in {"send", "touch"} /\ 0 \in 0 .. Len(events) /\ (pc = "send" <=> 0 < Len(events))
      BY <3>3
    <3>5. /\ DOMAIN q = {"pc", "name", "key", "held", "events", "sent"}
          /\ q.pc = pc /\ q.name \in Names /\ q.held \in BOOLEAN
          /\ q.events = events /\ q.sent = 0
      BY <3>1
    <3>. HIDE DEF q, pc
    <3>6. IsRequest(q) /\ Honest(q)
      BY <3>2, <3>4, <3>5 DEF IsRequest, Honest
    <3>. QED
      BY <3>1, <3>6, GotoTyped
  <2>. QED
    BY <2>1, <2>2
<1>. QED
  BY <1>2, <1>3, <1>4, <1>5

\* The handlers' states through every step.
LEMMA SlotsStayTyped ==
  ASSUME Typed, [Next]_vars
  PROVE  SlotsTyped'
<1>0. SlotsTyped
  BY DEF Typed
<1>1. ASSUME NEW s \in Slots, Handler(s) PROVE SlotsTyped'
  BY <1>0, <1>1, ChecksTyped, SendTyped, TouchTyped, DisconnectTyped DEF Handler
<1>2. ASSUME NEW n \in Names, Rotate(n) \/ Create(n) PROVE SlotsTyped'
  <2>1. reqs' = Held(tokens')
    BY <1>2 DEF Rotate, Create
  <2>. QED
    BY <1>0, <2>1, HeldTyped
<1>3. ASSUME NEW n \in Names, NEW m \in Names, Rename(n, m) PROVE SlotsTyped'
  <2>1. reqs' = Held(tokens')
    BY <1>3 DEF Rename
  <2>. QED
    BY <1>0, <2>1, HeldTyped
<1>4. CASE UNCHANGED reqs
  BY <1>0, <1>4 DEF SlotsTyped
<1>5. Tick \/ Take \/ CloseChannel \/ UNCHANGED vars => UNCHANGED reqs
  BY DEF Tick, Take, CloseChannel, vars
<1>. QED
  BY <1>1, <1>2, <1>3, <1>4, <1>5, AskTyped DEF Next

\* The channel and its counters through every step: only a send and a take
\* move them.
LEMMA PipeStaysTyped ==
  ASSUME Typed, [Next]_vars
  PROVE  PipeTyped'
<1>0. PipeTyped
  BY DEF Typed
<1>1. CASE UNCHANGED <<pipe, metrics>>
  BY <1>0, <1>1 DEF PipeTyped, pipe
<1>2. ASSUME NEW s \in Slots, Refuse(s) PROVE PipeTyped'
  <2>1. metrics' = [metrics EXCEPT !.limited = @ + 1] /\ UNCHANGED <<channel, taken, open>>
    BY <1>2 DEF Refuse, pipe
  <2>. QED
    BY <1>0, <2>1 DEF PipeTyped
<1>3. CASE Take
  <2>1. channel # <<>> /\ channel' = Tail(channel) /\ taken' = taken + 1
        /\ UNCHANGED <<open, metrics>>
    BY <1>3 DEF Take
  <2>2. Tail(channel) \in Seq(Sendable) /\ Len(Tail(channel)) = Len(channel) - 1
        /\ Len(channel) \in Nat \ {0}
    BY <1>0, <2>1 DEF PipeTyped
  <2>. QED
    BY <1>0, <2>1, <2>2, IngressAssumption DEF PipeTyped
<1>4. CASE CloseChannel
  BY <1>0, <1>4 DEF CloseChannel, PipeTyped
<1>5. ASSUME NEW s \in Slots, Handler(s) PROVE PipeTyped'
  <2>1. Lookup(s) \/ LookupFails(s) \/ Touch(s) \/ Disconnect(s)
          => UNCHANGED <<pipe, metrics>>
    BY DEF Lookup, LookupFails, Touch, Disconnect
  <2>2. \A body \in Bodies : Admit(s, body) => UNCHANGED <<pipe, metrics>>
    BY DEF Admit
  <2>. QED
    BY <1>1, <1>2, <1>5, <2>1, <2>2, SendTyped DEF Handler
<1>6. /\ \A s \in Slots, n \in Names, key \in 0 .. issued :
           Ask(s, n, key) => UNCHANGED <<pipe, metrics>>
      /\ \A n \in Names : Rotate(n) \/ Create(n) => UNCHANGED <<pipe, metrics>>
      /\ \A n, m \in Names : Rename(n, m) => UNCHANGED <<pipe, metrics>>
      /\ Tick \/ UNCHANGED vars => UNCHANGED <<pipe, metrics>>
  BY DEF Ask, Rotate, Create, Rename, Tick, vars
<1>. QED
  BY <1>1, <1>3, <1>4, <1>5, <1>6 DEF Next

\* The projects table through every step: tokens are never issued twice.
LEMMA TableStaysTyped ==
  ASSUME Typed, [Next]_vars
  PROVE  TableTyped'
<1>0. TableTyped
  BY DEF Typed
<1>1. CASE UNCHANGED <<project, touched>>
  BY <1>0, <1>1 DEF TableTyped, project
<1>2. ASSUME NEW n \in Names, Rotate(n) PROVE TableTyped'
  <2>1. n \in DOMAIN tokens /\ tokens' = [tokens EXCEPT ![n] = issued + 1]
        /\ issued' = issued + 1 /\ touched' = touched
    BY <1>2 DEF Rotate
  <2>2. 1 .. issued \subseteq 1 .. issued + 1 /\ issued + 1 \in 1 .. issued + 1
    BY <1>0 DEF TableTyped
  <2>. QED
    BY <1>0, <2>1, <2>2 DEF TableTyped
<1>3. ASSUME NEW n \in Names, NEW m \in Names, Rename(n, m) PROVE TableTyped'
  BY <1>0, <1>3 DEF Rename, TableTyped
<1>4. ASSUME NEW n \in Names, Create(n) PROVE TableTyped'
  <2>1. /\ tokens' = [m \in DOMAIN tokens \cup {n} |-> IF m = n THEN issued + 1 ELSE tokens[m]]
        /\ issued' = issued + 1 /\ touched' = touched
    BY <1>4 DEF Create
  <2>2. 1 .. issued \subseteq 1 .. issued + 1 /\ issued + 1 \in 1 .. issued + 1
    BY <1>0 DEF TableTyped
  <2>. QED
    BY <1>0, <2>1, <2>2 DEF TableTyped
<1>5. ASSUME NEW s \in Slots, Handler(s) PROVE TableTyped'
  <2>1. ASSUME Touch(s) \/ Disconnect(s) PROVE TableTyped'
    <3>1. touched' \subseteq touched \cup DOMAIN tokens /\ UNCHANGED <<tokens, issued>>
      BY <2>1 DEF Touch, Disconnect, project
    <3>. QED
      BY <1>0, <3>1 DEF TableTyped
  <2>2. Lookup(s) \/ LookupFails(s) \/ Refuse(s) \/ Send(s) => UNCHANGED <<project, touched>>
    BY DEF Lookup, LookupFails, Refuse, Send
  <2>3. \A body \in Bodies : Admit(s, body) => UNCHANGED <<project, touched>>
    BY DEF Admit
  <2>. QED
    BY <1>1, <1>5, <2>1, <2>2, <2>3 DEF Handler
<1>6. /\ \A s \in Slots, n \in Names, key \in 0 .. issued :
           Ask(s, n, key) => UNCHANGED <<project, touched>>
      /\ Tick \/ Take \/ CloseChannel \/ UNCHANGED vars => UNCHANGED <<project, touched>>
  BY DEF Ask, Tick, Take, CloseChannel, vars
<1>. QED
  BY <1>1, <1>2, <1>3, <1>4, <1>5, <1>6 DEF Next

\* The clock and the limiter's map through every step.
LEMMA LimiterStaysTyped ==
  ASSUME Typed, [Next]_vars
  PROVE  LimiterTyped'
<1>0. LimiterTyped
  BY DEF Typed
<1>1. CASE UNCHANGED <<now, limiter>>
  BY <1>0, <1>1 DEF LimiterTyped, limiter
<1>2. ASSUME NEW n \in Names, Checked(n), now' = now PROVE LimiterTyped'
  BY <1>0, <1>2 DEF Checked, LimiterTyped
<1>3. CASE Tick
  BY <1>0, <1>3, IngressAssumption DEF Tick, LimiterTyped, limiter
<1>4. ASSUME NEW s \in Slots, Handler(s) PROVE LimiterTyped'
  <2>1. reqs[s].pc = "admit" => reqs[s].name \in Names
    <3>1. IsRequest(reqs[s])
      BY DEF Typed, SlotsTyped
    <3>. QED
      BY <3>1 DEF IsRequest
  <2>2. CASE Refuse(s)
    BY <1>2, <2>1, <2>2 DEF Refuse
  <2>3. ASSUME NEW body \in Bodies, Admit(s, body) PROVE LimiterTyped'
    BY <1>2, <2>1, <2>3 DEF Admit
  <2>4. Lookup(s) \/ LookupFails(s) \/ Send(s) \/ Touch(s) \/ Disconnect(s)
          => UNCHANGED <<now, limiter>>
    BY DEF Lookup, LookupFails, Send, Touch, Disconnect
  <2>. QED
    BY <1>1, <1>4, <2>2, <2>3, <2>4 DEF Handler
<1>5. /\ \A s \in Slots, n \in Names, key \in 0 .. issued :
           Ask(s, n, key) => UNCHANGED <<now, limiter>>
      /\ \A n \in Names : Rotate(n) \/ Create(n) => UNCHANGED <<now, limiter>>
      /\ \A n, m \in Names : Rename(n, m) => UNCHANGED <<now, limiter>>
      /\ Take \/ CloseChannel \/ UNCHANGED vars => UNCHANGED <<now, limiter>>
  BY DEF Ask, Rotate, Create, Rename, Take, CloseChannel, vars
<1>. QED
  BY <1>1, <1>3, <1>4, <1>5 DEF Next

\* The types at the start and after every step.
LEMMA InitTyped == Init => Typed
<1>. SUFFICES ASSUME Init PROVE Typed
  OBVIOUS
<1>1. SlotsTyped
  <2>1. IsRequest(Free("none", 0, 0)) /\ Honest(Free("none", 0, 0))
    <3>1. /\ IsRequest(Free("none", 0, 0)) /\ Free("none", 0, 0).answer = "none"
          /\ Free("none", 0, 0).sent = 0
      <4>1. "none" \in Answers /\ 0 \in Nat
        BY DEF Answers
      <4>. QED BY ONLY <4>1, FreeIs
    <3>. QED
      BY <3>1 DEF Honest
  <2>. QED
    BY <2>1 DEF Init, SlotsTyped
<1>2. TableTyped /\ LimiterTyped
  BY IngressAssumption DEF Init, TableTyped, LimiterTyped
<1>3. PipeTyped
  BY IngressAssumption DEF Init, PipeTyped
<1>. QED
  BY <1>1, <1>2, <1>3 DEF Typed

\* No step leaves the types.
LEMMA NextTyped == Typed /\ [Next]_vars => Typed'
BY SlotsStayTyped, PipeStaysTyped, TableStaysTyped, LimiterStaysTyped DEF Typed

\* Types, accounts and requests together are what TypeOK says.
LEMMA TypedIsTypeOK == Inv /\ Typed => TypeOK
<1>. SUFFICES ASSUME Inv, Typed PROVE TypeOK
  OBVIOUS
<1>1. \A n \in DOMAIN buckets : buckets[n] \in Bucket
  BY DEF Inv, Ledger, Account, Balanced, Typed, LimiterTyped
<1>2. ASSUME NEW n \in Names, NEW i \in DOMAIN grants[n] PROVE grants[n][i] \in 0 .. now
  <2>1. n \in DOMAIN buckets
    BY <1>2 DEF Inv, Ledger, Account
  <2>2. /\ grants[n] \in Seq(Nat) /\ buckets[n].last \in Nat /\ buckets[n].last <= now
        /\ \A j \in 1 .. Len(grants[n]) : grants[n][j] <= buckets[n].last
    BY <2>1 DEF Inv, Ledger, Account, Balanced, Bucket
  <2>3. grants[n][i] \in Nat /\ grants[n][i] <= buckets[n].last /\ now \in Nat
    BY <1>2, <2>2 DEF Inv, Ledger
  <2>. QED
    BY <2>2, <2>3
<1>. QED
  BY <1>1, <1>2 DEF TypeOK, Typed, SlotsTyped, TableTyped, LimiterTyped, PipeTyped

\* Every handler is in one of its awaits with the events it has still to send,
\* no bucket holds more than the burst and the channel no more than it can, for
\* every number of requests at once (ingest_envelope, TokenBucket).
THEOREM IngressTyped == Spec => []TypeOK
<1>. QED
  BY InitInv, NextInv, InitTyped, NextTyped, TypedIsTypeOK, PTL DEF Spec

\* Whatever fails, whenever the channel closes and whichever clients go away, a
\* sender is told what was done with its events, and every event counted as
\* accepted was handed to the digest task or waits for it (ingest_envelope).
THEOREM AnswersAreHonest == Spec => []AnswersMatchSends
<1>1. Typed => AnswersMatchSends
  BY DEF Typed, SlotsTyped, PipeTyped, Honest, AnswersMatchSends
<1>. QED
  BY <1>1, InitTyped, NextTyped, PTL DEF Spec

----------------------------------------------------------------------------
(***************************************************************************)
(* Fingerprints                                                            *)
(***************************************************************************)

\* UTF-8 has no byte 255.
Str == Seq(0 .. 254)

Opt(S) == {<<>>} \cup {<<x>> : x \in S}

FrameType == [function : Opt(Str), filename : Opt(Str)]
ExceptionType == [type : Opt(Str), frames : Opt(Seq(FrameType))]
EventType == [id : Seq(0 .. 255), exceptions : Opt(Seq(ExceptionType)), message : Opt(Str)]

\* A field's bytes: its last is 255 and no other is.
Closed(f) ==
  /\ f \in Seq(0 .. 255) /\ Len(f) >= 2
  /\ f[1] \in {0, 1} /\ f[Len(f)] = 255
  /\ \A i \in 1 .. (Len(f) - 1) : f[i] # 255

\* write_opt_str, written out.
LEMMA FieldWritten ==
  /\ Closed(Field(<<>>)) /\ Field(<<>>)[1] = 0
  /\ \A s \in Str : LET f == Field(<<s>>) IN
       /\ Closed(f) /\ f[1] = 1 /\ Len(f) = Len(s) + 2
       /\ \A i \in 1 .. Len(s) : f[i + 1] = s[i]
<1>0. \A n \in 0 .. 255 : <<n>> \in Seq(0 .. 255) /\ Len(<<n>>) = 1 /\ <<n>>[1] = n
  OBVIOUS
<1>1. Closed(Field(<<>>)) /\ Field(<<>>)[1] = 0
  <2> DEFINE f == Field(<<>>)
  <2>1. f = <<0>> \o <<255>>
    BY DEF Field
  <2> HIDE DEF f
  <2>2. /\ f \in Seq(0 .. 255) /\ Len(f) = 2
        /\ \A i \in 1 .. 2 : f[i] = IF i <= 1 THEN <<0>>[i] ELSE <<255>>[i - 1]
    BY <1>0, <2>1, ConcatProperties
  <2>3. f[1] = 0 /\ f[2] = 255
    BY <1>0, <2>2
  <2>4. Closed(f)
    BY <2>2, <2>3 DEF Closed
  <2>. QED BY <2>3, <2>4 DEF f
<1>2. ASSUME NEW s \in Str
      PROVE  LET f == Field(<<s>>) IN
             /\ Closed(f) /\ f[1] = 1 /\ Len(f) = Len(s) + 2
             /\ \A i \in 1 .. Len(s) : f[i + 1] = s[i]
  <2> DEFINE f == Field(<<s>>)
             head == <<1>> \o s
  <2>1. f = head \o <<255>>
    BY DEF Field
  <2>2. s \in Seq(0 .. 255) /\ Len(s) \in Nat /\ \A i \in 1 .. Len(s) : s[i] \in 0 .. 254
    <3>1. \A i \in 1 .. Len(s) : s[i] \in 0 .. 254
      <4> HIDE DEF f, head
      <4>1. s \in Seq(0 .. 254)
        BY DEF Str
      <4>. QED BY <4>1, ElementOfSeq
    <3>2. s \in Seq(0 .. 255)
      BY <3>1 DEF Str
    <3>. QED BY <3>1, <3>2
  <2>3. /\ head \in Seq(0 .. 255) /\ Len(head) = 1 + Len(s)
        /\ \A i \in 1 .. (1 + Len(s)) : head[i] = IF i <= 1 THEN <<1>>[i] ELSE s[i - 1]
    BY <1>0, <2>2, ConcatProperties
  <2> HIDE DEF head, f
  <2>4. /\ f \in Seq(0 .. 255) /\ Len(f) = Len(s) + 2
        /\ \A i \in 1 .. (Len(s) + 2) : f[i] = IF i <= Len(head) THEN head[i] ELSE <<255>>[i - Len(head)]
    BY <1>0, <2>1, <2>2, <2>3, ConcatProperties
  <2>5. f[1] = 1
    BY <1>0, <2>2, <2>3, <2>4
  <2>6. \A i \in 1 .. Len(s) : f[i + 1] = s[i]
    BY <2>2, <2>3, <2>4
  <2>7. f[Len(s) + 2] = 255
    BY <1>0, <2>2, <2>3, <2>4
  <2>8. ASSUME NEW i \in 1 .. (Len(f) - 1) PROVE f[i] # 255
    <3>1. CASE i = 1
      BY <2>5, <3>1
    <3>2. CASE i # 1
      <4>1. i - 1 \in 1 .. Len(s) /\ f[(i - 1) + 1] = s[i - 1]
        BY <2>2, <2>4, <2>6, <3>2
      <4>2. (i - 1) + 1 = i
        OBVIOUS
      <4>3. s[i - 1] # 255
        <5> DEFINE k == i - 1
        <5>1. k \in 1 .. Len(s)
          BY <4>1
        <5> HIDE DEF k
        <5>2. s[k] \in 0 .. 254
          BY <2>2, <5>1
        <5>3. \A v \in 0 .. 254 : v # 255
          OBVIOUS
        <5>. QED BY <5>2, <5>3 DEF k
      <4>. QED BY <4>1, <4>2, <4>3
    <3>. QED BY <3>1, <3>2
  <2>9. Closed(f)
    BY <2>2, <2>4, <2>5, <2>7, <2>8 DEF Closed
  <2>. QED BY <2>4, <2>5, <2>6, <2>9 DEF f
<1>. QED BY <1>1, <1>2

\* Every optional string's field is closed.
LEMMA FieldClosed == \A s \in Opt(Str) : Closed(Field(s))
BY FieldWritten DEF Opt

\* Different strings, one of which may be absent, have different fields.
LEMMA FieldTells ==
  ASSUME NEW s \in Opt(Str), NEW t \in Opt(Str), Field(s) = Field(t)
  PROVE  s = t
<1>1. CASE s = <<>> /\ t = <<>>
  BY <1>1
<1>2. ASSUME NEW x \in Str, (s = <<x>> /\ t = <<>>) \/ (s = <<>> /\ t = <<x>>) PROVE FALSE
  BY <1>2, FieldWritten
<1>3. ASSUME NEW x \in Str, NEW y \in Str, s = <<x>>, t = <<y>> PROVE x = y
  <2>1. Field(<<x>>) = Field(<<y>>)
    BY <1>3
  <2>2. Len(x) \in Nat /\ Len(y) \in Nat
    BY DEF Str
  <2>3. Len(x) = Len(y)
    BY <2>1, <2>2, FieldWritten
  <2>4. \A i \in 1 .. Len(x) : x[i] = y[i]
    BY <2>1, <2>3, FieldWritten
  <2>. QED BY <2>3, <2>4, SeqEqual DEF Str
<1>. QED BY <1>1, <1>2, <1>3 DEF Opt

\* No closed sequence is the beginning of another: what follows a field cannot be
\* taken for part of it.
LEMMA ClosedPrefix ==
  \A f, g, x, y :
    /\ Closed(f) /\ Closed(g) /\ x \in Seq(0 .. 255) /\ y \in Seq(0 .. 255)
    /\ f \o x = g \o y
    => f = g /\ x = y
<1> TAKE f, g, x, y
<1> HAVE /\ Closed(f) /\ Closed(g) /\ x \in Seq(0 .. 255) /\ y \in Seq(0 .. 255)
         /\ f \o x = g \o y
<1> DEFINE w == f \o x
<1>1. f \in Seq(0 .. 255) /\ g \in Seq(0 .. 255)
  BY DEF Closed
<1>2. /\ Len(w) = Len(f) + Len(x)
      /\ \A i \in 1 .. (Len(f) + Len(x)) : w[i] = IF i <= Len(f) THEN f[i] ELSE x[i - Len(f)]
  BY <1>1, ConcatProperties
<1>3. /\ Len(w) = Len(g) + Len(y)
      /\ \A i \in 1 .. (Len(g) + Len(y)) : w[i] = IF i <= Len(g) THEN g[i] ELSE y[i - Len(g)]
  <2>1. w = g \o y
    OBVIOUS
  <2> HIDE DEF w
  <2>. QED BY <1>1, <2>1, ConcatProperties
<1> HIDE DEF w
<1>4. Len(f) \in Nat /\ Len(g) \in Nat /\ Len(x) \in Nat /\ Len(y) \in Nat
  BY <1>1
<1>5. Len(f) >= 2 /\ Len(g) >= 2 /\ f[Len(f)] = 255 /\ g[Len(g)] = 255
  BY DEF Closed
<1>6. ~(Len(f) < Len(g))
  <2> SUFFICES ASSUME Len(f) < Len(g) PROVE FALSE
    OBVIOUS
  <2>1. w[Len(f)] = f[Len(f)] /\ w[Len(f)] = g[Len(f)]
    BY <1>2, <1>3, <1>4, <1>5
  <2>2. g[Len(f)] # 255
    BY <1>4, <1>5 DEF Closed
  <2>. QED BY <1>5, <2>1, <2>2
<1>7. ~(Len(g) < Len(f))
  <2> SUFFICES ASSUME Len(g) < Len(f) PROVE FALSE
    OBVIOUS
  <2>1. w[Len(g)] = g[Len(g)] /\ w[Len(g)] = f[Len(g)]
    BY <1>2, <1>3, <1>4, <1>5
  <2>2. f[Len(g)] # 255
    BY <1>4, <1>5 DEF Closed
  <2>. QED BY <1>5, <2>1, <2>2
<1>8. Len(f) = Len(g) /\ Len(x) = Len(y)
  BY <1>2, <1>3, <1>4, <1>6, <1>7
<1>9. f = g
  <2>1. \A i \in 1 .. Len(f) : f[i] = g[i]
    BY <1>2, <1>3, <1>4, <1>8
  <2>. QED BY <1>1, <1>8, <2>1, SeqEqual
<1>10. x = y
  <2>1. ASSUME NEW i \in 1 .. Len(x) PROVE x[i] = y[i]
    <3>1. w[Len(f) + i] = x[i]
      <4>1. Len(f) + i \in 1 .. (Len(f) + Len(x)) /\ ~(Len(f) + i <= Len(f))
            /\ (Len(f) + i) - Len(f) = i
        BY ONLY <1>4, i \in 1 .. Len(x)
      <4>2. \A k \in 1 .. (Len(f) + Len(x)) : ~(k <= Len(f)) => w[k] = x[k - Len(f)]
        BY <1>2
      <4>. QED BY ONLY <4>1, <4>2
    <3>2. w[Len(f) + i] = y[i]
      <4>1. w[Len(g) + i] = y[(Len(g) + i) - Len(g)]
        <5>1. Len(g) + i \in 1 .. (Len(g) + Len(y)) /\ ~(Len(g) + i <= Len(g))
          BY ONLY <1>4, <1>8, i \in 1 .. Len(x)
        <5>2. \A k \in 1 .. (Len(g) + Len(y)) : ~(k <= Len(g)) => w[k] = y[k - Len(g)]
          BY <1>3
        <5>. QED BY ONLY <5>1, <5>2
      <4>2. (Len(g) + i) - Len(g) = i
        BY <1>4
      <4>. QED BY <1>8, <4>1, <4>2
    <3>. QED BY <3>1, <3>2
  <2>. QED BY <1>8, <2>1, SeqEqual
<1>. QED BY <1>9, <1>10

\* What derive writes for an event with an exception, after its type.
FrameBytes(exception) ==
  LET frame == FirstFrame(exception)
  IN  IF frame = <<>> THEN <<>> ELSE Field(frame[1].function) \o Field(frame[1].filename)

\* An id is sixteen bytes of any value; this says that an event that has nothing
\* but its id does not have one that begins and ends as a field does.
IdTold(event) ==
  Primary(event) = <<>> /\ event.message = <<>> =>
    event.id # <<>> /\ ~(event.id[1] \in {0, 1} /\ event.id[Len(event.id)] = 255)

\* The parts of an event that its fingerprint is made of are typed.
LEMMA EventParts ==
  ASSUME NEW e \in EventType
  PROVE  /\ Primary(e) # <<>> => Primary(e)[1] \in ExceptionType
         /\ e.message \in Opt(Str) /\ e.id \in Seq(0 .. 255)
<1>1. e.message \in Opt(Str) /\ e.id \in Seq(0 .. 255) /\ e.exceptions \in Opt(Seq(ExceptionType))
  BY DEF EventType
<1>2. ASSUME Primary(e) # <<>> PROVE Primary(e)[1] \in ExceptionType
  <2>1. e.exceptions # <<>> /\ e.exceptions[1] # <<>> /\ Primary(e) = <<e.exceptions[1][1]>>
    BY <1>2 DEF Primary
  <2>2. PICK l \in Seq(ExceptionType) : e.exceptions = <<l>>
    BY <1>1, <2>1 DEF Opt
  <2>3. e.exceptions[1] = l /\ l # <<>>
    BY <2>1, <2>2
  <2>4. l[1] \in ExceptionType
    BY <2>3
  <2>. QED BY <2>1, <2>3, <2>4
<1>. QED BY <1>1, <1>2

\* The frame hashed is one of the exception's, and it has none only without frames.
LEMMA FrameParts ==
  ASSUME NEW x \in ExceptionType
  PROVE  LET frames == IF x.frames = <<>> THEN <<>> ELSE x.frames[1]
         IN  /\ (FirstFrame(x) = <<>>) = (frames = <<>>)
             /\ frames # <<>> => /\ FirstFrame(x) = <<frames[Len(frames)]>>
                                 /\ frames[Len(frames)] \in FrameType
<1>1. x.frames \in Opt(Seq(FrameType))
  BY DEF ExceptionType
<1>2. CASE x.frames = <<>>
  BY <1>2 DEF FirstFrame
<1>3. ASSUME NEW l \in Seq(FrameType), x.frames = <<l>>
      PROVE  /\ (FirstFrame(x) = <<>>) = (l = <<>>)
             /\ l # <<>> => FirstFrame(x) = <<l[Len(l)]>> /\ l[Len(l)] \in FrameType
  <2>1. x.frames # <<>> /\ x.frames[1] = l
    BY <1>3
  <2>2. FirstFrame(x) = IF l = <<>> THEN <<>> ELSE <<l[Len(l)]>>
    BY <2>1 DEF FirstFrame
  <2>3. l # <<>> => l[Len(l)] \in FrameType
    BY <1>3
  <2>. QED BY <2>2, <2>3
<1>4. ASSUME NEW l \in Seq(FrameType), x.frames = <<l>> PROVE x.frames # <<>> /\ x.frames[1] = l
  BY <1>4
<1>. QED BY <1>1, <1>2, <1>3, <1>4 DEF Opt

\* What follows the type: nothing, or two fields, and as many as it tells apart.
LEMMA FrameBytesTell ==
  /\ \A x \in ExceptionType :
       /\ FrameBytes(x) \in Seq(0 .. 255)
       /\ FrameBytes(x) = <<>> <=> FirstFrame(x) = <<>>
       /\ FrameBytes(x) # <<>> => FrameBytes(x)[Len(FrameBytes(x))] = 255
  /\ \A x, y \in ExceptionType :
       FrameBytes(x) = FrameBytes(y) <=> FirstFrame(x) = FirstFrame(y)
<1>1. ASSUME NEW x \in ExceptionType, FirstFrame(x) # <<>>
      PROVE  \E r \in FrameType : FirstFrame(x) = <<r>> /\ FrameBytes(x) = Field(r.function) \o Field(r.filename)
  <2>1. PICK r \in FrameType : FirstFrame(x) = <<r>>
    BY <1>1, FrameParts
  <2>2. FirstFrame(x)[1] = r
    BY <2>1
  <2>. QED BY <1>1, <2>1, <2>2 DEF FrameBytes
<1>2. ASSUME NEW r \in FrameType
      PROVE  LET b == Field(r.function) \o Field(r.filename) IN
             b \in Seq(0 .. 255) /\ Len(b) >= 4 /\ b[Len(b)] = 255
  <2> DEFINE f == Field(r.function)
             g == Field(r.filename)
             b == f \o g
  <2>1. Closed(f) /\ Closed(g)
    BY FieldClosed DEF FrameType
  <2> HIDE DEF f, g
  <2>2. /\ f \in Seq(0 .. 255) /\ g \in Seq(0 .. 255) /\ Len(f) \in Nat /\ Len(g) \in Nat
        /\ Len(f) >= 2 /\ Len(g) >= 2 /\ g[Len(g)] = 255
    BY <2>1 DEF Closed
  <2>3. /\ b \in Seq(0 .. 255) /\ Len(b) = Len(f) + Len(g)
        /\ \A i \in 1 .. (Len(f) + Len(g)) : b[i] = IF i <= Len(f) THEN f[i] ELSE g[i - Len(f)]
    BY <2>2, ConcatProperties
  <2> HIDE DEF b
  <2>4. b[Len(b)] = g[Len(g)]
    BY <2>2, <2>3
  <2>. QED BY <2>2, <2>3, <2>4 DEF b, f, g
<1>3. ASSUME NEW x \in ExceptionType
      PROVE  /\ FrameBytes(x) \in Seq(0 .. 255)
             /\ FrameBytes(x) = <<>> <=> FirstFrame(x) = <<>>
             /\ FrameBytes(x) # <<>> => FrameBytes(x)[Len(FrameBytes(x))] = 255
  <2>1. CASE FirstFrame(x) = <<>>
    <3>1. FrameBytes(x) = <<>>
      BY <2>1 DEF FrameBytes
    <3>. QED BY <2>1, <3>1
  <2>2. CASE FirstFrame(x) # <<>>
    <3>1. PICK r \in FrameType : FrameBytes(x) = Field(r.function) \o Field(r.filename)
      BY <1>1, <2>2
    <3> DEFINE b == Field(r.function) \o Field(r.filename)
    <3>2. b \in Seq(0 .. 255) /\ Len(b) >= 4 /\ b[Len(b)] = 255
      BY <1>2
    <3>3. FrameBytes(x) = b
      BY <3>1
    <3> HIDE DEF b
    <3>4. b # <<>>
      BY <3>2
    <3>. QED BY <2>2, <3>2, <3>3, <3>4
  <2>. QED BY <2>1, <2>2
<1>4. ASSUME NEW x \in ExceptionType, NEW y \in ExceptionType, FrameBytes(x) = FrameBytes(y)
      PROVE  FirstFrame(x) = FirstFrame(y)
  <2>1. CASE FirstFrame(x) = <<>>
    BY <1>3, <1>4, <2>1
  <2>2. CASE FirstFrame(x) # <<>>
    <3>1. FirstFrame(y) # <<>>
      BY <1>3, <1>4, <2>2
    <3>2. PICK r \in FrameType : FirstFrame(x) = <<r>> /\ FrameBytes(x) = Field(r.function) \o Field(r.filename)
      BY <1>1, <2>2
    <3>3. PICK q \in FrameType : FirstFrame(y) = <<q>> /\ FrameBytes(y) = Field(q.function) \o Field(q.filename)
      BY <1>1, <3>1
    <3>4. /\ r.function \in Opt(Str) /\ r.filename \in Opt(Str)
          /\ q.function \in Opt(Str) /\ q.filename \in Opt(Str)
      BY DEF FrameType
    <3>5. /\ Closed(Field(r.function)) /\ Field(r.filename) \in Seq(0 .. 255)
          /\ Closed(Field(q.function)) /\ Field(q.filename) \in Seq(0 .. 255)
      BY <3>4, FieldClosed DEF Closed
    <3>6. Field(r.function) \o Field(r.filename) = Field(q.function) \o Field(q.filename)
      BY <1>4, <3>2, <3>3
    <3>7. Field(r.function) = Field(q.function) /\ Field(r.filename) = Field(q.filename)
      <4> DEFINE rf == Field(r.function)
                 rg == Field(r.filename)
                 qf == Field(q.function)
                 qg == Field(q.filename)
      <4>1. /\ Closed(rf) /\ rg \in Seq(0 .. 255) /\ Closed(qf) /\ qg \in Seq(0 .. 255)
            /\ rf \o rg = qf \o qg
        BY <3>5, <3>6
      <4> HIDE DEF rf, rg, qf, qg
      <4>2. rf = qf /\ rg = qg
        BY <4>1, ClosedPrefix, Zenon
      <4>. QED BY <4>2 DEF rf, rg, qf, qg
    <3>8. r.function = q.function /\ r.filename = q.filename
      BY <3>4, <3>7, FieldTells
    <3>9. r = q
      BY <3>8 DEF FrameType
    <3>. QED BY <3>2, <3>3, <3>9
  <2>. QED BY <2>1, <2>2
<1>5. ASSUME NEW x \in ExceptionType, NEW y \in ExceptionType, FirstFrame(x) = FirstFrame(y)
      PROVE  FrameBytes(x) = FrameBytes(y)
  BY <1>5 DEF FrameBytes
<1>. QED BY <1>3, <1>4, <1>5

\* A fingerprint is made of the first exception, else of the message, else of the
\* event's own id.
LEMMA FingerprintForms ==
  ASSUME NEW e \in EventType
  PROVE  /\ Primary(e) # <<>> =>
              LET x == Primary(e)[1] IN
              /\ Fingerprint(e) = Field(x.type) \o FrameBytes(x)
              /\ Fingerprint(e) # <<>> /\ Fingerprint(e)[1] \in {0, 1}
              /\ Fingerprint(e)[Len(Fingerprint(e))] = 255
         /\ Primary(e) = <<>> /\ e.message # <<>> =>
              /\ Fingerprint(e) = Field(e.message)
              /\ Fingerprint(e) # <<>> /\ Fingerprint(e)[1] \in {0, 1}
              /\ Fingerprint(e)[Len(Fingerprint(e))] = 255
         /\ Primary(e) = <<>> /\ e.message = <<>> => Fingerprint(e) = e.id
<1>1. ASSUME Primary(e) # <<>>
      PROVE  LET x == Primary(e)[1] IN
             /\ Fingerprint(e) = Field(x.type) \o FrameBytes(x)
             /\ Fingerprint(e) # <<>> /\ Fingerprint(e)[1] \in {0, 1}
             /\ Fingerprint(e)[Len(Fingerprint(e))] = 255
  <2> DEFINE x == Primary(e)[1]
             f == Field(x.type)
             b == FrameBytes(x)
             w == f \o b
  <2>1. x \in ExceptionType
    BY <1>1, EventParts
  <2>2. Fingerprint(e) = w
    BY <1>1 DEF Fingerprint, FrameBytes
  <2> HIDE DEF x
  <2>3. x.type \in Opt(Str)
    BY <2>1 DEF ExceptionType
  <2>4. Closed(f)
    BY <2>3, FieldClosed
  <2>5. b \in Seq(0 .. 255) /\ (b # <<>> => b[Len(b)] = 255)
    BY <2>1, FrameBytesTell
  <2> HIDE DEF f, b
  <2>6. f \in Seq(0 .. 255) /\ Len(f) \in Nat /\ Len(f) >= 2 /\ f[1] \in {0, 1} /\ f[Len(f)] = 255
    BY <2>4 DEF Closed
  <2>7. /\ w \in Seq(0 .. 255) /\ Len(w) = Len(f) + Len(b) /\ Len(b) \in Nat
        /\ \A i \in 1 .. (Len(f) + Len(b)) : w[i] = IF i <= Len(f) THEN f[i] ELSE b[i - Len(f)]
    BY <2>5, <2>6, ConcatProperties
  <2> HIDE DEF w
  <2>8. w # <<>> /\ w[1] = f[1]
    BY <2>6, <2>7
  <2>9. w[Len(w)] = 255
    <3>1. CASE Len(b) = 0
      BY <2>6, <2>7, <3>1
    <3>2. CASE Len(b) # 0
      <4>1. b # <<>>
        BY <3>2
      <4>2. w[Len(w)] = b[Len(b)]
        BY <2>6, <2>7, <3>2
      <4>. QED BY <2>5, <4>1, <4>2
    <3>. QED BY <3>1, <3>2
  <2>10. Fingerprint(e) # <<>> /\ Fingerprint(e)[1] \in {0, 1} /\ Fingerprint(e)[Len(Fingerprint(e))] = 255
    BY <2>2, <2>6, <2>8, <2>9
  <2>. QED BY <2>2, <2>10 DEF w, f, b, x
<1>2. ASSUME Primary(e) = <<>>, e.message # <<>>
      PROVE  /\ Fingerprint(e) = Field(e.message)
             /\ Fingerprint(e) # <<>> /\ Fingerprint(e)[1] \in {0, 1}
             /\ Fingerprint(e)[Len(Fingerprint(e))] = 255
  <2>1. Fingerprint(e) = Field(e.message)
    BY <1>2 DEF Fingerprint
  <2>2. Closed(Field(e.message))
    BY EventParts, FieldClosed
  <2> DEFINE f == Field(e.message)
  <2>3. Closed(f) /\ Fingerprint(e) = f
    BY <2>1, <2>2
  <2> HIDE DEF f
  <2>4. f # <<>> /\ f[1] \in {0, 1} /\ f[Len(f)] = 255
    BY <2>3 DEF Closed
  <2>. QED BY <2>1, <2>3, <2>4
<1>3. ASSUME Primary(e) = <<>>, e.message = <<>> PROVE Fingerprint(e) = e.id
  BY <1>3 DEF Fingerprint
<1>. QED BY <1>1, <1>2, <1>3

\* Two exceptions: same fingerprint, same type and innermost frame.
LEMMA ExceptionsGroup ==
  ASSUME NEW a \in EventType, NEW b \in EventType, Primary(a) # <<>>, Primary(b) # <<>>
  PROVE  Fingerprint(a) = Fingerprint(b) <=> SameException(a, b)
<1> DEFINE x == Primary(a)[1]
           y == Primary(b)[1]
<1>1. x \in ExceptionType /\ y \in ExceptionType
  BY EventParts
<1>2. Fingerprint(a) = Field(x.type) \o FrameBytes(x) /\ Fingerprint(b) = Field(y.type) \o FrameBytes(y)
  BY FingerprintForms
<1>3. SameException(a, b) <=>
        /\ x.type = y.type
        /\ LET fx == IF x.frames = <<>> THEN <<>> ELSE x.frames[1]
               fy == IF y.frames = <<>> THEN <<>> ELSE y.frames[1]
           IN  (fx = <<>>) = (fy = <<>>) /\ (fx # <<>> => fx[Len(fx)] = fy[Len(fy)])
  BY DEF SameException
<1> HIDE DEF x, y
<1>4. FirstFrame(x) = FirstFrame(y) <=>
        LET fx == IF x.frames = <<>> THEN <<>> ELSE x.frames[1]
            fy == IF y.frames = <<>> THEN <<>> ELSE y.frames[1]
        IN  (fx = <<>>) = (fy = <<>>) /\ (fx # <<>> => fx[Len(fx)] = fy[Len(fy)])
  <2> DEFINE fx == IF x.frames = <<>> THEN <<>> ELSE x.frames[1]
             fy == IF y.frames = <<>> THEN <<>> ELSE y.frames[1]
  <2>1. (FirstFrame(x) = <<>>) = (fx = <<>>) /\ (fx # <<>> => FirstFrame(x) = <<fx[Len(fx)]>>)
    BY <1>1, FrameParts
  <2>2. (FirstFrame(y) = <<>>) = (fy = <<>>) /\ (fy # <<>> => FirstFrame(y) = <<fy[Len(fy)]>>)
    BY <1>1, FrameParts
  <2> HIDE DEF fx, fy
  <2>3. FirstFrame(x) = FirstFrame(y) <=> (fx = <<>>) = (fy = <<>>) /\ (fx # <<>> => fx[Len(fx)] = fy[Len(fy)])
    <3>1. CASE fx = <<>>
      BY <2>1, <2>2, <3>1
    <3>2. CASE fx # <<>> /\ fy = <<>>
      BY <2>1, <2>2, <3>2
    <3>3. CASE fx # <<>> /\ fy # <<>>
      <4>1. FirstFrame(x) = <<fx[Len(fx)]>> /\ FirstFrame(y) = <<fy[Len(fy)]>>
        BY <2>1, <2>2, <3>3
      <4>2. \A u, v : <<u>> = <<v>> <=> u = v
        OBVIOUS
      <4>. QED BY <3>3, <4>1, <4>2
    <3>. QED BY <3>1, <3>2, <3>3
  <2>. QED BY <2>3 DEF fx, fy
<1>5. Fingerprint(a) = Fingerprint(b) <=> x.type = y.type /\ FirstFrame(x) = FirstFrame(y)
  <2> DEFINE f == Field(x.type)
             g == Field(y.type)
             p == FrameBytes(x)
             q == FrameBytes(y)
  <2>1. x.type \in Opt(Str) /\ y.type \in Opt(Str)
    BY <1>1 DEF ExceptionType
  <2>2. Closed(f) /\ Closed(g) /\ (f = g => x.type = y.type)
    BY <2>1, FieldClosed, FieldTells
  <2>3. p \in Seq(0 .. 255) /\ q \in Seq(0 .. 255) /\ (p = q <=> FirstFrame(x) = FirstFrame(y))
    BY <1>1, FrameBytesTell
  <2>4. x.type = y.type => f = g
    OBVIOUS
  <2>5. Fingerprint(a) = f \o p /\ Fingerprint(b) = g \o q
    BY <1>2
  <2> HIDE DEF f, g, p, q
  <2>6. f \o p = g \o q => f = g /\ p = q
    BY <2>2, <2>3, ClosedPrefix, Zenon
  <2>. QED BY <2>2, <2>3, <2>4, <2>5, <2>6
<1>. QED BY <1>3, <1>4, <1>5

\* An exception and an event without one: only the case the code cannot tell apart.
LEMMA ExceptionAndNone ==
  ASSUME NEW a \in EventType, NEW b \in EventType, IdTold(b), Primary(a) # <<>>, Primary(b) = <<>>
  PROVE  Fingerprint(a) = Fingerprint(b) <=> TypeReadsAsMessage(a, b)
<1>1. CASE b.message = <<>>
  <2>1. Fingerprint(b) = b.id /\ b.id # <<>> /\ ~(b.id[1] \in {0, 1} /\ b.id[Len(b.id)] = 255)
    BY <1>1, FingerprintForms DEF IdTold
  <2>2. Fingerprint(a)[1] \in {0, 1} /\ Fingerprint(a)[Len(Fingerprint(a))] = 255
    BY FingerprintForms
  <2>3. ~TypeReadsAsMessage(a, b)
    BY <1>1 DEF TypeReadsAsMessage
  <2>. QED BY <2>1, <2>2, <2>3
<1>2. CASE b.message # <<>>
  <2> DEFINE x == Primary(a)[1]
             m == b.message
  <2>1. x \in ExceptionType /\ m \in Opt(Str)
    BY EventParts
  <2>2. Fingerprint(a) = Field(x.type) \o FrameBytes(x) /\ Fingerprint(b) = Field(m)
    BY <1>2, FingerprintForms
  <2>3. TypeReadsAsMessage(a, b) <=> FirstFrame(x) = <<>> /\ x.type = m
    BY <1>2 DEF TypeReadsAsMessage
  <2> HIDE DEF x, m
  <2> DEFINE f == Field(x.type)
             g == Field(m)
             p == FrameBytes(x)
  <2>4. x.type \in Opt(Str)
    BY <2>1 DEF ExceptionType
  <2>5. Closed(f) /\ Closed(g) /\ (f = g => x.type = m) /\ (x.type = m => f = g)
    BY <2>1, <2>4, FieldClosed, FieldTells
  <2>6. p \in Seq(0 .. 255) /\ (p = <<>> <=> FirstFrame(x) = <<>>)
    BY <2>1, FrameBytesTell
  <2>7. Fingerprint(a) = f \o p /\ Fingerprint(b) = g
    BY <2>2
  <2> HIDE DEF f, g, p
  <2>8. /\ f \in Seq(0 .. 255) /\ f \o <<>> = f
        /\ g \in Seq(0 .. 255) /\ g \o <<>> = g /\ <<>> \in Seq(0 .. 255)
    BY <2>5, ConcatEmptySeq DEF Closed
  <2>9. f \o p = g \o <<>> => f = g /\ p = <<>>
    BY <2>5, <2>6, <2>8, ClosedPrefix, Zenon
  <2>. QED BY <2>3, <2>5, <2>6, <2>7, <2>8, <2>9
<1>. QED BY <1>1, <1>2

\* Neither has an exception: the message, else the id.
LEMMA NoneGroup ==
  ASSUME NEW a \in EventType, NEW b \in EventType, IdTold(a), IdTold(b),
         Primary(a) = <<>>, Primary(b) = <<>>
  PROVE  Fingerprint(a) = Fingerprint(b) <=>
           \/ SameMessage(a, b)
           \/ a.message = <<>> /\ b.message = <<>> /\ a.id = b.id
<1>1. CASE a.message # <<>> /\ b.message # <<>>
  <2>1. Fingerprint(a) = Field(a.message) /\ Fingerprint(b) = Field(b.message)
    BY <1>1, FingerprintForms
  <2>2. Field(a.message) = Field(b.message) => a.message = b.message
    BY EventParts, FieldTells
  <2>. QED BY <1>1, <2>1, <2>2 DEF SameMessage
<1>2. CASE a.message = <<>> /\ b.message = <<>>
  BY <1>2, FingerprintForms DEF SameMessage
<1>3. CASE a.message # <<>> /\ b.message = <<>>
  <2>1. Fingerprint(a)[1] \in {0, 1} /\ Fingerprint(a)[Len(Fingerprint(a))] = 255
    BY <1>3, FingerprintForms
  <2>2. Fingerprint(b) = b.id /\ ~(b.id[1] \in {0, 1} /\ b.id[Len(b.id)] = 255)
    BY <1>3, FingerprintForms DEF IdTold
  <2>. QED BY <1>3, <2>1, <2>2 DEF SameMessage
<1>4. CASE a.message = <<>> /\ b.message # <<>>
  <2>1. Fingerprint(b)[1] \in {0, 1} /\ Fingerprint(b)[Len(Fingerprint(b))] = 255
    BY <1>4, FingerprintForms
  <2>2. Fingerprint(a) = a.id /\ ~(a.id[1] \in {0, 1} /\ a.id[Len(a.id)] = 255)
    BY <1>4, FingerprintForms DEF IdTold
  <2>. QED BY <1>4, <2>1, <2>2 DEF SameMessage
<1>. QED BY <1>1, <1>2, <1>3, <1>4

\* derive: the terminators and presence bytes of write_opt_str keep fields apart, so
\* that two events share an issue exactly when they should, except an exception
\* without frames and a message that reads as its type.  An id is hashed as it is:
\* one that begins and ends as a field does is left out.
THEOREM FingerprintsGroup ==
  \A a, b \in EventType :
    IdTold(a) /\ IdTold(b) => (Fingerprint(a) = Fingerprint(b) <=> SameGroup(a, b))
<1> SUFFICES ASSUME NEW a \in EventType, NEW b \in EventType, IdTold(a), IdTold(b)
             PROVE  Fingerprint(a) = Fingerprint(b) <=> SameGroup(a, b)
  OBVIOUS
<1>1. CASE Primary(a) # <<>> /\ Primary(b) # <<>>
  <2>1. SameGroup(a, b) <=> SameException(a, b)
    BY <1>1 DEF SameGroup, SameMessage, TypeReadsAsMessage
  <2>. QED BY <1>1, <2>1, ExceptionsGroup
<1>2. CASE Primary(a) # <<>> /\ Primary(b) = <<>>
  <2>1. SameGroup(a, b) <=> TypeReadsAsMessage(a, b)
    BY <1>2 DEF SameGroup, SameException, SameMessage, TypeReadsAsMessage
  <2>. QED BY <1>2, <2>1, ExceptionAndNone
<1>3. CASE Primary(a) = <<>> /\ Primary(b) # <<>>
  <2>1. SameGroup(a, b) <=> TypeReadsAsMessage(b, a)
    BY <1>3 DEF SameGroup, SameException, SameMessage, TypeReadsAsMessage
  <2>2. Fingerprint(b) = Fingerprint(a) <=> TypeReadsAsMessage(b, a)
    BY <1>3, ExceptionAndNone
  <2>. QED BY <2>1, <2>2
<1>4. CASE Primary(a) = <<>> /\ Primary(b) = <<>>
  <2>1. SameGroup(a, b) <=>
          \/ SameMessage(a, b)
          \/ a.message = <<>> /\ b.message = <<>> /\ a.id = b.id
    BY <1>4 DEF SameGroup, SameException, TypeReadsAsMessage
  <2>. QED BY <1>4, <2>1, NoneGroup
<1>. QED BY <1>1, <1>2, <1>3, <1>4

----------------------------------------------------------------------------
(***************************************************************************)
(* Families and tags                                                       *)
(***************************************************************************)

\* The first entry whose marker is there tells the family.
LEMMA FirstHit ==
  ASSUME NEW table, DOMAIN table \subseteq Nat, NEW agent, NEW i \in DOMAIN table,
         table[i].marker \in agent,
         \A j \in DOMAIN table : j < i => table[j].marker \notin agent
  PROVE  Detected(table, agent) = <<table[i].family>>
<1> DEFINE hits == {j \in DOMAIN table : table[j].marker \in agent}
           First(k) == k \in hits /\ \A j \in hits : k <= j
           first == CHOOSE k \in hits : \A j \in hits : k <= j
<1>1. i \in hits /\ \A j \in hits : i <= j /\ i \in Nat /\ j \in Nat
  <2> SUFFICES ASSUME NEW j \in hits PROVE i <= j /\ i \in Nat /\ j \in Nat
    OBVIOUS
  <2>1. i \in Nat /\ j \in Nat /\ ~(j < i)
    OBVIOUS
  <2>. QED BY <2>1
<1>2. first \in hits /\ \A j \in hits : first <= j
  <2> HIDE DEF hits
  <2>. QED BY <1>1
<1> HIDE DEF first
<1>3. first = i
  <2>1. first <= i /\ i <= first /\ first \in Nat /\ i \in Nat
    BY <1>1, <1>2
  <2>. QED BY <2>1
<1>. QED BY <1>1, <1>3 DEF Detected, first

\* The tables, one by one.
LEMMA BrowserTable ==
  /\ DOMAIN BrowserMarkers = 1 .. 7
  /\ BrowserMarkers[1].marker = "Edg/" /\ BrowserMarkers[1].family = "Edge"
  /\ BrowserMarkers[2].marker = "OPR/" /\ BrowserMarkers[2].family = "Opera"
  /\ BrowserMarkers[3].marker = "Firefox/" /\ BrowserMarkers[3].family = "Firefox"
  /\ BrowserMarkers[4].marker = "CriOS/" /\ BrowserMarkers[4].family = "Chrome"
  /\ BrowserMarkers[5].marker = "FxiOS/" /\ BrowserMarkers[5].family = "Firefox"
  /\ BrowserMarkers[6].marker = "Chrome/" /\ BrowserMarkers[6].family = "Chrome"
  /\ BrowserMarkers[7].marker = "Safari/" /\ BrowserMarkers[7].family = "Safari"
BY DEF BrowserMarkers

\* The domain of a table of eight.
LEMMA EightEntries ==
  \A a, b, c, d, e, f, g, h : DOMAIN <<a, b, c, d, e, f, g, h>> = 1 .. 8
OBVIOUS

\* OsMarkers, one by one; a name stands for each marker with a space.
LEMMA OsTable ==
  ASSUME NEW windows, NEW android, NEW mac,
         windows = "Windows NT ", android = "Android ", mac = "Mac OS X"
  PROVE
  /\ DOMAIN OsMarkers = 1 .. 8
  /\ OsMarkers[1].marker = windows /\ OsMarkers[1].family = "Windows"
  /\ OsMarkers[2].marker = android /\ OsMarkers[2].family = "Android"
  /\ OsMarkers[3].marker = "iPhone" /\ OsMarkers[3].family = "iOS"
  /\ OsMarkers[4].marker = "iPad" /\ OsMarkers[4].family = "iOS"
  /\ OsMarkers[5].marker = "iPod" /\ OsMarkers[5].family = "iOS"
  /\ OsMarkers[6].marker = mac /\ OsMarkers[6].family = "macOS"
  /\ OsMarkers[7].marker = "CrOS"
  /\ OsMarkers[8].marker = "Linux" /\ OsMarkers[8].family = "Linux"
<1>1. DOMAIN OsMarkers = 1 .. 8
  BY EightEntries, Zenon DEF OsMarkers
<1>2. OsMarkers[1].marker = windows /\ OsMarkers[1].family = "Windows"
  BY Zenon DEF OsMarkers
<1>3. OsMarkers[2].marker = android /\ OsMarkers[2].family = "Android"
  BY Zenon DEF OsMarkers
<1>4. OsMarkers[3].marker = "iPhone" /\ OsMarkers[3].family = "iOS"
  BY Zenon DEF OsMarkers
<1>5. OsMarkers[4].marker = "iPad" /\ OsMarkers[4].family = "iOS"
  BY Zenon DEF OsMarkers
<1>6. OsMarkers[5].marker = "iPod" /\ OsMarkers[5].family = "iOS"
  BY Zenon DEF OsMarkers
<1>7. OsMarkers[6].marker = mac /\ OsMarkers[6].family = "macOS"
  BY Zenon DEF OsMarkers
<1>8. OsMarkers[7].marker = "CrOS"
  BY Zenon DEF OsMarkers
<1>9. OsMarkers[8].marker = "Linux" /\ OsMarkers[8].family = "Linux"
  BY Zenon DEF OsMarkers
<1>. QED BY <1>1, <1>2, <1>3, <1>4, <1>5, <1>6, <1>7, <1>8, <1>9, Zenon

\* The systems' markers, told apart.
LEMMA SystemsAre ==
  ASSUME NEW windows, NEW android, NEW mac,
         windows = "Windows NT ", android = "Android ", mac = "Mac OS X"
  PROVE  /\ windows # android /\ windows # mac /\ android # mac
         /\ \A x \in {windows, android, mac} :
              /\ x # "iPhone" /\ x # "iPad" /\ x # "iPod" /\ x # "CrOS" /\ x # "Linux"
              /\ x # "Edg/" /\ x # "OPR/" /\ x # "Firefox/" /\ x # "CriOS/" /\ x # "FxiOS/"
              /\ x # "Chrome/" /\ x # "Safari/"
         /\ \A s \in DOMAIN Systems : \A y \in Systems[s] :
              \/ s = "Windows" /\ y = {windows}
              \/ s = "Android" /\ y \in {{android}, {android, "Linux"}}
              \/ s = "iOS" /\ y \in {{"iPhone", mac}, {"iPad", mac}}
              \/ s = "macOS" /\ y = {mac}
              \/ s = "Linux" /\ y = {"Linux"}
<1>1. windows # android /\ windows # mac /\ android # mac
  BY Zenon
<1>2. \A x \in {windows, android, mac} :
              /\ x # "iPhone" /\ x # "iPad" /\ x # "iPod" /\ x # "CrOS" /\ x # "Linux"
              /\ x # "Edg/" /\ x # "OPR/" /\ x # "Firefox/" /\ x # "CriOS/" /\ x # "FxiOS/"
              /\ x # "Chrome/" /\ x # "Safari/"
  BY Zenon
<1>3. ASSUME NEW s \in DOMAIN Systems, NEW y \in Systems[s]
      PROVE   \/ s = "Windows" /\ y = {windows}
              \/ s = "Android" /\ y \in {{android}, {android, "Linux"}}
              \/ s = "iOS" /\ y \in {{"iPhone", mac}, {"iPad", mac}}
              \/ s = "macOS" /\ y = {mac}
              \/ s = "Linux" /\ y = {"Linux"}
  <2>1. s \in {"Windows", "Android", "iOS", "macOS", "Linux"}
    BY Zenon DEF Systems
  <2>2. /\ Systems["Windows"] = {{windows}}
        /\ Systems["Android"] = {{android}, {android, "Linux"}}
        /\ Systems["iOS"] = {{"iPhone", mac}, {"iPad", mac}}
        /\ Systems["macOS"] = {{mac}}
        /\ Systems["Linux"] = {{"Linux"}}
    BY Zenon DEF Systems
  <2>3. y \in Systems[s]
    BY Zenon
  <2>. QED BY ONLY <2>1, <2>2, <2>3
<1>. QED BY <1>1, <1>2, <1>3, Zenon

\* By browser, then by system.
LEMMA BrowserRight ==
  ASSUME NEW b \in DOMAIN Browsers, NEW x \in Browsers[b],
         NEW s \in DOMAIN Systems, NEW y \in Systems[s]
  PROVE  Detected(BrowserMarkers, x \cup y) = <<b>>
<1> DEFINE agent == x \cup y
           marker(i) == BrowserMarkers[i].marker
<1>0. PICK windows, android, mac : windows = "Windows NT " /\ android = "Android " /\ mac = "Mac OS X"
  BY Zenon
<1>1. \A i \in 1 .. 7 : marker(i) \notin y
  <2>1. /\ \A z \in {windows, android, mac} :
              /\ z # "Edg/" /\ z # "OPR/" /\ z # "Firefox/" /\ z # "CriOS/" /\ z # "FxiOS/"
              /\ z # "Chrome/" /\ z # "Safari/"
        /\ \/ y = {windows} \/ y \in {{android}, {android, "Linux"}}
           \/ y \in {{"iPhone", mac}, {"iPad", mac}} \/ y = {mac} \/ y = {"Linux"}
    BY <1>0, SystemsAre, Zenon
  <2>2. \A i \in 1 .. 7 : marker(i) \in
          {"Edg/", "OPR/", "Firefox/", "CriOS/", "FxiOS/", "Chrome/", "Safari/"}
    <3>1. \A i \in 1 .. 7 : i = 1 \/ i = 2 \/ i = 3 \/ i = 4 \/ i = 5 \/ i = 6 \/ i = 7
      OBVIOUS
    <3>. QED BY <3>1, BrowserTable
  <2>. QED BY <2>1, <2>2
<1>2. \/ b = "Chrome" /\ x \in {{"Chrome/", "Safari/"}, {"CriOS/", "Safari/"}}
      \/ b = "Edge" /\ x = {"Edg/", "Chrome/", "Safari/"}
      \/ b = "Opera" /\ x = {"OPR/", "Chrome/", "Safari/"}
      \/ b = "Firefox" /\ x \in {{"Firefox/"}, {"FxiOS/", "Safari/"}}
      \/ b = "Safari" /\ x = {"Safari/"}
  BY DEF Browsers
<1>3. \E i \in 1 .. 7 : /\ marker(i) \in x /\ BrowserMarkers[i].family = b
                        /\ \A j \in 1 .. 7 : j < i => marker(j) \notin x
  <2>1. \A j \in 1 .. 7 : j = 1 \/ j = 2 \/ j = 3 \/ j = 4 \/ j = 5 \/ j = 6 \/ j = 7
    OBVIOUS
  <2>2. CASE x = {"Chrome/", "Safari/"}
    <3>1. marker(6) \in x /\ BrowserMarkers[6].family = b
          /\ \A j \in 1 .. 7 : j < 6 => marker(j) \notin x
      BY <1>2, <2>1, <2>2, BrowserTable
    <3>. QED BY <3>1
  <2>3. CASE x = {"CriOS/", "Safari/"}
    <3>1. marker(4) \in x /\ BrowserMarkers[4].family = b
          /\ \A j \in 1 .. 7 : j < 4 => marker(j) \notin x
      BY <1>2, <2>1, <2>3, BrowserTable
    <3>. QED BY <3>1
  <2>4. CASE x = {"Edg/", "Chrome/", "Safari/"}
    <3>1. marker(1) \in x /\ BrowserMarkers[1].family = b
          /\ \A j \in 1 .. 7 : j < 1 => marker(j) \notin x
      BY <1>2, <2>1, <2>4, BrowserTable
    <3>. QED BY <3>1
  <2>5. CASE x = {"OPR/", "Chrome/", "Safari/"}
    <3>1. marker(2) \in x /\ BrowserMarkers[2].family = b
          /\ \A j \in 1 .. 7 : j < 2 => marker(j) \notin x
      BY <1>2, <2>1, <2>5, BrowserTable
    <3>. QED BY <3>1
  <2>6. CASE x = {"Firefox/"}
    <3>1. marker(3) \in x /\ BrowserMarkers[3].family = b
          /\ \A j \in 1 .. 7 : j < 3 => marker(j) \notin x
      BY <1>2, <2>1, <2>6, BrowserTable
    <3>. QED BY <3>1
  <2>7. CASE x = {"FxiOS/", "Safari/"}
    <3>1. marker(5) \in x /\ BrowserMarkers[5].family = b
          /\ \A j \in 1 .. 7 : j < 5 => marker(j) \notin x
      BY <1>2, <2>1, <2>7, BrowserTable
    <3>. QED BY <3>1
  <2>8. CASE x = {"Safari/"}
    <3>1. marker(7) \in x /\ BrowserMarkers[7].family = b
          /\ \A j \in 1 .. 7 : j < 7 => marker(j) \notin x
      BY <1>2, <2>1, <2>8, BrowserTable
    <3>. QED BY <3>1
  <2>. QED BY <1>2, <2>2, <2>3, <2>4, <2>5, <2>6, <2>7, <2>8
<1>4. PICK i \in 1 .. 7 : /\ marker(i) \in x /\ BrowserMarkers[i].family = b
                          /\ \A j \in 1 .. 7 : j < i => marker(j) \notin x
  BY <1>3
<1>5. /\ DOMAIN BrowserMarkers = 1 .. 7 /\ DOMAIN BrowserMarkers \subseteq Nat
      /\ BrowserMarkers[i].marker \in agent
      /\ \A j \in 1 .. 7 : j < i => BrowserMarkers[j].marker \notin agent
  BY <1>1, <1>4, BrowserTable
<1> HIDE DEF agent
<1>6. Detected(BrowserMarkers, agent) = <<BrowserMarkers[i].family>>
  BY <1>5, FirstHit
<1>. QED BY <1>4, <1>6 DEF agent

\* The system of an agent string is the first of the table that it names.
LEMMA SystemRight ==
  ASSUME NEW b \in DOMAIN Browsers, NEW x \in Browsers[b],
         NEW s \in DOMAIN Systems, NEW y \in Systems[s]
  PROVE  Detected(OsMarkers, x \cup y) = <<s>>
<1> DEFINE agent == x \cup y
           marker(i) == OsMarkers[i].marker
<1>0. PICK windows, android, mac : windows = "Windows NT " /\ android = "Android " /\ mac = "Mac OS X"
  BY Zenon
<1>1. /\ DOMAIN OsMarkers = 1 .. 8
      /\ OsMarkers[1].marker = windows /\ OsMarkers[1].family = "Windows"
      /\ OsMarkers[2].marker = android /\ OsMarkers[2].family = "Android"
      /\ OsMarkers[3].marker = "iPhone" /\ OsMarkers[3].family = "iOS"
      /\ OsMarkers[4].marker = "iPad" /\ OsMarkers[4].family = "iOS"
      /\ OsMarkers[5].marker = "iPod" /\ OsMarkers[5].family = "iOS"
      /\ OsMarkers[6].marker = mac /\ OsMarkers[6].family = "macOS"
      /\ OsMarkers[7].marker = "CrOS"
      /\ OsMarkers[8].marker = "Linux" /\ OsMarkers[8].family = "Linux"
  BY <1>0, OsTable, Zenon
<1>2. /\ windows # android /\ windows # mac /\ android # mac
      /\ \A z \in {windows, android, mac} :
            /\ z # "iPhone" /\ z # "iPad" /\ z # "iPod" /\ z # "CrOS" /\ z # "Linux"
            /\ z # "Edg/" /\ z # "OPR/" /\ z # "Firefox/" /\ z # "CriOS/" /\ z # "FxiOS/"
            /\ z # "Chrome/" /\ z # "Safari/"
      /\ \/ s = "Windows" /\ y = {windows}
         \/ s = "Android" /\ y \in {{android}, {android, "Linux"}}
         \/ s = "iOS" /\ y \in {{"iPhone", mac}, {"iPad", mac}}
         \/ s = "macOS" /\ y = {mac}
         \/ s = "Linux" /\ y = {"Linux"}
  BY <1>0, SystemsAre, Zenon
<1>8. \A j \in 1 .. 8 : j = 1 \/ j = 2 \/ j = 3 \/ j = 4 \/ j = 5 \/ j = 6 \/ j = 7 \/ j = 8
  OBVIOUS
<1>9. \A i \in 1 .. 8 : marker(i) \notin x
  <2>1. x \subseteq {"Edg/", "OPR/", "Firefox/", "CriOS/", "FxiOS/", "Chrome/", "Safari/"}
    BY DEF Browsers
  <2>. QED BY <1>1, <1>2, <1>8, <2>1
<1>3. \E i \in 1 .. 8 : /\ marker(i) \in y /\ OsMarkers[i].family = s
                        /\ \A j \in 1 .. 8 : j < i => marker(j) \notin y
  <2>2. CASE y = {windows}
    <3>1. marker(1) \in y /\ OsMarkers[1].family = s
          /\ \A j \in 1 .. 8 : j < 1 => marker(j) \notin y
      BY <1>1, <1>2, <1>8, <2>2
    <3>. QED BY <3>1
  <2>3. CASE y = {android} \/ y = {android, "Linux"}
    <3>1. marker(2) \in y /\ OsMarkers[2].family = s
          /\ \A j \in 1 .. 8 : j < 2 => marker(j) \notin y
      BY <1>1, <1>2, <1>8, <2>3
    <3>. QED BY <3>1
  <2>4. CASE y = {"iPhone", mac}
    <3>1. marker(3) \in y /\ OsMarkers[3].family = s
          /\ \A j \in 1 .. 8 : j < 3 => marker(j) \notin y
      BY <1>1, <1>2, <1>8, <2>4
    <3>. QED BY <3>1
  <2>5. CASE y = {"iPad", mac}
    <3>1. marker(4) \in y /\ OsMarkers[4].family = s
          /\ \A j \in 1 .. 8 : j < 4 => marker(j) \notin y
      BY <1>1, <1>2, <1>8, <2>5
    <3>. QED BY <3>1
  <2>6. CASE y = {mac}
    <3>1. marker(6) \in y /\ OsMarkers[6].family = s
          /\ \A j \in 1 .. 8 : j < 6 => marker(j) \notin y
      BY <1>1, <1>2, <1>8, <2>6
    <3>. QED BY <3>1
  <2>7. CASE y = {"Linux"}
    <3>1. marker(8) \in y /\ OsMarkers[8].family = s
          /\ \A j \in 1 .. 8 : j < 8 => marker(j) \notin y
      BY <1>1, <1>2, <1>8, <2>7
    <3>. QED BY <3>1
  <2>. QED BY <1>2, <2>2, <2>3, <2>4, <2>5, <2>6, <2>7
<1>4. PICK i \in 1 .. 8 : /\ marker(i) \in y /\ OsMarkers[i].family = s
                          /\ \A j \in 1 .. 8 : j < i => marker(j) \notin y
  BY <1>3
<1>5. /\ DOMAIN OsMarkers = 1 .. 8 /\ DOMAIN OsMarkers \subseteq Nat
      /\ OsMarkers[i].marker \in agent
      /\ \A j \in 1 .. 8 : j < i => OsMarkers[j].marker \notin agent
  BY <1>1, <1>4, <1>9
<1> HIDE DEF agent
<1>6. Detected(OsMarkers, agent) = <<OsMarkers[i].family>>
  BY <1>5, FirstHit
<1>. QED BY <1>4, <1>6 DEF agent

\* parse_user_agent: both tags are derived when both families are detected.
LEMMA BothDerived ==
  ASSUME NEW agent, NEW s, NEW b,
         Detected(OsMarkers, agent) = <<s>>, Detected(BrowserMarkers, agent) = <<b>>
  PROVE  Derived(agent) = [key \in {"os.name", "browser.name"} |-> IF key = "os.name" THEN s ELSE b]
<1> DEFINE family == [key \in {"os.name", "browser.name"} |->
                        IF key = "os.name" THEN Detected(OsMarkers, agent)
                        ELSE Detected(BrowserMarkers, agent)]
<1>1. family["os.name"] = <<s>> /\ family["browser.name"] = <<b>>
      /\ DOMAIN family = {"os.name", "browser.name"}
  OBVIOUS
<1>2. <<s>> # <<>> /\ <<b>> # <<>> /\ <<s>>[1] = s /\ <<b>>[1] = b
  OBVIOUS
<1>3. Derived(agent) = [key \in {k \in DOMAIN family : family[k] # <<>>} |-> family[key][1]]
  BY DEF Derived
<1> HIDE DEF family
<1>4. {k \in DOMAIN family : family[k] # <<>>} = {"os.name", "browser.name"}
  BY <1>1, <1>2
<1>. QED BY <1>1, <1>2, <1>3, <1>4

\* For every agent string: no browser's family hides another's (an Edge or an
\* Opera that also says Chrome, a Chrome that also says Safari), and of systems
\* the more specific one is told.
LEMMA FamiliesAreRight == FamiliesRight
<1> DEFINE Meant(markers, s, b) ==
             Derived(markers) = [key \in {"os.name", "browser.name"} |->
                                   IF key = "os.name" THEN s ELSE b]
<1>1. ASSUME NEW b \in DOMAIN Browsers, NEW s \in DOMAIN Systems,
             NEW x \in Browsers[b], NEW y \in Systems[s]
      PROVE  Meant(x \cup y, s, b)
  BY BrowserRight, SystemRight, BothDerived
<1>2. FamiliesRight <=>
        \A b \in DOMAIN Browsers, s \in DOMAIN Systems :
          \A markers \in {x \cup y : x \in Browsers[b], y \in Systems[s]} : Meant(markers, s, b)
  BY DEF FamiliesRight
<1> HIDE DEF Meant
<1>. QED BY <1>1, <1>2

\* augment_tags_from_user_agent: a tag the SDK sent in an object is as it was.
LEMMA OwnTagsStay == ObjectTagsWin
<1>1. ASSUME NEW own, NEW key \in DOMAIN own, NEW markers
      PROVE  Augmented(TagObject(own), <<markers>>).entries[key] = own[key]
  <2>1. /\ TagObject(own).shape = "object" /\ TagObject(own).entries = own
        /\ <<markers>> # <<>> /\ <<markers>>[1] = markers
    BY DEF TagObject
  <2>2. EntriesOf(TagObject(own)) = own
    BY <2>1 DEF EntriesOf
  <2> DEFINE derived == Derived(markers)
             filled == Filled(TagObject(own), derived)
  <2>3. filled[key] = own[key]
    <3> HIDE DEF derived
    <3>. QED BY <2>2 DEF Filled
  <2>4. TagObject(filled).entries = filled
    BY DEF TagObject
  <2> HIDE DEF filled
  <2>5. \/ Augmented(TagObject(own), <<markers>>) = TagObject(own)
        \/ Augmented(TagObject(own), <<markers>>) = TagObject(filled)
    BY <2>1 DEF Augmented, filled
  <2>. QED BY <2>1, <2>3, <2>4, <2>5
<1>2. ASSUME NEW tags, NEW agent \in {<<>>, <<{}>>} PROVE Augmented(tags, agent) = tags
  <2>1. \A table : Detected(table, {}) = <<>>
    BY DEF Detected
  <2>2. DOMAIN Derived({}) = {}
    <3> DEFINE family == [key \in {"os.name", "browser.name"} |->
                            IF key = "os.name" THEN Detected(OsMarkers, {})
                            ELSE Detected(BrowserMarkers, {})]
    <3>1. \A k \in DOMAIN family : family[k] = <<>>
      BY <2>1
    <3>2. Derived({}) = [key \in {k \in DOMAIN family : family[k] # <<>>} |-> family[key][1]]
      BY DEF Derived
    <3> HIDE DEF family
    <3>. QED BY <3>1, <3>2
  <2>3. <<{}>>[1] = {}
    OBVIOUS
  <2>. QED BY <2>2, <2>3 DEF Augmented
<1>3. ASSUME NEW key, NEW markers
      PROVE  Augmented(TagObject([k \in {key} |-> "Custom"]), <<markers>>).entries[key] = "Custom"
  <2> DEFINE own == [k \in {key} |-> "Custom"]
  <2>1. key \in DOMAIN own /\ own[key] = "Custom"
    OBVIOUS
  <2> HIDE DEF own
  <2>2. Augmented(TagObject(own), <<markers>>).entries[key] = "Custom"
    BY <1>1, <2>1
  <2>. QED BY <2>2 DEF own
<1>. QED BY <1>2, <1>3 DEF ObjectTagsWin

----------------------------------------------------------------------------
(***************************************************************************)
(* The inputs of the run                                                   *)
(***************************************************************************)

\* A document's symbols, by what is between its braces.
LEMMA JsonIs ==
  ASSUME NEW S, NEW doc, Open(doc) \in S, Close \in S, NEW inner \in Seq(S)
  PROVE  /\ Json(doc, inner) \in Seq(S) /\ Len(inner) \in Nat
         /\ Len(Json(doc, inner)) = Len(inner) + 2
<1> DEFINE first == <<Open(doc)>>
           last == <<Close>>
           front == first \o inner
<1>1. /\ first \in Seq(S) /\ Len(first) = 1 /\ last \in Seq(S) /\ Len(last) = 1
      /\ Len(inner) \in Nat
  OBVIOUS
<1>2. Json(doc, inner) = front \o last
  BY DEF Json
<1> HIDE DEF first, last
<1>3. front \in Seq(S) /\ Len(front) = 1 + Len(inner)
  BY <1>1, Glue
<1> HIDE DEF front
<1>4. front \o last \in Seq(S) /\ Len(front \o last) = Len(front) + Len(last)
  BY <1>1, <1>3, Glue
<1>. QED BY <1>1, <1>2, <1>3, <1>4

\* What the run's payloads are made of.
Letters ==
  {NL, Text, Close, Open(EventDoc("a")), Open(EventDoc("b")), Open(Header("event", NoLength)),
   Open(Misfit)}

\* No header among them declares a length at all.
LEMMA LettersDeclare == \A x \in Letters : Declares(x)
<1>1. Declares(NL) /\ Declares(Text) /\ Declares(Close)
  BY DEF Declares, NL, Text, Close
<1>2. \A e : Declares(Open(EventDoc(e)))
  BY DEF Declares, Open, EventDoc, LengthIn
<1>3. Declares(Open(Misfit))
  BY DEF Declares, Open, Misfit, LengthIn
<1>4. Declares(Open(Header("event", NoLength)))
  BY DEF Declares, Open, Header, LengthIn
<1>. QED BY <1>1, <1>2, <1>3, <1>4 DEF Letters

\* The payloads of the run: what they are of, and how long they are.
LEMMA PayloadsAre == \A p \in Payloads : p \in Seq(Letters) /\ Len(p) \in 0 .. 7
<1> DEFINE S == Letters
           Fits(p, n) == p \in Seq(S) /\ Len(p) = n
           a == EventDoc("a")
           b == EventDoc("b")
           h == Header("event", NoLength)
           docs == {a, b, h, Misfit}
           begun == <<Text, NL>> \o Json(h, <<>>)
           more == begun \o <<NL>>
<1>1. /\ NL \in S /\ Text \in S /\ Close \in S /\ Open(a) \in S /\ Open(b) \in S
      /\ Open(h) \in S /\ Open(Misfit) \in S
  BY DEF Letters
<1> HIDE DEF S, a, b, h
<1>2. /\ Fits(<<>>, 0) /\ Fits(<<NL>>, 1) /\ Fits(<<Text>>, 1)
      /\ Fits(<<Text, NL>>, 2) /\ Fits(<<Text, NL, Text>>, 3)
  BY <1>1
<1>3. ASSUME NEW doc \in docs, NEW inner, NEW n \in Nat, Fits(inner, n)
      PROVE  Fits(Json(doc, inner), n + 2)
  <2>1. Open(doc) \in S /\ inner \in Seq(S) /\ Len(inner) = n
    BY <1>1, <1>3
  <2>2. Json(doc, inner) \in Seq(S) /\ Len(Json(doc, inner)) = Len(inner) + 2
    BY ONLY <1>1, <2>1, JsonIs
  <2>. QED BY <2>1, <2>2
<1>4. ASSUME NEW s, NEW t, NEW m \in Nat, NEW n \in Nat, Fits(s, m), Fits(t, n)
      PROVE  Fits(s \o t, m + n)
  <2>1. s \in Seq(S) /\ t \in Seq(S) /\ Len(s) = m /\ Len(t) = n
    BY <1>4
  <2>2. s \o t \in Seq(S) /\ Len(s \o t) = Len(s) + Len(t)
    BY ONLY <2>1, Glue
  <2>. QED BY <2>1, <2>2
<1>5. a \in docs /\ b \in docs /\ h \in docs /\ Misfit \in docs
  OBVIOUS
<1>6. 0 + 2 = 2 /\ 1 + 2 = 3 /\ 2 + 2 = 4 /\ 4 + 1 = 5 /\ 5 + 2 = 7
  OBVIOUS
<1> HIDE DEF Fits, docs
<1>7. Fits(Json(a, <<>>), 2) /\ Fits(Json(b, <<>>), 2) /\ Fits(Json(h, <<>>), 2)
  BY <1>2, <1>3, <1>5, <1>6
<1>8. Fits(Json(b, <<NL>>), 3) /\ Fits(Json(Misfit, <<Text>>), 3)
  BY <1>2, <1>3, <1>5, <1>6
<1>9. Fits(begun, 4)
  BY <1>2, <1>4, <1>6, <1>7
<1> HIDE DEF begun
<1>10. Fits(more, 5)
  BY <1>2, <1>4, <1>6, <1>9
<1> HIDE DEF more
<1>11. Fits(more \o Json(b, <<>>), 7)
  BY <1>4, <1>6, <1>7, <1>10
<1>12. ASSUME NEW p \in Payloads PROVE \E n \in {0, 1, 2, 3, 7} : Fits(p, n)
  <2>1. \/ p = <<>> \/ p = <<NL>> \/ p = <<Text>> \/ p = <<Text, NL, Text>>
        \/ p = Json(a, <<>>) \/ p = Json(b, <<NL>>) \/ p = Json(h, <<>>)
        \/ p = Json(Misfit, <<Text>>) \/ p = more \o Json(b, <<>>)
    BY DEF Payloads, a, b, h, more, begun
  <2>. QED BY <1>2, <1>7, <1>8, <1>11, <2>1
<1>. QED BY <1>12 DEF S, Fits

\* The envelopes of the run, at most two items each.
LEMMA EnvelopesAre ==
  ASSUME NEW e \in Envelopes
  PROVE  e \in Seq(Items) /\ Len(e) \in 0 .. 2
<1>1. CASE e = <<>>
  BY <1>1
<1>2. CASE e \in {<<i>> : i \in Items}
  BY <1>2
<1>3. CASE e \in Items \X Items
  <2>1. PICK i \in Items, j \in Items : e = <<i, j>>
    BY <1>3
  <2>. QED BY <2>1
<1>. QED BY <1>1, <1>2, <1>3 DEF Envelopes

\* parse_envelope reads the run's envelopes as they were meant, whole or cut
\* short: the longest has 25 symbols, two headers and payloads included.
LEMMA EnvelopesAreRead ==
  ASSUME Width > 25, NEW e \in Envelopes
  PROVE  ReadAsMeant(e) /\ CutShortIsSafe(e)
<1>1. e \in Seq(Items) /\ Len(e) \in 0 .. 2
  BY EnvelopesAre
<1>2. \A i \in DOMAIN e : e[i] \in Items
  BY <1>1
<1>3. \A i \in Items : /\ i.payload \in Seq(Letters) /\ Len(i.payload) \in 0 .. 7
                       /\ WellFormed(i)
  <2> SUFFICES ASSUME NEW i \in Items
               PROVE  /\ i.payload \in Seq(Letters) /\ Len(i.payload) \in 0 .. 7
                      /\ WellFormed(i)
    OBVIOUS
  <2>1. i.payload \in Payloads /\ WellFormed(i)
    BY DEF Items
  <2>. QED BY <2>1, PayloadsAre
<1>4. Sendables(e, Letters)
  BY <1>2, <1>3, LettersDeclare DEF Sendables
<1>5. Encoded(e) \in Seq(Alphabet(e, Letters))
  BY <1>1, <1>4, EncodedIsLaidOut
<1>6. PICK places : LaidOut(e, Encoded(e), places)
  BY <1>1, <1>4, EncodedIsLaidOut
<1> DEFINE size == Len(Encoded(e))
           n == Len(e)
<1>7. /\ places \in [0 .. n -> Nat] /\ places[0] = 3 /\ places[n] = size
      /\ \A k \in 1 .. n : places[k] = places[k - 1] + Len(e[k].payload) + 4
  BY <1>6 DEF LaidOut
<1>8. \A k \in 1 .. n : Len(e[k].payload) \in 0 .. 7
  BY <1>1, <1>2, <1>3
<1> HIDE DEF n, size
<1>9. size <= 25 /\ size \in Nat
  <2>1. n \in 0 .. 2
    BY <1>1 DEF n
  <2>2. CASE n = 0
    BY <1>7, <2>2
  <2>3. CASE n = 1
    <3>1. 1 \in 1 .. n /\ 1 - 1 = 0
      BY <2>3
    <3>2. places[1] = places[0] + Len(e[1].payload) + 4 /\ Len(e[1].payload) \in 0 .. 7
      BY <1>7, <1>8, <3>1
    <3> DEFINE one == Len(e[1].payload)
    <3> HIDE DEF one
    <3>3. size = 3 + one + 4 /\ one \in 0 .. 7
      BY <1>7, <2>3, <3>2 DEF one
    <3>. QED BY <3>3
  <2>4. CASE n = 2
    <3>1. 1 \in 1 .. n /\ 2 \in 1 .. n /\ 1 - 1 = 0 /\ 2 - 1 = 1
      BY <2>4
    <3>2. /\ places[1] = places[0] + Len(e[1].payload) + 4 /\ Len(e[1].payload) \in 0 .. 7
          /\ places[2] = places[1] + Len(e[2].payload) + 4 /\ Len(e[2].payload) \in 0 .. 7
      BY <1>7, <1>8, <3>1
    <3> DEFINE one == Len(e[1].payload)
               two == Len(e[2].payload)
    <3> HIDE DEF one, two
    <3>3. /\ places[1] = 3 + one + 4 /\ size = places[1] + two + 4
          /\ one \in 0 .. 7 /\ two \in 0 .. 7
      BY <1>7, <2>4, <3>2 DEF one, two
    <3>. QED BY <3>3
  <2>. QED BY <2>1, <2>2, <2>3, <2>4
<1>10. Width \in Nat /\ size < Width
  <2> DEFINE w == Width
  <2>1. w \in Nat /\ w > 25
    BY IngressAssumption
  <2> HIDE DEF w
  <2>2. size < w
    BY ONLY <1>9, <2>1
  <2>. QED BY <2>1, <2>2 DEF w
<1>. QED BY <1>1, <1>4, <1>10, EnvelopesAlwaysRead DEF size

\* No list at all, and an empty one.
LEMMA EmptyOptions == \A T : <<>> \in Opt(Seq(T)) /\ <<<<>>>> \in Opt(Seq(T))
<1> TAKE T
<1> DEFINE X == Seq(T)
<1>1. <<>> \in X
  OBVIOUS
<1> HIDE DEF X
<1>2. \A X1 : \A x \in X1 : <<>> \in Opt(X1) /\ <<x>> \in Opt(X1)
  BY DEF Opt
<1>. QED BY <1>1, <1>2 DEF X

\* The events of the run are typed, and no id reads as an optional's tag.
LEMMA SamplesAre ==
  ASSUME NEW e \in SampleEvents
  PROVE  e \in EventType /\ IdTold(e)
<1>1. Strings \subseteq Str
  BY DEF Strings, Str
<1>2. Optional \subseteq Opt(Str)
  BY <1>1 DEF Optional, Opt
<1>3. <<200, 1>> \in Seq(0 .. 255) /\ <<200, 2>> \in Seq(0 .. 255)
  OBVIOUS
<1>4. {<<>>, <<<<97>>>>, <<<<97, 1>>>>} \subseteq Optional /\ <<>> \in Optional
      /\ <<<<97>>>> \in Optional
  BY DEF Optional, Strings
<1>5. \A f, p \in Opt(Str) : Frame(f, p) \in FrameType
  BY DEF Frame, FrameType
<1>6. Stacks \subseteq Opt(Seq(FrameType))
  <2>1. <<>> \in Opt(Seq(FrameType)) /\ <<<<>>>> \in Opt(Seq(FrameType))
    BY EmptyOptions
  <2>2. \A f, p \in Optional : Frame(f, p) \in FrameType
    BY <1>2, <1>5
  <2>3. \A x, y \in FrameType : <<x>> \in Seq(FrameType) /\ <<x, y>> \in Seq(FrameType)
    OBVIOUS
  <2>4. \A s \in Seq(FrameType) : <<s>> \in Opt(Seq(FrameType))
    BY DEF Opt
  <2>5. ASSUME NEW f \in Optional, NEW p \in Optional PROVE <<<<Frame(f, p)>>>> \in Opt(Seq(FrameType))
    BY <2>2, <2>3, <2>4
  <2>6. ASSUME NEW f \in Optional
        PROVE  <<<<Frame(<<>>, <<>>), Frame(f, <<<<97>>>>)>>>> \in Opt(Seq(FrameType))
    <3>1. Frame(<<>>, <<>>) \in FrameType /\ Frame(f, <<<<97>>>>) \in FrameType
      BY <1>4, <2>2
    <3>. QED BY <2>3, <2>4, <3>1
  <2>. QED BY <2>1, <2>5, <2>6 DEF Stacks
<1>7. \A t \in Optional, k \in Stacks : Exception(t, k) \in ExceptionType
  BY <1>2, <1>6 DEF Exception, ExceptionType
<1>8. <<>> \in Stacks
  BY DEF Stacks
<1>9. \A x, y \in ExceptionType : /\ <<<<x>>>> \in Opt(Seq(ExceptionType))
                                  /\ <<<<x, y>>>> \in Opt(Seq(ExceptionType))
  <2>1. \A x, y \in ExceptionType : <<x>> \in Seq(ExceptionType) /\ <<x, y>> \in Seq(ExceptionType)
    OBVIOUS
  <2>. QED BY <2>1 DEF Opt
<1>10. <<>> \in Opt(Seq(ExceptionType)) /\ <<<<>>>> \in Opt(Seq(ExceptionType))
  BY EmptyOptions
<1>11. \A id \in {<<200, 1>>, <<200, 2>>} : \A x \in Opt(Seq(ExceptionType)), m \in Opt(Str) :
         Event(id, x, m) \in EventType /\ Event(id, x, m).id = id
  BY <1>3 DEF Event, EventType
<1>12. \E id \in {<<200, 1>>, <<200, 2>>}, x \in Opt(Seq(ExceptionType)), m \in Opt(Str) :
         e = Event(id, x, m)
  <2>1. CASE e \in {Event(<<200, 1>>, <<<<Exception(t, k)>>>>, <<>>) :
                      t \in {<<>>, <<<<97>>>>, <<<<97, 1>>>>}, k \in Stacks}
    <3>1. PICK t \in {<<>>, <<<<97>>>>, <<<<97, 1>>>>}, k \in Stacks :
            e = Event(<<200, 1>>, <<<<Exception(t, k)>>>>, <<>>)
      BY <2>1
    <3>2. Exception(t, k) \in ExceptionType
      BY <1>4, <1>7
    <3>3. <<<<Exception(t, k)>>>> \in Opt(Seq(ExceptionType)) /\ <<>> \in Opt(Str)
      BY <1>2, <1>4, <1>9, <3>2
    <3>. QED BY <3>1, <3>3
  <2>2. CASE e \in {Event(id, x, m) : id \in {<<200, 1>>, <<200, 2>>},
                                      x \in {<<>>, <<<<>>>>}, m \in Optional}
    BY <1>2, <1>10, <2>2
  <2>3. CASE e \in {Event(<<200, 2>>, <<<<Exception(t, <<>>), Exception(<<>>, <<>>)>>>>, m) :
                      t, m \in Optional}
    <3>1. PICK t \in Optional, m \in Optional :
            e = Event(<<200, 2>>, <<<<Exception(t, <<>>), Exception(<<>>, <<>>)>>>>, m)
      BY <2>3
    <3>2. Exception(t, <<>>) \in ExceptionType /\ Exception(<<>>, <<>>) \in ExceptionType
      BY <1>4, <1>7, <1>8
    <3>3. <<<<Exception(t, <<>>), Exception(<<>>, <<>>)>>>> \in Opt(Seq(ExceptionType))
      BY <1>9, <3>2
    <3>. QED BY <1>2, <3>1, <3>3
  <2>. QED BY <2>1, <2>2, <2>3 DEF SampleEvents
<1>13. e \in EventType /\ e.id \in {<<200, 1>>, <<200, 2>>}
  BY <1>11, <1>12
<1>14. IdTold(e)
  <2>1. e.id = <<200, 1>> \/ e.id = <<200, 2>>
    BY <1>13
  <2>2. \A id \in {<<200, 1>>, <<200, 2>>} : id # <<>> /\ id[1] = 200
    OBVIOUS
  <2>3. e.id # <<>> /\ e.id[1] = 200
    BY ONLY <2>1, <2>2
  <2>. QED BY <2>3 DEF IdTold
<1>. QED BY <1>13, <1>14

\* The run's events are grouped as they were meant.
LEMMA SamplesGroup == GroupedAsMeant
<1> SUFFICES ASSUME NEW a \in SampleEvents, NEW b \in SampleEvents
             PROVE  (Fingerprint(a) = Fingerprint(b)) = SameGroup(a, b)
  BY DEF GroupedAsMeant
<1>1. Fingerprint(a) = Fingerprint(b) <=> SameGroup(a, b)
  BY SamplesAre, FingerprintsGroup
<1>2. SameGroup(a, b) \in BOOLEAN
  BY DEF SameGroup
<1>. QED BY <1>1, <1>2

\* The ingest path's pure parts make of a body what its sender meant: the run's
\* invariant, for a usize that has room for the run's envelopes.
THEOREM InputsAlwaysRead ==
  ASSUME Width > 25
  PROVE  Spec => []InputsReadAsMeant
<1>1. InputsReadAsMeant
  BY EnvelopesAreRead, SamplesGroup, FamiliesAreRight, OwnTagsStay DEF InputsReadAsMeant
<1>. QED BY <1>1, PTL
=============================================================================
