---------------------------- MODULE RequestProofs ----------------------------
(***************************************************************************)
(* Proofs about what a request passes through: the token buckets of the    *)
(* gateway, the choice of a route and the cron triggers, the dispatch to   *)
(* the routed artifact, the pool of processes and the local sandbox that   *)
(* run functions, the egress proxy those use, and the hot reload of the    *)
(* development server.  Each component has its own inductive invariant,    *)
(* stated over its values as arguments where a step is proved in several   *)
(* parts.                                                                  *)
(***************************************************************************)
EXTENDS Gateway, EgressProxy, ProcessIsolation, DevReload, CronTriggers, LocalIsolation, RequestDispatch, TLAPS, SequenceTheorems, FiniteSetTheorems, WellFoundedInduction

----------------------------------------------------------------------------
(* The gateway's token buckets: arithmetic.                                 *)

LEMMA LesserOf ==
  ASSUME NEW a \in Int, NEW b \in Int
  PROVE  Min({a, b}) = IF a <= b THEN a ELSE b
BY DEF Min

LEMMA Product ==
  ASSUME NEW a \in Nat, NEW b \in Nat
  PROVE  a * b \in Nat
OBVIOUS

LEMMA ProductNext ==
  ASSUME NEW a \in Nat, NEW b \in Nat
  PROVE  a * (b + 1) = a * b + a
OBVIOUS

LEMMA ProductMonotone ==
  ASSUME NEW a \in Nat, NEW b \in Nat, NEW c \in Nat, b <= c
  PROVE  a * b <= a * c
OBVIOUS

\* Rounding up: at least the quotient, and no more for less.
LEMMA RoundedUp ==
  ASSUME NEW d \in Nat \ {0}, NEW x \in Nat
  PROVE  /\ (x + d - 1) \div d \in Nat
         /\ d * ((x + d - 1) \div d) >= x
OBVIOUS

LEMMA RoundedUpMonotone ==
  ASSUME NEW d \in Nat \ {0}, NEW x \in Nat, NEW y \in Nat, x <= y
  PROVE  (x + d - 1) \div d <= (y + d - 1) \div d
OBVIOUS

----------------------------------------------------------------------------
(* One bucket.                                                              *)

\* The bucket b, the tokens i of one that is never evicted and the promise p of the key k: an
\* evicted bucket has no more than i, and once p has passed there is a token.
KeyInv(b, i, p, k) ==
  /\ b \in Buckets(k) \cup {Absent}
  /\ i \in Int /\ i >= Refilled(b, k)
  /\ p \in NoPromise..Longest(k)
  /\ p >= 0 => Refilled(b, k) + Tiers[k].rate * p >= Unit

LEMMA Constants ==
  ASSUME NEW k \in Keys
  PROVE  /\ Unit \in Nat \ {0} /\ Second \in Nat \ {0} /\ MaxIdle \in Nat
         /\ Tiers[k].rate \in Nat \ {0} /\ Tiers[k].burst \in Nat \ {0}
         /\ Tiers[k].rate * MaxIdle >= Tiers[k].burst /\ Tiers[k].burst >= Unit
BY GatewayConstants

LEMMA LongestType ==
  ASSUME NEW k \in Keys
  PROVE  Longest(k) \in Nat
<1>1. Tiers[k].rate * Second \in Nat \ {0}
  BY Constants
<1>2. (Unit + Tiers[k].rate * Second - 1) \div (Tiers[k].rate * Second) \in Nat
  BY <1>1, Constants, RoundedUp
<1> QED BY <1>2, Constants, Product DEF Longest

LEMMA RefilledAbsent ==
  ASSUME NEW k \in Keys
  PROVE  Refilled(Absent, k) = Tiers[k].burst
BY DEF Refilled

LEMMA RefilledPresent ==
  ASSUME NEW k \in Keys, NEW b \in Buckets(k)
  PROVE  /\ b.tokens \in Nat /\ b.tokens <= Tiers[k].burst /\ b.age \in Nat /\ b.age <= MaxIdle + 1 /\ b # Absent
         /\ Tiers[k].rate * b.age \in Nat
         /\ Refilled(b, k) = IF Tiers[k].burst <= b.tokens + Tiers[k].rate * b.age
                             THEN Tiers[k].burst ELSE b.tokens + Tiers[k].rate * b.age
<1>1. b.tokens \in Nat /\ b.tokens <= Tiers[k].burst /\ b.age \in Nat /\ b.age <= MaxIdle + 1
  BY Constants DEF Buckets
<1>2. b # Absent
  BY <1>1 DEF Absent
<1>3. Tiers[k].rate * b.age \in Nat
  BY <1>1, Constants, Product
<1> QED BY <1>1, <1>2, <1>3, Constants, LesserOf DEF Refilled

LEMMA RefilledRange ==
  ASSUME NEW k \in Keys, NEW b \in Buckets(k) \cup {Absent}
  PROVE  Refilled(b, k) \in Nat /\ Refilled(b, k) <= Tiers[k].burst
BY Constants, RefilledAbsent, RefilledPresent

\* A bucket that was just looked at has the tokens it was left with.
LEMMA RefilledFresh ==
  ASSUME NEW k \in Keys, NEW t \in Nat, t <= Tiers[k].burst
  PROVE  [tokens |-> t, age |-> 0] \in Buckets(k) /\ Refilled([tokens |-> t, age |-> 0], k) = t
<1>1. [tokens |-> t, age |-> 0] \in Buckets(k)
  BY Constants DEF Buckets
<1>2. Tiers[k].rate * 0 = 0
  BY Constants
<1> QED BY <1>1, <1>2, Constants, RefilledPresent

\* What a tick does: a rate more, up to the burst.
LEMMA RefilledOlder ==
  ASSUME NEW k \in Keys, NEW b \in Buckets(k)
  PROVE  LET n == [b EXCEPT !.age = Min({b.age + 1, MaxIdle + 1})]
         IN  /\ n \in Buckets(k)
             /\ Refilled(n, k) = IF Refilled(b, k) + Tiers[k].rate >= Tiers[k].burst
                                 THEN Tiers[k].burst ELSE Refilled(b, k) + Tiers[k].rate
<1> DEFINE n == [b EXCEPT !.age = Min({b.age + 1, MaxIdle + 1})]
<1>0. b.tokens \in Nat /\ b.tokens <= Tiers[k].burst /\ b.age \in Nat /\ b.age <= MaxIdle + 1
  BY RefilledPresent
<1>1. Min({b.age + 1, MaxIdle + 1}) = IF b.age + 1 <= MaxIdle + 1 THEN b.age + 1 ELSE MaxIdle + 1
  BY <1>0, Constants, LesserOf
<1>2. n.tokens = b.tokens /\ n.age = (IF b.age + 1 <= MaxIdle + 1 THEN b.age + 1 ELSE MaxIdle + 1)
  BY <1>1 DEF Buckets
<1>3. n \in Buckets(k)
  <2>1. Min({b.age + 1, MaxIdle + 1}) \in 0..MaxIdle + 1
    BY <1>0, <1>1, Constants
  <2> QED BY <2>1 DEF Buckets
<1> HIDE DEF n
<1>4. Refilled(n, k) = IF Tiers[k].burst <= n.tokens + Tiers[k].rate * n.age
                        THEN Tiers[k].burst ELSE n.tokens + Tiers[k].rate * n.age
  BY <1>3, RefilledPresent
<1>5. /\ Refilled(b, k) = IF Tiers[k].burst <= b.tokens + Tiers[k].rate * b.age
                           THEN Tiers[k].burst ELSE b.tokens + Tiers[k].rate * b.age
      /\ Tiers[k].rate * b.age \in Nat
  BY RefilledPresent
<1>6. Refilled(n, k) = IF Refilled(b, k) + Tiers[k].rate >= Tiers[k].burst
                        THEN Tiers[k].burst ELSE Refilled(b, k) + Tiers[k].rate
  <2>1. CASE b.age <= MaxIdle
    <3>1. n.age = b.age + 1
      BY <1>0, <1>2, <2>1, Constants
    <3>2. Tiers[k].rate * n.age = Tiers[k].rate * b.age + Tiers[k].rate
      BY <1>0, <3>1, Constants, ProductNext
    <3> QED BY <1>0, <1>2, <1>4, <1>5, <3>2, Constants
  <2>2. CASE b.age = MaxIdle + 1
    <3>1. n.age = b.age
      BY <1>0, <1>2, <2>2, Constants
    <3>2. Tiers[k].rate * b.age >= Tiers[k].burst
      <4>1. Tiers[k].rate * MaxIdle <= Tiers[k].rate * b.age
        BY <2>2, Constants, ProductMonotone
      <4>2. Tiers[k].rate * MaxIdle \in Nat /\ Tiers[k].rate * b.age \in Nat
        BY <1>0, Constants, Product
      <4> QED BY <4>1, <4>2, Constants
    <3> QED BY <1>0, <1>2, <1>4, <1>5, <3>1, <3>2, Constants
  <2> QED BY <1>0, <2>1, <2>2, Constants
<1> QED BY <1>3, <1>6 DEF n

\* A bucket that is evicted was full.
LEMMA RefilledIdle ==
  ASSUME NEW k \in Keys, NEW b \in Buckets(k), b.age > MaxIdle
  PROVE  Refilled(b, k) = Tiers[k].burst
<1>1. b.age \in Nat /\ Tiers[k].rate * b.age \in Nat
  BY RefilledPresent
<1>2. Tiers[k].rate * MaxIdle <= Tiers[k].rate * b.age
  BY <1>1, Constants, ProductMonotone
<1>3. Tiers[k].rate * MaxIdle \in Nat
  BY Constants, Product
<1> QED BY <1>1, <1>2, <1>3, Constants, RefilledPresent

LEMMA FullKeeps ==
  ASSUME NEW k \in Keys, NEW i \in Int, i >= Tiers[k].burst, NEW p \in NoPromise..Longest(k)
  PROVE  KeyInv(Absent, i, p, k)
<1>1. p >= 0 => Tiers[k].rate * p \in Nat
  BY LongestType, Constants, Product DEF NoPromise
<1> QED BY <1>1, RefilledAbsent, Constants DEF KeyInv

\* The wait of a rejection is long enough for a token, and no longer than Longest.
LEMMA WaitSuffices ==
  ASSUME NEW k \in Keys, NEW b \in Buckets(k) \cup {Absent}, ~RequestAllowed(b, k)
  PROVE  LET wait == Second * RetryAfterSeconds(b, k)
         IN  wait \in 0..Longest(k) /\ Refilled(b, k) + Tiers[k].rate * wait >= Unit
<1> DEFINE d == Tiers[k].rate * Second
           x == Unit - Refilled(b, k)
           q == (x + d - 1) \div d
<1>1. d \in Nat \ {0}
  BY Constants
<1>2. x \in Nat /\ x <= Unit /\ Refilled(b, k) \in Nat
  BY Constants, RefilledRange DEF RequestAllowed
<1>3. RetryAfterSeconds(b, k) = q
  BY DEF RetryAfterSeconds
<1>4. q \in Nat /\ d * q >= x
  <2> HIDE DEF d, x
  <2> QED BY <1>1, <1>2, RoundedUp
<1>5. q <= (Unit + d - 1) \div d /\ (Unit + d - 1) \div d \in Nat
  <2> HIDE DEF d, x
  <2> QED BY <1>1, <1>2, Constants, RoundedUp, RoundedUpMonotone
<1> HIDE DEF q
<1>6. Second * q \in Nat /\ Second * q <= Longest(k)
  <2>1. Longest(k) = Second * ((Unit + d - 1) \div d)
    BY DEF Longest
  <2> QED BY <1>4, <1>5, <2>1, Constants, Product, ProductMonotone
<1>7. Tiers[k].rate * (Second * q) = d * q
  BY <1>4, Constants
<1>8. Second * q \in 0..Longest(k)
  BY <1>6, LongestType
<1>9. Refilled(b, k) + Tiers[k].rate * (Second * q) >= Unit
  <2> HIDE DEF d
  <2>1. d * q \in Nat
    BY <1>1, <1>4, Product
  <2> QED BY <1>2, <1>4, <1>7, <2>1, Constants
<1> QED BY <1>3, <1>8, <1>9

----------------------------------------------------------------------------
(* The operations, for one key.                                             *)

\* What a check makes of the promise.
Promised(b, p, k) ==
  IF RequestAllowed(b, k) THEN NoPromise
  ELSE LET wait == Second * RetryAfterSeconds(b, k)
       IN  IF p = NoPromise THEN wait ELSE Min({wait, p})

LEMMA CheckKeeps ==
  ASSUME NEW k \in Keys, NEW b, NEW i, NEW p, KeyInv(b, i, p, k)
  PROVE  KeyInv(CheckedBucket(b, k), IF RequestAllowed(b, k) THEN i - Unit ELSE i, Promised(b, p, k), k)
<1>1. /\ b \in Buckets(k) \cup {Absent} /\ i \in Int /\ i >= Refilled(b, k) /\ p \in NoPromise..Longest(k)
      /\ p >= 0 => Refilled(b, k) + Tiers[k].rate * p >= Unit
  BY DEF KeyInv
<1>2. Refilled(b, k) \in Nat /\ Refilled(b, k) <= Tiers[k].burst
  BY <1>1, RefilledRange
<1>3. CASE RequestAllowed(b, k)
  <2>1. Refilled(b, k) - Unit \in Nat /\ Refilled(b, k) - Unit <= Tiers[k].burst
    BY <1>2, <1>3, Constants DEF RequestAllowed
  <2>2. CheckedBucket(b, k) = [tokens |-> Refilled(b, k) - Unit, age |-> 0] /\ Promised(b, p, k) = NoPromise
    BY <1>3 DEF CheckedBucket, Promised
  <2>3. CheckedBucket(b, k) \in Buckets(k) /\ Refilled(CheckedBucket(b, k), k) = Refilled(b, k) - Unit
    BY <2>1, <2>2, RefilledFresh
  <2>4. NoPromise \in NoPromise..Longest(k) /\ ~(NoPromise >= 0)
    BY LongestType DEF NoPromise
  <2> QED BY <1>1, <1>2, <1>3, <2>2, <2>3, <2>4, Constants DEF KeyInv
<1>4. CASE ~RequestAllowed(b, k)
  <2> DEFINE wait == Second * RetryAfterSeconds(b, k)
  <2>1. CheckedBucket(b, k) = [tokens |-> Refilled(b, k), age |-> 0]
    BY <1>4 DEF CheckedBucket
  <2>2. CheckedBucket(b, k) \in Buckets(k) /\ Refilled(CheckedBucket(b, k), k) = Refilled(b, k)
    BY <1>2, <2>1, RefilledFresh
  <2>3. wait \in 0..Longest(k) /\ Refilled(b, k) + Tiers[k].rate * wait >= Unit
    BY <1>1, <1>4, WaitSuffices
  <2>4. Promised(b, p, k) = IF p = NoPromise THEN wait ELSE Min({wait, p})
    BY <1>4 DEF Promised
  <2> HIDE DEF wait
  <2>5. p \in Int /\ wait \in Int /\ (p # NoPromise => p >= 0)
    BY <1>1, <2>3, LongestType DEF NoPromise
  <2>6. Promised(b, p, k) = wait \/ (Promised(b, p, k) = p /\ p >= 0)
    BY <2>4, <2>5, LesserOf
  <2>7. /\ Promised(b, p, k) \in NoPromise..Longest(k)
        /\ Refilled(b, k) + Tiers[k].rate * Promised(b, p, k) >= Unit
    BY <1>1, <2>3, <2>6, LongestType DEF NoPromise
  <2> QED BY <1>1, <1>4, <2>2, <2>7 DEF KeyInv
<1> QED BY <1>3, <1>4

Older(b) == IF b = Absent THEN Absent ELSE [b EXCEPT !.age = Min({b.age + 1, MaxIdle + 1})]

LEMMA TickKeeps ==
  ASSUME NEW k \in Keys, NEW b, NEW i, NEW p, KeyInv(b, i, p, k)
  PROVE  KeyInv(Older(b), Min({Tiers[k].burst, i + Tiers[k].rate}), IF p > 0 THEN p - 1 ELSE p, k)
<1> DEFINE j == Min({Tiers[k].burst, i + Tiers[k].rate})
           q == IF p > 0 THEN p - 1 ELSE p
<1>1. /\ b \in Buckets(k) \cup {Absent} /\ i \in Int /\ i >= Refilled(b, k) /\ p \in NoPromise..Longest(k)
      /\ p >= 0 => Refilled(b, k) + Tiers[k].rate * p >= Unit
  BY DEF KeyInv
<1>2. Refilled(b, k) \in Nat /\ Refilled(b, k) <= Tiers[k].burst
  BY <1>1, RefilledRange
<1>3. j \in Int /\ j = IF Tiers[k].burst <= i + Tiers[k].rate THEN Tiers[k].burst ELSE i + Tiers[k].rate
  BY <1>1, Constants, LesserOf
<1>4. p \in Int /\ p >= -1 /\ q \in NoPromise..Longest(k) /\ q \in Int
  BY <1>1, LongestType DEF NoPromise
<1>5. CASE b = Absent
  <2>1. Older(b) = Absent /\ Refilled(b, k) = Tiers[k].burst
    BY <1>5, RefilledAbsent DEF Older
  <2>2. j >= Tiers[k].burst
    BY <1>1, <1>3, <2>1, Constants
  <2> QED BY <1>3, <1>4, <2>1, <2>2, FullKeeps
<1>6. CASE b \in Buckets(k)
  <2>1. Older(b) = [b EXCEPT !.age = Min({b.age + 1, MaxIdle + 1})]
    BY <1>6, RefilledPresent DEF Older
  <2>2. /\ Older(b) \in Buckets(k)
        /\ Refilled(Older(b), k) = IF Refilled(b, k) + Tiers[k].rate >= Tiers[k].burst
                                   THEN Tiers[k].burst ELSE Refilled(b, k) + Tiers[k].rate
    BY <1>6, <2>1, RefilledOlder
  <2>3. j >= Refilled(Older(b), k)
    BY <1>1, <1>2, <1>3, <2>2, Constants
  <2>4. ASSUME q >= 0 PROVE Refilled(Older(b), k) + Tiers[k].rate * q >= Unit
    <3>1. Tiers[k].rate * q \in Nat
      BY <1>4, <2>4, Constants, Product
    <3>2. CASE Refilled(b, k) + Tiers[k].rate >= Tiers[k].burst
      BY <2>2, <3>1, <3>2, Constants
    <3>3. CASE ~(Refilled(b, k) + Tiers[k].rate >= Tiers[k].burst)
      <4>1. CASE p > 0
        <5>1. q \in Nat /\ p = q + 1
          BY <1>4, <2>4, <4>1
        <5>2. Tiers[k].rate * p = Tiers[k].rate * q + Tiers[k].rate
          BY <5>1, Constants, ProductNext
        <5> HIDE DEF q
        <5> QED BY <1>1, <1>2, <1>4, <2>2, <3>1, <3>3, <4>1, <5>2, Constants
      <4>2. CASE ~(p > 0)
        <5>1. q = p
          BY <4>2
        <5> HIDE DEF q
        <5> QED BY <1>1, <1>2, <1>4, <2>2, <2>4, <3>1, <3>3, <5>1, Constants
      <4> QED BY <4>1, <4>2
    <3> QED BY <3>2, <3>3
  <2> HIDE DEF j, q
  <2>5. KeyInv(Older(b), j, q, k)
    BY <1>3, <1>4, <2>2, <2>3, <2>4 DEF KeyInv
  <2> QED BY <2>5 DEF j, q
<1> QED BY <1>1, <1>5, <1>6

LEMMA PruneKeeps ==
  ASSUME NEW k \in Keys, NEW b, NEW i, NEW p, KeyInv(b, i, p, k)
  PROVE  KeyInv(IF b.age > MaxIdle THEN Absent ELSE b, i, p, k)
<1>1. /\ b \in Buckets(k) \cup {Absent} /\ i \in Int /\ i >= Refilled(b, k) /\ p \in NoPromise..Longest(k)
  BY DEF KeyInv
<1>2. CASE b.age > MaxIdle
  <2>1. b \in Buckets(k)
    BY <1>1, <1>2, Constants DEF Absent
  <2>2. Refilled(b, k) = Tiers[k].burst
    BY <1>2, <2>1, RefilledIdle
  <2> QED BY <1>1, <1>2, <2>2, FullKeeps
<1>3. CASE ~(b.age > MaxIdle)
  BY <1>3
<1> QED BY <1>2, <1>3

LEMMA ResetKeeps ==
  ASSUME NEW k \in Keys, NEW b, NEW i, NEW p, KeyInv(b, i, p, k)
  PROVE  KeyInv(Absent, Tiers[k].burst, p, k)
<1>1. Tiers[k].burst \in Int /\ Tiers[k].burst >= Tiers[k].burst
  BY Constants
<1>2. p \in NoPromise..Longest(k)
  BY DEF KeyInv
<1> QED BY <1>1, <1>2, FullKeeps

----------------------------------------------------------------------------
(* The gateway.                                                             *)

GatewayInv ==
  /\ DOMAIN buckets = Keys /\ DOMAIN ideal = Keys /\ DOMAIN promised = Keys
  /\ \A k \in Keys : KeyInv(buckets[k], ideal[k], promised[k], k)
  /\ inFlight \in [Requests -> {"none", "hashing", "hashing for project", "proxying"}]
  /\ gateway \in {"open", "closing", "closed"}

LEMMA InitGateway == GatewayInit => GatewayInv
<1> SUFFICES ASSUME GatewayInit PROVE GatewayInv
  OBVIOUS
<1>1. ASSUME NEW k \in Keys PROVE KeyInv(buckets[k], ideal[k], promised[k], k)
  <2>1. buckets[k] = Absent /\ ideal[k] = Tiers[k].burst /\ promised[k] = NoPromise
    BY DEF GatewayInit
  <2>2. NoPromise \in NoPromise..Longest(k) /\ Tiers[k].burst \in Int /\ Tiers[k].burst >= Tiers[k].burst
    BY LongestType, Constants DEF NoPromise
  <2> QED BY <2>1, <2>2, FullKeeps
<1> QED BY <1>1 DEF GatewayInit, GatewayInv

LEMMA EvaluateKeeps ==
  ASSUME GatewayInv, NEW asked, Evaluate(asked)
  PROVE  /\ DOMAIN buckets' = Keys /\ DOMAIN ideal' = Keys /\ DOMAIN promised' = Keys
         /\ \A k \in Keys : KeyInv(buckets'[k], ideal'[k], promised'[k], k)
<1>1. DOMAIN buckets' = Keys /\ DOMAIN ideal' = Keys /\ DOMAIN promised' = Keys
  BY DEF Evaluate
<1>2. ASSUME NEW k \in Keys PROVE KeyInv(buckets'[k], ideal'[k], promised'[k], k)
  <2>1. KeyInv(buckets[k], ideal[k], promised[k], k)
    BY DEF GatewayInv
  <2>2. CASE k \in Reached(asked)
    <3>1. /\ buckets'[k] = CheckedBucket(buckets[k], k)
          /\ ideal'[k] = IF RequestAllowed(buckets[k], k) THEN ideal[k] - Unit ELSE ideal[k]
          /\ promised'[k] = Promised(buckets[k], promised[k], k)
      BY <2>2 DEF Evaluate, Promised
    <3> QED BY <2>1, <3>1, CheckKeeps
  <2>3. CASE k \notin Reached(asked)
    BY <2>1, <2>3 DEF Evaluate
  <2> QED BY <2>2, <2>3
<1> QED BY <1>1, <1>2

LEMMA StepGateway == GatewayInv /\ [GatewayNext]_gatewayVars => GatewayInv'
<1> SUFFICES ASSUME GatewayInv, [GatewayNext]_gatewayVars PROVE GatewayInv'
  OBVIOUS
<1> USE DEF GatewayInv
<1>1. ASSUME NEW r \in Requests, NEW k \in {AnonymousKey, ProjectKey}, ArriveAnonymous(r, {k}) PROVE GatewayInv'
  BY <1>1, EvaluateKeeps DEF ArriveAnonymous, AfterTiers
<1>2. ASSUME NEW r \in Requests, Hashed(r) PROVE GatewayInv'
  BY <1>2, EvaluateKeeps DEF Hashed, AfterTiers
<1>3. ASSUME NEW r \in Requests, NEW withProject \in BOOLEAN, ArriveWithToken(r, withProject) PROVE GatewayInv'
  BY <1>3 DEF ArriveWithToken
<1>4. ASSUME NEW r \in Requests, ProxyEnds(r) PROVE GatewayInv'
  BY <1>4 DEF ProxyEnds
<1>5. CASE Prune
  BY <1>5, PruneKeeps DEF Prune
<1>6. CASE CloseGateway
  BY <1>6 DEF CloseGateway
<1>7. CASE GatewayTick
  <2>1. /\ buckets' = [k \in Keys |-> Older(buckets[k])]
        /\ ideal' = [k \in Keys |-> Min({Tiers[k].burst, ideal[k] + Tiers[k].rate})]
        /\ promised' = [k \in Keys |-> IF promised[k] > 0 THEN promised[k] - 1 ELSE promised[k]]
        /\ UNCHANGED <<inFlight, gateway>>
    BY <1>7 DEF GatewayTick, Older
  <2> QED BY <2>1, TickKeeps
<1>8. ASSUME NEW k \in Keys, ResetKey(k) PROVE GatewayInv'
  <2>1. \A j \in Keys : buckets'[j] = (IF j = k THEN Absent ELSE buckets[j])
                     /\ ideal'[j] = (IF j = k THEN Tiers[k].burst ELSE ideal[j]) /\ promised'[j] = promised[j]
    BY <1>8 DEF ResetKey
  <2>2. KeyInv(Absent, Tiers[k].burst, promised[k], k)
    BY ResetKeeps
  <2>3. \A j \in Keys : KeyInv(buckets'[j], ideal'[j], promised'[j], j)
    BY <2>1, <2>2
  <2> QED BY <1>8, <2>3 DEF ResetKey
<1>9. CASE UNCHANGED gatewayVars
  BY <1>9 DEF gatewayVars
<1> QED BY <1>1, <1>2, <1>3, <1>4, <1>5, <1>6, <1>7, <1>8, <1>9 DEF GatewayNext

\* A key gets no more than its burst and its rate allow, though idle buckets are evicted and
\* start full, and whoever waited for Retry-After is let through, for any rates, bursts and
\* idle times that fill a bucket before it is evicted, and any number of requests.
THEOREM GatewayIsSafe == GatewaySpec => []GatewaySafe
<1>1. ASSUME GatewayInv PROVE GatewaySafe
  <2>1. ASSUME NEW k \in Keys
        PROVE  /\ buckets[k] \in Buckets(k) \cup {Absent} /\ ideal[k] \in Int /\ promised[k] \in NoPromise..Longest(k)
               /\ ideal[k] >= 0
               /\ promised[k] = 0 => RequestAllowed(buckets[k], k)
    <3>1. KeyInv(buckets[k], ideal[k], promised[k], k)
      BY <1>1 DEF GatewayInv
    <3>2. Refilled(buckets[k], k) \in Nat
      BY <3>1, RefilledRange DEF KeyInv
    <3>3. ideal[k] >= 0
      BY <3>1, <3>2 DEF KeyInv
    <3>4. promised[k] = 0 => Refilled(buckets[k], k) >= Unit
      <4>1. Tiers[k].rate * 0 = 0
        BY Constants
      <4> QED BY <3>1, <3>2, <4>1 DEF KeyInv
    <3> QED BY <3>1, <3>3, <3>4 DEF KeyInv, RequestAllowed
  <2> QED BY <1>1, <2>1 DEF GatewayInv, GatewaySafe, GatewayTypeOK, WithinRate, RetryAfterHonoured
<1> QED BY <1>1, InitGateway, StepGateway, PTL DEF GatewaySpec

----------------------------------------------------------------------------
(* The egress proxy.                                                        *)

\* What validateDestination lets through is forbidden in no way of writing it: an address
\* that embeds a v4 address is judged by it, but for :: and ::1, which are ranges of their own.
LEMMA JudgedNotForbidden ==
  ASSUME NEW a \in Addresses, ~IsIpBlocked(a)
  PROVE  ~Forbidden(a)
<1>1. CASE a.family = 4
  BY <1>1 DEF IsIpBlocked, Forbidden, Denotes
<1>2. CASE a.family = 6
  <2>1. a.value \in Nat
    BY <1>2 DEF Addresses, V4, V6
  <2>2. a.value <= 1 => BlockedV6(a.value)
    <3>1. a.value <= 1 => a.value = 0 \/ a.value = 1
      BY <2>1
    <3> QED BY <3>1, OwnRanges
  <2>3. CASE a.value \div 2^V4Bits \in {0, MappedPrefix}
    <3>1. Denotes(a) = [family |-> 4, value |-> a.value % 2^V4Bits]
      BY <1>2, <2>3 DEF Denotes
    <3>2. ~BlockedV4(a.value % 2^V4Bits)
      BY <1>2, <2>1, <2>2, <2>3 DEF IsIpBlocked
    <3> QED BY <3>1, <3>2 DEF Forbidden
  <2>4. CASE a.value \div 2^V4Bits \notin {0, MappedPrefix}
    <3>1. Denotes(a) = a
      BY <2>4 DEF Denotes
    <3>2. ~BlockedV6(a.value)
      BY <1>2, <2>4 DEF IsIpBlocked
    <3> QED BY <1>2, <3>1, <3>2 DEF Forbidden
  <2> QED BY <2>3, <2>4
<1> QED BY <1>1, <1>2 DEF Addresses, V4, V6

LEMMA AnswersAreAddresses ==
  ASSUME NEW host \in Hosts, NEW answer \in Answers(host), Acceptable(answer)
  PROVE  answer[1] \in Addresses /\ ~Forbidden(answer[1])
<1>1. answer \in Seq(Addresses) /\ answer # <<>>
  BY EgressConstants DEF Answers, Hosts, Acceptable
<1>2. 1 \in DOMAIN answer /\ answer[1] \in Addresses
  BY <1>1
<1> QED BY <1>2, JudgedNotForbidden DEF Acceptable

\* The entry of activeConnections is never above the connections that count, and is their
\* number while the first registration lasts; before it nobody has connected.
CountInv ==
  /\ ActiveCount <= Cardinality(Counted) /\ ActiveCount <= MaxConnections
  /\ generation = 1 /\ registered => ActiveCount = Cardinality(Counted)
  /\ generation = 0 => ~registered /\ counted = -1 /\ \A c \in Connections : conns[c].pc = "idle"

EgressInv == EgressTypeOK /\ NeverForbidden /\ CountInv

LEMMA NoConnType == NoConn \in Conn /\ NoConn.pc = "idle"
<1>1. Nowhere \in Addresses
  BY EgressConstants DEF Nowhere
<1> QED BY <1>1 DEF NoConn, Conn, Hosts

LEMMA CountedFinite ==
  ASSUME NEW S \in SUBSET Connections
  PROVE  /\ IsFiniteSet(S) /\ Cardinality(S) \in Nat /\ Cardinality(S) <= Cardinality(Connections)
         /\ Cardinality(Connections) \in Nat
BY EgressConstants, FS_Subset, FS_CardinalityType

LEMMA InitEgress == EgressInit => EgressInv
<1> SUFFICES ASSUME EgressInit PROVE EgressInv
  OBVIOUS
<1>1. \A c \in Connections : conns[c].pc = "idle"
  BY NoConnType DEF EgressInit
<1>2. Counted = {}
  BY <1>1 DEF Counted
<1>3. Cardinality(Counted) = 0 /\ Cardinality(Connections) \in Nat
  BY <1>2, FS_EmptySet, CountedFinite
<1>4. EgressTypeOK
  <2>1. -1 \in -1..Cardinality(Connections)
    BY <1>3
  <2>2. 0 \in 0..MaxRegistrations
    BY EgressConstants
  <2> QED BY <2>1, <2>2, NoConnType DEF EgressInit, EgressTypeOK
<1>5. CountInv
  BY <1>1, <1>3, EgressConstants DEF EgressInit, CountInv, ActiveCount
<1> QED BY <1>1, <1>4, <1>5 DEF EgressInv, NeverForbidden

LEMMA StepEgress == EgressInv /\ [EgressNext]_egressVars => EgressInv'
<1> SUFFICES ASSUME EgressInv, [EgressNext]_egressVars PROVE EgressInv'
  OBVIOUS
<1>0. /\ registered \in BOOLEAN /\ counted \in Int /\ counted >= -1 /\ conns \in [Connections -> Conn]
      /\ generation \in 0..MaxRegistrations /\ MaxRegistrations \in Nat /\ MaxConnections \in Nat \ {0}
  <2>1. Cardinality(Connections) \in Nat
    BY CountedFinite
  <2> QED BY <2>1, EgressConstants DEF EgressInv, EgressTypeOK
<1>1. /\ IsFiniteSet(Counted) /\ Cardinality(Counted) \in Nat /\ Cardinality(Counted) <= Cardinality(Connections)
      /\ Cardinality(Connections) \in Nat
  BY CountedFinite DEF Counted
<1>2. /\ IsFiniteSet(Counted') /\ Cardinality(Counted') \in Nat /\ Cardinality(Counted') <= Cardinality(Connections)
  <2>1. Counted' \in SUBSET Connections
    BY DEF Counted
  <2> QED BY <2>1, CountedFinite
<1>3. /\ ActiveCount <= Cardinality(Counted) /\ ActiveCount <= MaxConnections
      /\ generation = 1 /\ registered => ActiveCount = Cardinality(Counted)
      /\ generation = 0 => ~registered /\ counted = -1 /\ \A c \in Connections : conns[c].pc = "idle"
  BY DEF EgressInv, CountInv
<1>4. \A c \in Connections : conns[c].pc \in {"tunnel", "forward", "streaming"} => ~Forbidden(conns[c].address)
  BY DEF EgressInv, NeverForbidden
<1>t. counted' \in Int /\ counted' >= -1 /\ ActiveCount' <= Cardinality(Counted') => counted' \in -1..Cardinality(Connections)
  BY <1>1, <1>2 DEF ActiveCount
\* A connection begins to count, or no longer does.
<1>a. ASSUME NEW c \in Connections, NEW k \in Conn, conns' = [conns EXCEPT ![c] = k],
             k.pc \in {"tunnel", "forward", "streaming"} => ~Forbidden(k.address)
      PROVE  /\ conns' \in [Connections -> Conn]
             /\ NeverForbidden'
             /\ Counted' = IF k.pc \in {"tunnel", "forward"} THEN Counted \cup {c} ELSE Counted \ {c}
  <2>1. conns' \in [Connections -> Conn]
    BY <1>0, <1>a
  <2>2. NeverForbidden'
    BY <1>0, <1>4, <1>a DEF NeverForbidden
  <2>3. Counted' = IF k.pc \in {"tunnel", "forward"} THEN Counted \cup {c} ELSE Counted \ {c}
    BY <1>0, <1>a DEF Counted
  <2> QED BY <2>1, <2>2, <2>3
<1>b. ASSUME UNCHANGED conns PROVE NeverForbidden' /\ Counted' = Counted
  BY <1>4, <1>b DEF NeverForbidden, Counted
<1>5. CASE Register
  <2>1. /\ ~registered /\ registered' = TRUE /\ generation' = generation + 1 /\ generation < MaxRegistrations
        /\ counted' = IF counted = -1 THEN 0 ELSE counted
        /\ UNCHANGED conns
    BY <1>5 DEF Register
  <2>2. ActiveCount' = ActiveCount /\ counted' \in Int /\ counted' >= -1
    BY <1>0, <2>1 DEF ActiveCount
  <2>3. Counted' = Counted
    BY <1>b, <2>1
  <2>4. generation' = 1 => ActiveCount' = Cardinality(Counted')
    <3>1. ASSUME generation = 0 PROVE Counted = {} /\ ActiveCount = 0
      BY <1>3, <3>1 DEF Counted, ActiveCount
    <3>2. generation' = 1 => generation = 0
      BY <1>0, <2>1
    <3> QED BY <2>2, <2>3, <3>1, <3>2, FS_EmptySet
  <2>5. CountInv'
    BY <1>0, <1>3, <2>1, <2>2, <2>3, <2>4 DEF CountInv
  <2>6. EgressTypeOK'
    <3>1. counted' \in -1..Cardinality(Connections)
      BY <1>t, <1>3, <2>2, <2>3
    <3>2. generation' \in 0..MaxRegistrations
      BY <1>0, <2>1
    <3> QED BY <1>0, <2>1, <3>1, <3>2 DEF EgressTypeOK
  <2> QED BY <1>b, <2>1, <2>5, <2>6 DEF EgressInv
<1>6. CASE Unregister
  <2>1. registered /\ registered' = FALSE /\ counted' = -1 /\ UNCHANGED <<conns, generation>>
    BY <1>6 DEF Unregister
  <2>2. ActiveCount' = 0 /\ Counted' = Counted
    BY <1>b, <2>1 DEF ActiveCount
  <2>3. CountInv'
    BY <1>0, <1>1, <1>3, <2>1, <2>2 DEF CountInv
  <2>4. EgressTypeOK'
    <3>1. -1 \in -1..Cardinality(Connections)
      BY <1>1
    <3> QED BY <1>0, <2>1, <3>1 DEF EgressTypeOK
  <2> QED BY <1>b, <2>1, <2>3, <2>4 DEF EgressInv
\* The steps of a connection: its state is k afterwards, and the entry follows.
<1>c. ASSUME NEW c \in Connections, NEW k \in Conn, conns' = [conns EXCEPT ![c] = k], generation # 0,
             k.pc \in {"tunnel", "forward", "streaming"} => ~Forbidden(k.address),
             UNCHANGED <<registered, generation>>,
             \/ /\ k.pc \notin {"tunnel", "forward"} /\ conns[c].pc \notin {"tunnel", "forward"} /\ UNCHANGED counted
             \/ /\ k.pc \in {"tunnel", "forward"} /\ conns[c].pc = "resolving"
                /\ ActiveCount < MaxConnections /\ counted' = ActiveCount + 1
             \/ /\ k.pc \notin {"tunnel", "forward"} /\ conns[c].pc \in {"tunnel", "forward"} /\ counted' = Decremented
      PROVE  EgressInv'
  <2>1. /\ conns' \in [Connections -> Conn] /\ NeverForbidden'
        /\ Counted' = IF k.pc \in {"tunnel", "forward"} THEN Counted \cup {c} ELSE Counted \ {c}
    BY <1>a, <1>c
  <2>2. c \in Counted <=> conns[c].pc \in {"tunnel", "forward"}
    BY DEF Counted
  <2>3. /\ counted' \in Int /\ counted' >= -1 /\ ActiveCount' <= Cardinality(Counted') /\ ActiveCount' <= MaxConnections
        /\ generation = 1 /\ registered => ActiveCount' = Cardinality(Counted')
    <3>1. CASE k.pc \notin {"tunnel", "forward"} /\ conns[c].pc \notin {"tunnel", "forward"} /\ UNCHANGED counted
      <4>1. Counted' = Counted
        BY <2>1, <2>2, <3>1
      <4> QED BY <1>0, <1>3, <3>1, <4>1 DEF ActiveCount
    <3>2. CASE /\ k.pc \in {"tunnel", "forward"} /\ conns[c].pc = "resolving"
               /\ ActiveCount < MaxConnections /\ counted' = ActiveCount + 1
      <4>1. Cardinality(Counted') = Cardinality(Counted) + 1
        BY <1>1, <2>1, <2>2, <3>2, FS_AddElement
      <4>2. ActiveCount \in Nat /\ ActiveCount' = ActiveCount + 1
        BY <1>0, <3>2 DEF ActiveCount
      <4> QED BY <1>0, <1>1, <1>3, <3>2, <4>1, <4>2
    <3>3. CASE /\ k.pc \notin {"tunnel", "forward"} /\ conns[c].pc \in {"tunnel", "forward"} /\ counted' = Decremented
      <4>1. Cardinality(Counted') = Cardinality(Counted) - 1
        BY <1>1, <2>1, <2>2, <3>3, FS_RemoveElement
      <4>2. /\ ActiveCount \in Nat /\ ActiveCount' = IF ActiveCount = 0 THEN 0 ELSE ActiveCount - 1
            /\ counted' \in Int /\ counted' >= -1
        BY <1>0, <3>3 DEF ActiveCount, Decremented
      <4> QED BY <1>0, <1>1, <1>2, <1>3, <4>1, <4>2
    <3> QED BY <1>c, <3>1, <3>2, <3>3
  <2>4. CountInv'
    BY <1>c, <2>3 DEF CountInv
  <2>5. counted' \in -1..Cardinality(Connections)
    BY <1>t, <2>3
  <2>6. EgressTypeOK'
    BY <1>0, <1>c, <2>1, <2>5 DEF EgressTypeOK
  <2> QED BY <2>1, <2>4, <2>6 DEF EgressInv
<1>7. ASSUME NEW c \in Connections, NEW kind \in {"tunnel", "forward"}, NEW host \in Hosts, Ask(c, kind, host)
      PROVE  EgressInv'
  <2> DEFINE k == [pc |-> "resolving", kind |-> kind, host |-> host, address |-> Nowhere]
  <2>1. k \in Conn /\ k.pc = "resolving"
    BY EgressConstants DEF Conn, Nowhere
  <2>2. /\ conns[c].pc = "idle" /\ registered /\ conns' = [conns EXCEPT ![c] = k]
        /\ UNCHANGED <<registered, counted, generation>>
    BY <1>7 DEF Ask
  <2> HIDE DEF k
  <2> QED BY <1>3, <1>c, <2>1, <2>2
<1>8. ASSUME NEW c \in Connections, NEW answer \in Answers(conns[c].host), Connect(c, answer)
      PROVE  EgressInv'
  <2> DEFINE k == [conns[c] EXCEPT !.pc = conns[c].kind, !.address = answer[1]]
  <2>1. conns[c] \in Conn /\ conns[c].kind \in {"tunnel", "forward"} /\ conns[c].host \in Hosts
    BY <1>0 DEF Conn
  <2>2. answer[1] \in Addresses /\ ~Forbidden(answer[1])
    BY <1>8, <2>1, AnswersAreAddresses DEF Connect
  <2>3. k \in Conn /\ k.pc \in {"tunnel", "forward"} /\ k.address = answer[1]
    BY <2>1, <2>2 DEF Conn
  <2>4. /\ conns[c].pc = "resolving" /\ ActiveCount < MaxConnections /\ counted' = ActiveCount + 1
        /\ UNCHANGED <<registered, generation>>
        /\ conns' = [conns EXCEPT ![c] = k]
    BY <1>8 DEF Connect
  <2> HIDE DEF k
  <2> QED BY <1>3, <1>c, <2>2, <2>3, <2>4
<1>9. ASSUME NEW c \in Connections, Deny(c) \/ StreamEnds(c) \/ ConnectionEnds(c)
      PROVE  EgressInv'
  BY <1>3, <1>9, <1>c, NoConnType DEF Deny, StreamEnds, ConnectionEnds
<1>10. ASSUME NEW c \in Connections, ResponseHead(c) PROVE EgressInv'
  <2> DEFINE k == [conns[c] EXCEPT !.pc = "streaming"]
  <2>1. k \in Conn /\ k.pc = "streaming" /\ k.address = conns[c].address
    BY <1>0 DEF Conn
  <2>2. /\ conns[c].pc = "forward" /\ conns' = [conns EXCEPT ![c] = k] /\ counted' = Decremented
        /\ UNCHANGED <<registered, generation>>
    BY <1>0, <1>10 DEF ResponseHead
  <2> HIDE DEF k
  <2> QED BY <1>3, <1>4, <1>c, <2>1, <2>2
<1>11. CASE UNCHANGED egressVars
  BY <1>0, <1>3, <1>4, <1>11 DEF egressVars, EgressInv, EgressTypeOK, NeverForbidden, CountInv, Counted, ActiveCount
<1> QED BY <1>5, <1>6, <1>7, <1>8, <1>9, <1>10, <1>11 DEF EgressNext

\* No connection leads to a blocked address, whatever a name resolves to and however an
\* address is written, and the limit of a registration holds, for any number of connections,
\* any ranges and any widths of addresses.
THEOREM EgressIsSafe == EgressSpec => []EgressSafe
<1>1. EgressInv => EgressSafe
  BY DEF EgressInv, EgressSafe, CountInv, WithinLimit
<1> QED BY <1>1, InitEgress, StepEgress, PTL DEF EgressSpec

LEMMA LeastNumber ==
  ASSUME NEW S \in SUBSET Nat, S # {}
  PROVE  \E j \in S : \A i \in S : j <= i
<1>1. PICK j \in S : \A i \in S : ~(<<i, j>> \in OpToRel(<, Nat))
  BY NatLessThanWellFounded, WFMin
<1>2. \A i \in S : ~(i < j)
  BY <1>1 DEF OpToRel
<1> QED BY <1>2

----------------------------------------------------------------------------
(* The pool of processes: the inductive invariant, over the processes ps,   *)
(* the calls cs, the pool po and the order re in which its keys were used.  *)

Line == [for : ProcCallers, ran : Codes]
CallType == [pc : {"idle", "waiting", "reading"}, process : Nat, key : PoolKeys \cup {"none"}, code : Codes \cup {"none"}]

CallsTyped(ps, cs) ==
  /\ ps \in Seq(Process) /\ cs \in [ProcCallers -> CallType]
  /\ \A c \in ProcCallers : cs[c].pc # "idle" =>
       cs[c].process \in DOMAIN ps /\ cs[c].code \in Codes /\ cs[c].key \in PoolKeys

\* The promise chain of a process holds the calls that are on it, each once, and only its
\* head has written.
Chained(ps, cs) ==
  /\ \A p \in DOMAIN ps : \A i \in DOMAIN ps[p].waiting :
       cs[ps[p].waiting[i]].pc # "idle" /\ cs[ps[p].waiting[i]].process = p
  /\ \A p \in DOMAIN ps : \A i, j \in DOMAIN ps[p].waiting : ps[p].waiting[i] = ps[p].waiting[j] => i = j
  /\ \A c \in ProcCallers : cs[c].pc # "idle" =>
       \E i \in DOMAIN ps[cs[c].process].waiting : ps[cs[c].process].waiting[i] = c
  /\ \A c \in ProcCallers : cs[c].pc = "reading" => ps[cs[c].process].waiting[1] = c

\* The pipes hold at most the message of the call c, or its answer.
Serves(stdin, stdout, c, code) ==
  /\ Len(stdin) + Len(stdout) <= 1
  /\ \A i \in DOMAIN stdin : stdin[i] = c
  /\ \A i \in DOMAIN stdout : stdout[i].for = c /\ stdout[i].ran = code

\* The pipes of a process serve the call that reads; without one a live process has
\* empty pipes.
Piped(ps, cs) ==
  /\ \A c \in ProcCallers : cs[c].pc = "reading" =>
       Serves(ps[cs[c].process].stdin, ps[cs[c].process].stdout, c, cs[c].code)
  /\ \A p \in DOMAIN ps : ps[p].state = "live" /\ (ps[p].stdin # <<>> \/ ps[p].stdout # <<>>) =>
       \E c \in ProcCallers : cs[c].pc = "reading" /\ cs[c].process = p

CallsInv(ps, cs) == CallsTyped(ps, cs) /\ Chained(ps, cs) /\ Piped(ps, cs)

PoolInv(po, re, ps) ==
  /\ po \in [PoolKeys -> Nat] /\ re \in Seq(PoolKeys)
  /\ \A k \in PoolKeys : po[k] > 0 => po[k] \in DOMAIN ps /\ ps[po[k]].key = k
  /\ \A k \in PoolKeys : po[k] > 0 => \E i \in DOMAIN re : re[i] = k
  /\ \A p \in DOMAIN ps : ps[p].state = "live" => \E k \in PoolKeys : po[k] = p

ProcInv ==
  /\ CallsInv(processes, procCalls) /\ PoolInv(pool, recency, processes)
  /\ AnswersMatch /\ RunsSentCode

----------------------------------------------------------------------------
(* The operators.                                                           *)

LEMMA EndedFields ==
  ASSUME NEW q \in Process, NEW s \in {"live", "killed", "exited"}
  PROVE  /\ Ended(q, s) \in Process /\ Ended(q, s).key = q.key /\ Ended(q, s).waiting = q.waiting
         /\ Ended(q, s).stdout = q.stdout /\ Ended(q, s).stdin = <<>> /\ Ended(q, s).state = s
<1>1. <<>> \in Seq(ProcCallers)
  BY EmptySeq
<1> QED BY <1>1 DEF Ended, Process

LEMMA SignalledFields ==
  ASSUME NEW q \in Process
  PROVE  /\ Signalled(q) \in Process /\ Signalled(q).key = q.key /\ Signalled(q).waiting = q.waiting
         /\ Signalled(q).stdout = q.stdout /\ Signalled(q).stdin = <<>> /\ Signalled(q).state # "live"
<1>1. CASE q.state = "exited"
  BY <1>1, EndedFields DEF Signalled
<1>2. CASE q.state # "exited"
  BY <1>2, EndedFields DEF Signalled
<1> QED BY <1>1, <1>2

LEMMA ProcessAt ==
  ASSUME NEW ps \in Seq(Process), NEW p \in DOMAIN ps
  PROVE  /\ ps[p] \in Process /\ p \in Nat /\ p \in 1..Len(ps) /\ Len(ps) \in Nat
         /\ ps[p].waiting \in Seq(ProcCallers) /\ ps[p].stdin \in Seq(ProcCallers) /\ ps[p].stdout \in Seq(Line)
<1>1. Len(ps) \in Nat /\ DOMAIN ps = 1..Len(ps)
  BY LenProperties
<1>2. ps[p] \in Process
  BY <1>1, ElementOfSeq
<1> QED BY <1>1, <1>2 DEF Process, Line

\* stdin is closed.
LEMMA ServesClosed ==
  ASSUME NEW c, NEW code, NEW in \in Seq(ProcCallers), NEW out \in Seq(Line), Serves(in, out, c, code)
  PROVE  Serves(<<>>, out, c, code)
<1>1. Len(in) \in Nat /\ Len(out) \in Nat
  BY LenProperties
<1>2. Len(<<>>) = 0 /\ DOMAIN <<>> = {}
  OBVIOUS
<1> QED BY <1>1, <1>2 DEF Serves

\* The rest of a chain in which everyone is once.
LEMMA RestOfChain ==
  ASSUME NEW S, NEW w \in Seq(S), w # <<>>, \A i, j \in DOMAIN w : w[i] = w[j] => i = j
  PROVE  /\ Tail(w) \in Seq(S)
         /\ \A i \in DOMAIN Tail(w) : i + 1 \in DOMAIN w /\ Tail(w)[i] = w[i + 1] /\ Tail(w)[i] # w[1] /\ Tail(w)[i] \in S
         /\ \A i, j \in DOMAIN Tail(w) : Tail(w)[i] = Tail(w)[j] => i = j
         /\ \A i \in DOMAIN w : w[i] # w[1] => \E j \in DOMAIN Tail(w) : Tail(w)[j] = w[i]
<1>1. /\ Tail(w) \in Seq(S) /\ Len(w) \in Nat /\ Len(Tail(w)) = Len(w) - 1 /\ DOMAIN w = 1..Len(w) /\ Len(w) >= 1
      /\ DOMAIN Tail(w) = 1..(Len(w) - 1)
      /\ \A i \in 1..(Len(w) - 1) : Tail(w)[i] = w[i + 1]
  BY HeadTailProperties, LenProperties, EmptySeq
<1>2. ASSUME NEW i \in DOMAIN Tail(w)
      PROVE  i \in Nat /\ i + 1 \in DOMAIN w /\ Tail(w)[i] = w[i + 1] /\ Tail(w)[i] # w[1] /\ Tail(w)[i] \in S
  <2>1. i \in Nat /\ i + 1 \in 1..Len(w) /\ i + 1 # 1 /\ 1 \in 1..Len(w)
    BY <1>1
  <2>2. w[i + 1] \in S
    BY <2>1, ElementOfSeq
  <2> QED BY <1>1, <2>1, <2>2
<1>3. ASSUME NEW i \in DOMAIN Tail(w), NEW j \in DOMAIN Tail(w), Tail(w)[i] = Tail(w)[j] PROVE i = j
  <2>1. i + 1 = j + 1
    BY <1>2, <1>3
  <2> QED BY <1>2, <2>1
<1>4. ASSUME NEW i \in DOMAIN w, w[i] # w[1] PROVE \E j \in DOMAIN Tail(w) : Tail(w)[j] = w[i]
  <2>1. i - 1 \in 1..(Len(w) - 1) /\ (i - 1) + 1 = i
    BY <1>1, <1>4
  <2> QED BY <1>1, <2>1
<1> QED BY <1>1, <1>2, <1>3, <1>4

\* Processes of which some have ended.
SomeEnded(ps, qs) ==
  /\ qs \in Seq(Process) /\ DOMAIN qs = DOMAIN ps
  /\ \A p \in DOMAIN ps :
       /\ qs[p].key = ps[p].key /\ qs[p].waiting = ps[p].waiting /\ qs[p].stdout = ps[p].stdout
       /\ qs[p] = ps[p] \/ (qs[p].stdin = <<>> /\ qs[p].state # "live")

LEMMA EndingKeeps ==
  ASSUME NEW ps, NEW cs, NEW qs, CallsInv(ps, cs), SomeEnded(ps, qs)
  PROVE  CallsInv(qs, cs)
<1>1. CallsTyped(qs, cs)
  BY DEF CallsInv, CallsTyped, SomeEnded
<1>2. Chained(qs, cs)
  BY DEF CallsInv, CallsTyped, Chained, SomeEnded
<1>3. Piped(qs, cs)
  <2>1. ASSUME NEW c \in ProcCallers, cs[c].pc = "reading"
        PROVE  Serves(qs[cs[c].process].stdin, qs[cs[c].process].stdout, c, cs[c].code)
    <3>1. cs[c].process \in DOMAIN ps
      BY <2>1 DEF CallsInv, CallsTyped
    <3>2. Serves(ps[cs[c].process].stdin, ps[cs[c].process].stdout, c, cs[c].code)
      BY <2>1 DEF CallsInv, Piped
    <3>3. ps[cs[c].process].stdin \in Seq(ProcCallers) /\ ps[cs[c].process].stdout \in Seq(Line)
      BY <3>1, ProcessAt DEF CallsInv, CallsTyped
    <3>4. /\ qs[cs[c].process].stdout = ps[cs[c].process].stdout
          /\ qs[cs[c].process].stdin = ps[cs[c].process].stdin \/ qs[cs[c].process].stdin = <<>>
      BY <3>1 DEF SomeEnded
    <3> QED BY <3>2, <3>3, <3>4, ServesClosed
  <2>2. ASSUME NEW p \in DOMAIN qs, qs[p].state = "live", qs[p].stdin # <<>> \/ qs[p].stdout # <<>>
        PROVE  \E c \in ProcCallers : cs[c].pc = "reading" /\ cs[c].process = p
    <3>1. p \in DOMAIN ps /\ qs[p] = ps[p]
      BY <2>2 DEF SomeEnded
    <3> QED BY <2>2, <3>1 DEF CallsInv, Piped
  <2> QED BY <2>1, <2>2 DEF Piped
<1> QED BY <1>1, <1>2, <1>3 DEF CallsInv

LEMMA KilledEnds ==
  ASSUME NEW ps \in Seq(Process), NEW p \in DOMAIN ps
  PROVE  SomeEnded(ps, Killed(ps, p)) /\ Killed(ps, p)[p].state # "live"
<1>1. ps[p] \in Process
  BY ProcessAt
<1>2. Signalled(ps[p]) \in Process
  BY <1>1, SignalledFields
<1>3. Killed(ps, p) = [ps EXCEPT ![p] = Signalled(ps[p])]
  BY DEF Killed
<1>4. Killed(ps, p) \in Seq(Process) /\ DOMAIN Killed(ps, p) = DOMAIN ps
  BY <1>2, <1>3, ExceptSeq, LenProperties
<1>5. \A q \in DOMAIN ps : Killed(ps, p)[q] = IF q = p THEN Signalled(ps[p]) ELSE ps[q]
  BY <1>3
<1> QED BY <1>1, <1>4, <1>5, SignalledFields DEF SomeEnded

\* The call c ends: its process has dropped it from its chain, and is dead or has empty pipes.
Dropped(ps, qs, cs, c) ==
  LET p == cs[c].process
  IN  /\ qs \in Seq(Process) /\ DOMAIN qs = DOMAIN ps
      /\ \A q \in DOMAIN ps : q # p => qs[q] = ps[q]
      /\ qs[p].key = ps[p].key /\ qs[p].waiting = Tail(ps[p].waiting)
      /\ qs[p].state # "live" \/ (qs[p].stdin = <<>> /\ qs[p].stdout = <<>>)

LEMMA DroppingKeeps ==
  ASSUME NEW ps, NEW cs, NEW qs, NEW c \in ProcCallers, CallsInv(ps, cs), Dropped(ps, qs, cs, c),
         cs[c].pc # "idle", ps[cs[c].process].waiting[1] = c
  PROVE  CallsInv(qs, [cs EXCEPT ![c] = IdleCall])
<1> DEFINE p == cs[c].process
           ds == [cs EXCEPT ![c] = IdleCall]
           w == ps[p].waiting
<1>1. /\ ps \in Seq(Process) /\ cs \in [ProcCallers -> CallType] /\ p \in DOMAIN ps
      /\ \A d \in ProcCallers : cs[d].pc # "idle" => cs[d].process \in DOMAIN ps /\ cs[d].code \in Codes /\ cs[d].key \in PoolKeys
  BY DEF CallsInv, CallsTyped
<1>2. /\ qs \in Seq(Process) /\ DOMAIN qs = DOMAIN ps
      /\ \A q \in DOMAIN ps : q # p => qs[q] = ps[q]
      /\ qs[p].key = ps[p].key /\ qs[p].waiting = Tail(ps[p].waiting)
      /\ qs[p].state # "live" \/ (qs[p].stdin = <<>> /\ qs[p].stdout = <<>>)
  BY DEF Dropped
<1>3. w \in Seq(ProcCallers) /\ w # <<>>
  <2>1. w \in Seq(ProcCallers)
    BY <1>1, ProcessAt
  <2>2. \E i \in DOMAIN w : w[i] = c
    BY DEF CallsInv, Chained
  <2> QED BY <2>1, <2>2
<1>4. ds \in [ProcCallers -> CallType] /\ ds[c].pc = "idle" /\ \A d \in ProcCallers : d # c => ds[d] = cs[d]
  BY <1>1 DEF IdleCall, CallType
<1>5. CallsTyped(qs, ds)
  BY <1>1, <1>2, <1>4 DEF CallsTyped
<1>6. /\ \A i \in DOMAIN w : cs[w[i]].pc # "idle" /\ cs[w[i]].process = p
      /\ \A i, j \in DOMAIN w : w[i] = w[j] => i = j
      /\ w[1] = c
  BY <1>1 DEF CallsInv, Chained
<1>7. /\ \A i \in DOMAIN Tail(w) : i + 1 \in DOMAIN w /\ Tail(w)[i] = w[i + 1] /\ Tail(w)[i] # c /\ Tail(w)[i] \in ProcCallers
      /\ \A i, j \in DOMAIN Tail(w) : Tail(w)[i] = Tail(w)[j] => i = j
      /\ \A i \in DOMAIN w : w[i] # c => \E j \in DOMAIN Tail(w) : Tail(w)[j] = w[i]
  <2> HIDE DEF w
  <2> QED BY <1>3, <1>6, RestOfChain
<1>9. Chained(qs, ds)
  <2>1. ASSUME NEW q \in DOMAIN qs
        PROVE  /\ \A i \in DOMAIN qs[q].waiting : ds[qs[q].waiting[i]].pc # "idle" /\ ds[qs[q].waiting[i]].process = q
               /\ \A i, j \in DOMAIN qs[q].waiting : qs[q].waiting[i] = qs[q].waiting[j] => i = j
    <3>1. CASE q = p
      <4>1. qs[q].waiting = Tail(w)
        BY <1>2, <3>1
      <4>2. \A i \in DOMAIN Tail(w) : ds[Tail(w)[i]].pc # "idle" /\ ds[Tail(w)[i]].process = q
        BY <1>4, <1>6, <1>7, <3>1
      <4> QED BY <1>7, <4>1, <4>2
    <3>2. CASE q # p
      <4>1. qs[q] = ps[q] /\ q \in DOMAIN ps
        BY <1>2, <3>2
      <4>2. /\ \A i \in DOMAIN ps[q].waiting : cs[ps[q].waiting[i]].pc # "idle" /\ cs[ps[q].waiting[i]].process = q
            /\ \A i, j \in DOMAIN ps[q].waiting : ps[q].waiting[i] = ps[q].waiting[j] => i = j
        BY <4>1 DEF CallsInv, Chained
      <4>3. ps[q].waiting \in Seq(ProcCallers)
        BY <1>1, <4>1, ProcessAt
      <4>4. \A i \in DOMAIN ps[q].waiting : ps[q].waiting[i] \in ProcCallers /\ ps[q].waiting[i] # c
        BY <3>2, <4>2, <4>3, ElementOfSeq, LenProperties
      <4> QED BY <1>4, <4>1, <4>2, <4>4
    <3> QED BY <3>1, <3>2
  <2>2. ASSUME NEW d \in ProcCallers, ds[d].pc # "idle"
        PROVE  \E i \in DOMAIN qs[ds[d].process].waiting : qs[ds[d].process].waiting[i] = d
    <3>1. d # c /\ ds[d] = cs[d]
      BY <1>4, <2>2
    <3>2. PICK i \in DOMAIN ps[cs[d].process].waiting : ps[cs[d].process].waiting[i] = d
      BY <2>2, <3>1 DEF CallsInv, Chained
    <3>3. CASE cs[d].process = p
      <4>1. i \in DOMAIN w /\ w[i] = d /\ w[i] # c
        BY <3>1, <3>2, <3>3
      <4>2. PICK j \in DOMAIN Tail(w) : Tail(w)[j] = d
        BY <1>7, <4>1
      <4>3. ds[d].process = p /\ qs[p].waiting = Tail(w)
        BY <1>2, <3>1, <3>3
      <4> HIDE DEF ds, p, w
      <4> QED BY <4>2, <4>3
    <3>4. CASE cs[d].process # p
      BY <1>1, <1>2, <2>2, <3>1, <3>2, <3>4
    <3> QED BY <3>3, <3>4
  <2>3. ASSUME NEW d \in ProcCallers, ds[d].pc = "reading"
        PROVE  qs[ds[d].process].waiting[1] = d
    <3>1. d # c /\ ds[d] = cs[d]
      BY <1>4, <2>3
    <3>2. ps[cs[d].process].waiting[1] = d
      BY <2>3, <3>1 DEF CallsInv, Chained
    <3>3. cs[d].process # p
      BY <1>6, <3>1, <3>2
    <3> QED BY <1>1, <1>2, <2>3, <3>1, <3>2, <3>3
  <2> QED BY <2>1, <2>2, <2>3 DEF Chained
<1>10. Piped(qs, ds)
  <2>1. ASSUME NEW d \in ProcCallers, ds[d].pc = "reading"
        PROVE  Serves(qs[ds[d].process].stdin, qs[ds[d].process].stdout, d, ds[d].code)
    <3>1. d # c /\ ds[d] = cs[d]
      BY <1>4, <2>1
    <3>2. ps[cs[d].process].waiting[1] = d
      BY <2>1, <3>1 DEF CallsInv, Chained
    <3>3. cs[d].process # p
      BY <1>6, <3>1, <3>2
    <3>4. ds[d] = cs[d] /\ qs[ds[d].process] = ps[cs[d].process]
      BY <1>1, <1>2, <2>1, <3>1, <3>3
    <3> QED BY <2>1, <3>4 DEF CallsInv, Piped
  <2>2. ASSUME NEW q \in DOMAIN qs, qs[q].state = "live" /\ (qs[q].stdin # <<>> \/ qs[q].stdout # <<>>)
        PROVE  \E d \in ProcCallers : ds[d].pc = "reading" /\ ds[d].process = q
    <3>1. q # p /\ qs[q] = ps[q] /\ q \in DOMAIN ps
      BY <1>2, <2>2
    <3>2. PICK d \in ProcCallers : cs[d].pc = "reading" /\ cs[d].process = q
      BY <2>2, <3>1 DEF CallsInv, Piped
    <3> QED BY <1>4, <3>1, <3>2
  <2> QED BY <2>1, <2>2 DEF Piped
<1> QED BY <1>5, <1>9, <1>10 DEF CallsInv

\* A call is put at the end of the chain of p.
Enqueued(ps, qs, p, c) ==
  /\ qs \in Seq(Process) /\ DOMAIN qs = DOMAIN ps
  /\ \A q \in DOMAIN ps :
       /\ qs[q].key = ps[q].key /\ qs[q].state = ps[q].state /\ qs[q].stdin = ps[q].stdin /\ qs[q].stdout = ps[q].stdout
       /\ qs[q].waiting = IF q = p THEN Append(ps[q].waiting, c) ELSE ps[q].waiting

LEMMA EnqueuingKeeps ==
  ASSUME NEW ps, NEW cs, NEW qs, NEW p \in DOMAIN ps, NEW c \in ProcCallers, NEW call \in CallType,
         CallsInv(ps, cs), Enqueued(ps, qs, p, c), cs[c].pc = "idle",
         call.pc = "waiting", call.process = p, call.code \in Codes, call.key \in PoolKeys
  PROVE  CallsInv(qs, [cs EXCEPT ![c] = call])
<1> DEFINE ds == [cs EXCEPT ![c] = call]
<1>1. /\ ps \in Seq(Process) /\ cs \in [ProcCallers -> CallType]
      /\ \A d \in ProcCallers : cs[d].pc # "idle" => cs[d].process \in DOMAIN ps /\ cs[d].code \in Codes /\ cs[d].key \in PoolKeys
  BY DEF CallsInv, CallsTyped
<1>2. /\ qs \in Seq(Process) /\ DOMAIN qs = DOMAIN ps
      /\ \A q \in DOMAIN ps :
           /\ qs[q].key = ps[q].key /\ qs[q].state = ps[q].state /\ qs[q].stdin = ps[q].stdin /\ qs[q].stdout = ps[q].stdout
           /\ qs[q].waiting = IF q = p THEN Append(ps[q].waiting, c) ELSE ps[q].waiting
  BY DEF Enqueued
<1>3. ds \in [ProcCallers -> CallType] /\ ds[c] = call /\ \A d \in ProcCallers : d # c => ds[d] = cs[d]
  BY <1>1
<1>4. CallsTyped(qs, ds)
  BY <1>1, <1>2, <1>3 DEF CallsTyped
<1>5. ASSUME NEW q \in DOMAIN ps
      PROVE  /\ ps[q].waiting \in Seq(ProcCallers)
             /\ \A i \in DOMAIN ps[q].waiting : /\ ps[q].waiting[i] \in ProcCallers /\ ps[q].waiting[i] # c
                                                /\ cs[ps[q].waiting[i]].pc # "idle" /\ cs[ps[q].waiting[i]].process = q
             /\ \A i, j \in DOMAIN ps[q].waiting : ps[q].waiting[i] = ps[q].waiting[j] => i = j
  <2>1. ps[q].waiting \in Seq(ProcCallers)
    BY <1>1, ProcessAt
  <2>2. /\ \A i \in DOMAIN ps[q].waiting : cs[ps[q].waiting[i]].pc # "idle" /\ cs[ps[q].waiting[i]].process = q
        /\ \A i, j \in DOMAIN ps[q].waiting : ps[q].waiting[i] = ps[q].waiting[j] => i = j
    BY DEF CallsInv, Chained
  <2>3. \A i \in DOMAIN ps[q].waiting : ps[q].waiting[i] \in ProcCallers
    BY <2>1, ElementOfSeq, LenProperties
  <2> QED BY <2>1, <2>2, <2>3
<1> DEFINE w == ps[p].waiting
           v == Append(w, c)
<1>6. /\ Len(w) \in Nat /\ DOMAIN w = 1..Len(w) /\ DOMAIN v = 1..(Len(w) + 1)
      /\ \A i \in 1..Len(w) : v[i] = w[i]
      /\ v[Len(w) + 1] = c
  BY <1>5, AppendProperties, LenProperties
<1>7. Chained(qs, ds)
  <2>1. ASSUME NEW q \in DOMAIN qs
        PROVE  /\ \A i \in DOMAIN qs[q].waiting : ds[qs[q].waiting[i]].pc # "idle" /\ ds[qs[q].waiting[i]].process = q
               /\ \A i, j \in DOMAIN qs[q].waiting : qs[q].waiting[i] = qs[q].waiting[j] => i = j
    <3>1. CASE q = p
      <4>1. qs[q].waiting = v
        BY <1>2, <3>1
      <4>2. \A i \in 1..(Len(w) + 1) : i = Len(w) + 1 \/ i \in 1..Len(w)
        BY <1>6
      <4>3. \A i \in 1..Len(w) : w[i] \in ProcCallers /\ w[i] # c /\ cs[w[i]].pc # "idle" /\ cs[w[i]].process = p
        BY <1>5, <1>6
      <4>4. \A i, j \in 1..Len(w) : w[i] = w[j] => i = j
        BY <1>5, <1>6
      <4> HIDE DEF w, v, ds
      <4>5. \A i \in DOMAIN v : ds[v[i]].pc # "idle" /\ ds[v[i]].process = p
        BY <1>3, <1>6, <4>2, <4>3
      <4>6. \A i, j \in DOMAIN v : v[i] = v[j] => i = j
        BY <1>6, <4>2, <4>3, <4>4
      <4> QED BY <3>1, <4>1, <4>5, <4>6
    <3>2. CASE q # p
      <4>1. qs[q].waiting = ps[q].waiting
        BY <1>2, <3>2
      <4> QED BY <1>2, <1>3, <1>5, <4>1
    <3> QED BY <3>1, <3>2
  <2>2. ASSUME NEW d \in ProcCallers, ds[d].pc # "idle"
        PROVE  \E i \in DOMAIN qs[ds[d].process].waiting : qs[ds[d].process].waiting[i] = d
    <3>1. CASE d = c
      <4>1. ds[d].process = p /\ qs[p].waiting = v
        BY <1>2, <1>3, <3>1
      <4>2. Len(w) + 1 \in DOMAIN v
        BY <1>6
      <4> HIDE DEF ds, v, w
      <4> QED BY <1>6, <3>1, <4>1, <4>2
    <3>2. CASE d # c
      <4>1. ds[d] = cs[d] /\ cs[d].pc # "idle"
        BY <1>3, <2>2, <3>2
      <4>2. PICK i \in DOMAIN ps[cs[d].process].waiting : ps[cs[d].process].waiting[i] = d
        BY <4>1 DEF CallsInv, Chained
      <4>3. CASE cs[d].process = p
        <5>1. i \in 1..Len(w) /\ w[i] = d
          BY <1>6, <4>2, <4>3
        <5>2. i \in DOMAIN v /\ v[i] = d
          BY <1>6, <5>1
        <5>3. qs[ds[d].process].waiting = v
          BY <1>2, <4>1, <4>3
        <5> HIDE DEF ds, v, w
        <5> QED BY <5>2, <5>3
      <4>4. CASE cs[d].process # p
        <5>1. qs[cs[d].process].waiting = ps[cs[d].process].waiting
          BY <1>1, <1>2, <4>1, <4>4
        <5> HIDE DEF ds
        <5> QED BY <4>1, <4>2, <5>1
      <4> QED BY <4>3, <4>4
    <3> QED BY <3>1, <3>2
  <2>3. ASSUME NEW d \in ProcCallers, ds[d].pc = "reading"
        PROVE  qs[ds[d].process].waiting[1] = d
    <3>1. d # c /\ ds[d] = cs[d] /\ cs[d].pc = "reading"
      BY <1>3, <2>3
    <3>2. ps[cs[d].process].waiting[1] = d /\ cs[d].process \in DOMAIN ps
      BY <1>1, <3>1 DEF CallsInv, Chained
    <3>3. PICK i \in DOMAIN ps[cs[d].process].waiting : ps[cs[d].process].waiting[i] = d
      BY <3>1 DEF CallsInv, Chained
    <3>4. CASE cs[d].process = p
      <4>1. 1 \in 1..Len(w)
        BY <1>6, <3>3, <3>4
      <4>2. v[1] = w[1] /\ w[1] = d
        BY <1>6, <3>2, <3>4, <4>1
      <4>3. qs[ds[d].process].waiting = v
        BY <1>2, <3>1, <3>4
      <4> HIDE DEF ds, v, w
      <4> QED BY <4>2, <4>3
    <3>5. CASE cs[d].process # p
      <4>1. qs[cs[d].process].waiting = ps[cs[d].process].waiting
        BY <1>2, <3>2, <3>5
      <4> HIDE DEF ds
      <4> QED BY <3>1, <3>2, <4>1
    <3> QED BY <3>4, <3>5
  <2> QED BY <2>1, <2>2, <2>3 DEF Chained
<1>8. Piped(qs, ds)
  <2>1. ASSUME NEW d \in ProcCallers, ds[d].pc = "reading"
        PROVE  Serves(qs[ds[d].process].stdin, qs[ds[d].process].stdout, d, ds[d].code)
    <3>1. d # c /\ ds[d] = cs[d] /\ cs[d].pc = "reading"
      BY <1>3, <2>1
    <3>2. Serves(ps[cs[d].process].stdin, ps[cs[d].process].stdout, d, cs[d].code)
      BY <3>1 DEF CallsInv, Piped
    <3>3. qs[cs[d].process].stdin = ps[cs[d].process].stdin /\ qs[cs[d].process].stdout = ps[cs[d].process].stdout
      BY <1>1, <1>2, <3>1
    <3> HIDE DEF ds
    <3> QED BY <3>1, <3>2, <3>3
  <2>2. ASSUME NEW q \in DOMAIN qs, qs[q].state = "live" /\ (qs[q].stdin # <<>> \/ qs[q].stdout # <<>>)
        PROVE  \E d \in ProcCallers : ds[d].pc = "reading" /\ ds[d].process = q
    <3>1. q \in DOMAIN ps /\ ps[q].state = "live" /\ (ps[q].stdin # <<>> \/ ps[q].stdout # <<>>)
      BY <1>2, <2>2
    <3>2. PICK d \in ProcCallers : cs[d].pc = "reading" /\ cs[d].process = q
      BY <3>1 DEF CallsInv, Piped
    <3> QED BY <1>3, <3>2
  <2> QED BY <2>1, <2>2 DEF Piped
<1> QED BY <1>4, <1>7, <1>8 DEF CallsInv

\* A process is spawned.
LEMMA SpawningKeeps ==
  ASSUME NEW ps, NEW cs, NEW k \in PoolKeys, CallsInv(ps, cs)
  PROVE  /\ CallsInv(Append(ps, NewProcess(k)), cs)
         /\ Append(ps, NewProcess(k)) \in Seq(Process)
         /\ DOMAIN Append(ps, NewProcess(k)) = 1..(Len(ps) + 1) /\ DOMAIN ps = 1..Len(ps) /\ Len(ps) \in Nat
         /\ \A p \in DOMAIN ps : Append(ps, NewProcess(k))[p] = ps[p]
         /\ Append(ps, NewProcess(k))[Len(ps) + 1] = NewProcess(k)
         /\ NewProcess(k).key = k
<1> DEFINE qs == Append(ps, NewProcess(k))
           n == Len(ps) + 1
<1>1. NewProcess(k) \in Process
  <2>1. <<>> \in Seq(ProcCallers) /\ <<>> \in Seq([for : ProcCallers, ran : Codes])
    BY EmptySeq
  <2> QED BY <2>1 DEF NewProcess, Process
<1>2. ps \in Seq(Process)
  BY DEF CallsInv, CallsTyped
<1>3. /\ qs \in Seq(Process) /\ DOMAIN qs = 1..n /\ DOMAIN ps = 1..Len(ps) /\ Len(ps) \in Nat
      /\ \A p \in DOMAIN ps : qs[p] = ps[p]
      /\ qs[n] = NewProcess(k)
  BY <1>1, <1>2, AppendProperties, LenProperties
<1>4. NewProcess(k).waiting = <<>> /\ NewProcess(k).stdin = <<>> /\ NewProcess(k).stdout = <<>> /\ NewProcess(k).key = k
  BY DEF NewProcess
<1>5. \A p \in DOMAIN qs : p \in DOMAIN ps \/ p = n
  BY <1>3
<1> HIDE DEF qs
<1>6. \A c \in ProcCallers : cs[c].pc # "idle" => cs[c].process \in DOMAIN ps /\ cs[c].process \in DOMAIN qs
                                                /\ qs[cs[c].process] = ps[cs[c].process]
  <2>1. \A p \in DOMAIN ps : p \in DOMAIN qs
    BY <1>3
  <2> QED BY <1>3, <2>1 DEF CallsInv, CallsTyped
<1>7. CallsTyped(qs, cs)
  BY <1>3, <1>6 DEF CallsInv, CallsTyped
<1>8. Chained(qs, cs)
  <2>1. ASSUME NEW p \in DOMAIN qs
        PROVE  /\ \A i \in DOMAIN qs[p].waiting : cs[qs[p].waiting[i]].pc # "idle" /\ cs[qs[p].waiting[i]].process = p
               /\ \A i, j \in DOMAIN qs[p].waiting : qs[p].waiting[i] = qs[p].waiting[j] => i = j
    <3>1. CASE p \in DOMAIN ps
      BY <1>3, <3>1 DEF CallsInv, Chained
    <3>2. CASE p = n
      <4>1. DOMAIN qs[p].waiting = {}
        BY <1>3, <1>4, <3>2
      <4> QED BY <4>1
    <3> QED BY <1>5, <3>1, <3>2
  <2>2. \A c \in ProcCallers : cs[c].pc # "idle" =>
          \E i \in DOMAIN qs[cs[c].process].waiting : qs[cs[c].process].waiting[i] = c
    BY <1>6 DEF CallsInv, Chained
  <2>3. \A c \in ProcCallers : cs[c].pc = "reading" => qs[cs[c].process].waiting[1] = c
    BY <1>6 DEF CallsInv, Chained
  <2> QED BY <2>1, <2>2, <2>3 DEF Chained
<1>9. Piped(qs, cs)
  <2>1. \A c \in ProcCallers : cs[c].pc = "reading" => Serves(qs[cs[c].process].stdin, qs[cs[c].process].stdout, c, cs[c].code)
    BY <1>6 DEF CallsInv, Piped
  <2>2. ASSUME NEW p \in DOMAIN qs, qs[p].state = "live" /\ (qs[p].stdin # <<>> \/ qs[p].stdout # <<>>)
        PROVE  \E c \in ProcCallers : cs[c].pc = "reading" /\ cs[c].process = p
    <3>1. p \in DOMAIN ps
      BY <1>3, <1>4, <1>5, <2>2
    <3> QED BY <1>3, <2>2, <3>1 DEF CallsInv, Piped
  <2> QED BY <2>1, <2>2 DEF Piped
<1> QED BY <1>3, <1>4, <1>7, <1>8, <1>9 DEF CallsInv, qs

----------------------------------------------------------------------------
(* The pool.                                                                *)

LEMMA OldestPooled ==
  ASSUME NEW keys, keys # {}, recency \in Seq(PoolKeys), \A k \in keys : \E i \in DOMAIN recency : recency[i] = k
  PROVE  Oldest(keys) \in keys
<1> DEFINE spots == {i \in DOMAIN recency : recency[i] \in keys}
<1>1. spots \in SUBSET Nat /\ spots # {}
  BY LenProperties
<1>2. PICK i \in spots : \A j \in spots : i <= j
  BY <1>1, LeastNumber
<1>3. \E m \in DOMAIN recency : recency[m] \in keys /\ \A j \in DOMAIN recency : recency[j] \in keys => m <= j
  BY <1>2
<1> QED BY <1>3 DEF Oldest

\* A key that was used moves to the end; the others keep their place in the order.
LEMMA TouchedKeeps ==
  ASSUME NEW k \in PoolKeys, recency \in Seq(PoolKeys)
  PROVE  /\ Touched(k) \in Seq(PoolKeys)
         /\ \A j \in PoolKeys : j = k \/ (\E i \in DOMAIN recency : recency[i] = j) =>
              \E i \in DOMAIN Touched(k) : Touched(k)[i] = j
<1> DEFINE s == recency
           rest == RemoveFirst(s, k)
<1>1. Len(s) \in Nat /\ DOMAIN s = 1..Len(s)
  BY LenProperties
<1>2. rest \in Seq(PoolKeys) /\ \A j \in PoolKeys : j # k /\ (\E i \in DOMAIN s : s[i] = j) => \E i \in DOMAIN rest : rest[i] = j
  <2>1. CASE \E i \in 1..Len(s) : s[i] = k
    <3> DEFINE spots == {i \in 1..Len(s) : s[i] = k}
               m == CHOOSE x \in spots : \A y \in spots : x <= y
    <3>1. spots \in SUBSET Nat /\ spots # {}
      BY <1>1, <2>1
    <3>2. m \in spots
      BY <3>1, LeastNumber
    <3>3. rest = RemoveAt(s, m)
      BY <2>1, <3>1 DEF RemoveFirst, SelectInSeq, Min
    <3> DEFINE a == SubSeq(s, 1, m - 1)
               b == SubSeq(s, m + 1, Len(s))
    <3>4. m \in 1..Len(s) /\ s[m] = k
      BY <3>2
    <3> HIDE DEF m, s, spots
    <3>5. /\ a \in Seq(PoolKeys) /\ Len(a) = m - 1 /\ \A i \in 1..(m - 1) : a[i] = s[i]
          /\ b \in Seq(PoolKeys) /\ Len(b) = Len(s) - m /\ \A i \in 1..(Len(s) - m) : b[i] = s[m + i]
      <4>1. \A i \in 1..Len(s) : s[i] \in PoolKeys
        BY <1>1, ElementOfSeq DEF s
      <4>2. \A i \in 1..(m - 1) : s[i] \in PoolKeys
        BY <1>1, <3>4, <4>1
      <4>3. \A i \in (m + 1)..Len(s) : s[i] \in PoolKeys
        BY <1>1, <3>4, <4>1
      <4>4. a \in Seq(PoolKeys) /\ Len(a) = m - 1 /\ \A i \in 1..(m - 1) : a[i] = s[i]
        <5>1. /\ SubSeq(s, 1, m - 1) \in Seq(PoolKeys)
              /\ Len(SubSeq(s, 1, m - 1)) = IF 1 <= m - 1 THEN (m - 1) - 1 + 1 ELSE 0
              /\ \A i \in 1..((m - 1) - 1 + 1) : SubSeq(s, 1, m - 1)[i] = s[1 + i - 1]
          BY <1>1, <3>4, <4>2, SubSeqProperties
        <5> QED BY <1>1, <3>4, <5>1
      <4>5. b \in Seq(PoolKeys) /\ Len(b) = Len(s) - m /\ \A i \in 1..(Len(s) - m) : b[i] = s[m + i]
        <5>1. /\ SubSeq(s, m + 1, Len(s)) \in Seq(PoolKeys)
              /\ Len(SubSeq(s, m + 1, Len(s))) = IF m + 1 <= Len(s) THEN Len(s) - (m + 1) + 1 ELSE 0
              /\ \A i \in 1..(Len(s) - (m + 1) + 1) : SubSeq(s, m + 1, Len(s))[i] = s[(m + 1) + i - 1]
          BY <1>1, <3>4, <4>3, SubSeqProperties
        <5>2. Len(s) - (m + 1) + 1 = Len(s) - m /\ (m + 1 <= Len(s) \/ Len(s) - m = 0)
          <6>1. m \in Nat /\ m <= Len(s) /\ Len(s) \in Nat
            BY <1>1, <3>4
          <6>2. \A x, y \in Nat : y <= x => x - (y + 1) + 1 = x - y /\ (y + 1 <= x \/ x - y = 0)
            OBVIOUS
          <6> QED BY <6>1, <6>2
        <5>3. \A i \in 1..(Len(s) - m) : (m + 1) + i - 1 = m + i
          BY <1>1, <3>4
        <5>4. Len(b) = Len(s) - m
          BY <5>1, <5>2
        <5>5. ASSUME NEW i \in 1..(Len(s) - m) PROVE b[i] = s[m + i]
          <6>1. i \in 1..(Len(s) - (m + 1) + 1)
            BY <5>2
          <6>2. SubSeq(s, m + 1, Len(s))[i] = s[(m + 1) + i - 1]
            BY <5>1, <6>1
          <6> QED BY <5>3, <6>2
        <5> QED BY <5>1, <5>4, <5>5
      <4> QED BY <4>4, <4>5
    <3> HIDE DEF a, b
    <3>6. /\ a \o b \in Seq(PoolKeys) /\ Len(a \o b) = Len(s) - 1 /\ DOMAIN (a \o b) = 1..(Len(s) - 1)
          /\ \A i \in 1..(Len(s) - 1) : (a \o b)[i] = IF i <= m - 1 THEN a[i] ELSE b[i - (m - 1)]
      <4>1. Len(a) + Len(b) = Len(s) - 1
        BY <1>1, <3>4, <3>5
      <4>2. /\ a \o b \in Seq(PoolKeys) /\ Len(a \o b) = Len(a) + Len(b)
            /\ \A i \in 1..Len(a) + Len(b) : (a \o b)[i] = IF i <= Len(a) THEN a[i] ELSE b[i - Len(a)]
        BY <3>5, ConcatProperties
      <4>3. DOMAIN (a \o b) = 1..Len(a \o b)
        BY <4>2, LenProperties
      <4> QED BY <3>5, <4>1, <4>2, <4>3
    <3>7. ASSUME NEW i \in 1..Len(s), i # m PROVE \E j \in 1..(Len(s) - 1) : (a \o b)[j] = s[i]
      <4>1. CASE i < m
        <5>1. i \in 1..(Len(s) - 1) /\ i <= m - 1 /\ i \in 1..(m - 1)
          BY <1>1, <3>4, <4>1
        <5> QED BY <3>5, <3>6, <5>1
      <4>2. CASE i > m
        <5>1. i - 1 \in 1..(Len(s) - 1) /\ ~(i - 1 <= m - 1) /\ (i - 1) - (m - 1) = i - m /\ i - m \in 1..(Len(s) - m) /\ m + (i - m) = i
          BY <1>1, <3>4, <4>2
        <5>2. (a \o b)[i - 1] = b[i - m] /\ b[i - m] = s[i]
          BY <3>5, <3>6, <5>1
        <5> QED BY <5>1, <5>2
      <4>3. i < m \/ i > m
        BY <1>1, <3>4, <3>7
      <4> QED BY <4>1, <4>2, <4>3
    <3>8. rest = a \o b
      BY <3>3 DEF RemoveAt, a, b
    <3> QED BY <1>1, <3>4, <3>6, <3>7, <3>8
  <2>2. CASE ~\E i \in 1..Len(s) : s[i] = k
    BY <2>2 DEF RemoveFirst
  <2> QED BY <2>1, <2>2
<1> HIDE DEF rest, s
<1>3. /\ Append(rest, k) \in Seq(PoolKeys) /\ Len(rest) \in Nat /\ DOMAIN rest = 1..Len(rest)
      /\ DOMAIN Append(rest, k) = 1..(Len(rest) + 1)
      /\ \A i \in 1..Len(rest) : Append(rest, k)[i] = rest[i]
      /\ Append(rest, k)[Len(rest) + 1] = k
  BY <1>2, AppendProperties, LenProperties
<1>4. Touched(k) = Append(rest, k)
  BY DEF Touched, rest, s
<1>5. ASSUME NEW j \in PoolKeys, j = k \/ (\E i \in DOMAIN s : s[i] = j)
      PROVE  \E i \in DOMAIN Append(rest, k) : Append(rest, k)[i] = j
  <2>1. CASE j = k
    <3>1. Len(rest) + 1 \in DOMAIN Append(rest, k)
      BY <1>3
    <3> QED BY <1>3, <2>1, <3>1
  <2>2. CASE j # k
    <3>1. PICK i \in DOMAIN rest : rest[i] = j
      BY <1>2, <1>5, <2>2
    <3>2. i \in DOMAIN Append(rest, k) /\ Append(rest, k)[i] = j
      BY <1>3, <3>1
    <3> QED BY <3>2
  <2> QED BY <2>1, <2>2
<1> QED BY <1>3, <1>4, <1>5 DEF s

LEMMA PoolTouched ==
  ASSUME NEW k \in PoolKeys, NEW po, NEW ps, PoolInv(po, recency, ps)
  PROVE  PoolInv(po, Touched(k), ps)
<1>1. recency \in Seq(PoolKeys)
  BY DEF PoolInv
<1> QED BY <1>1, TouchedKeeps DEF PoolInv

\* Processes keep their key, and one that was dead stays dead, but pooled ones may end.
LEMMA PoolSame ==
  ASSUME NEW po, NEW re, NEW ps, NEW qs, PoolInv(po, re, ps), DOMAIN qs = DOMAIN ps,
         \A p \in DOMAIN ps : qs[p].key = ps[p].key /\ (qs[p].state = "live" => ps[p].state = "live")
  PROVE  PoolInv(po, re, qs)
BY DEF PoolInv

\* evictIfFull: one pooled process ends and leaves the pool, or none does.
LEMMA EvictedKeeps ==
  ASSUME NEW k \in PoolKeys, processes \in Seq(Process), PoolInv(pool, recency, processes)
  PROVE  /\ SomeEnded(processes, Evicted(k).processes)
         /\ PoolInv(Evicted(k).pool, recency, Evicted(k).processes)
         /\ Evicted(k).pool[k] = pool[k]
<1> DEFINE full == Pooled \ {k}
           o == Oldest(full)
<1>0. /\ pool \in [PoolKeys -> Nat] /\ recency \in Seq(PoolKeys)
      /\ \A j \in PoolKeys : pool[j] > 0 => pool[j] \in DOMAIN processes /\ processes[pool[j]].key = j
      /\ \A j \in PoolKeys : pool[j] > 0 => \E i \in DOMAIN recency : recency[i] = j
      /\ \A p \in DOMAIN processes : processes[p].state = "live" => \E j \in PoolKeys : pool[j] = p
  BY DEF PoolInv
<1>1. CASE Cardinality(full) < MaxIdleProcesses
  <2>1. Evicted(k).pool = pool /\ Evicted(k).processes = processes
    BY <1>1 DEF Evicted
  <2> QED BY <2>1 DEF SomeEnded
<1>2. CASE ~(Cardinality(full) < MaxIdleProcesses)
  <2>1. full # {}
    <3>1. Cardinality({}) = 0
      BY FS_EmptySet
    <3>2. 0 < MaxIdleProcesses
      BY ProcAssumption
    <3> QED BY <1>2, <3>1, <3>2
  <2>2. \A j \in full : \E i \in DOMAIN recency : recency[i] = j
    BY <1>0 DEF Pooled
  <2>3. o \in full
    <3> HIDE DEF full
    <3> QED BY <1>0, <2>1, <2>2, OldestPooled
  <2>4. o \in PoolKeys /\ pool[o] > 0 /\ o # k /\ pool[o] \in DOMAIN processes /\ processes[pool[o]].key = o
    BY <1>0, <2>3 DEF Pooled
  <2>5. Evicted(k).pool = [pool EXCEPT ![o] = 0] /\ Evicted(k).processes = Killed(processes, pool[o])
    BY <1>2 DEF Evicted
  <2> HIDE DEF o, full
  <2>6. SomeEnded(processes, Killed(processes, pool[o])) /\ Killed(processes, pool[o])[pool[o]].state # "live"
    BY <2>4, KilledEnds
  <2> DEFINE qs == Killed(processes, pool[o])
  <2> HIDE DEF qs
  <2>7. /\ DOMAIN qs = DOMAIN processes
        /\ \A p \in DOMAIN processes : qs[p].key = processes[p].key /\ (qs[p].state = "live" => processes[p].state = "live")
        /\ qs[pool[o]].state # "live"
    BY <2>6 DEF SomeEnded, qs
  <2>8. PoolInv([pool EXCEPT ![o] = 0], recency, qs)
    <3>1. \A j \in PoolKeys : [pool EXCEPT ![o] = 0][j] = IF j = o THEN 0 ELSE pool[j]
      BY <1>0
    <3>2. [pool EXCEPT ![o] = 0] \in [PoolKeys -> Nat]
      BY <1>0
    <3>3. ASSUME NEW p \in DOMAIN qs, qs[p].state = "live" PROVE \E j \in PoolKeys : [pool EXCEPT ![o] = 0][j] = p
      <4>1. PICK j \in PoolKeys : pool[j] = p
        BY <1>0, <2>7, <3>3
      <4>2. j # o
        BY <2>7, <3>3, <4>1
      <4> QED BY <3>1, <4>1, <4>2
    <3>4. \A j \in PoolKeys : [pool EXCEPT ![o] = 0][j] > 0 =>
            /\ [pool EXCEPT ![o] = 0][j] \in DOMAIN qs /\ qs[[pool EXCEPT ![o] = 0][j]].key = j
            /\ \E i \in DOMAIN recency : recency[i] = j
      BY <1>0, <2>7, <3>1
    <3> QED BY <1>0, <3>2, <3>3, <3>4 DEF PoolInv
  <2> QED BY <1>0, <2>4, <2>5, <2>6, <2>8 DEF qs
<1> QED BY <1>1, <1>2

----------------------------------------------------------------------------
(* The steps.                                                               *)

LEMMA SettledFields ==
  ASSUME NEW ps \in Seq(Process), NEW c \in ProcCallers, procCalls[c].process \in DOMAIN ps,
         ps[procCalls[c].process].waiting # <<>>
  PROVE  LET p == procCalls[c].process
             q == Settled(ps, c)
         IN  /\ q \in Seq(Process) /\ DOMAIN q = DOMAIN ps
             /\ \A o \in DOMAIN ps : o # p => q[o] = ps[o]
             /\ q[p].key = ps[p].key /\ q[p].state = ps[p].state /\ q[p].stdin = ps[p].stdin /\ q[p].stdout = ps[p].stdout
             /\ q[p].waiting = Tail(ps[p].waiting)
<1> DEFINE p == procCalls[c].process
           n == [ps[p] EXCEPT !.waiting = Tail(ps[p].waiting)]
<1>1. ps[p] \in Process /\ ps[p].waiting \in Seq(ProcCallers)
  BY ProcessAt
<1>2. Tail(ps[p].waiting) \in Seq(ProcCallers)
  BY <1>1, HeadTailProperties
<1>3. /\ n \in Process /\ n.key = ps[p].key /\ n.state = ps[p].state /\ n.stdin = ps[p].stdin /\ n.stdout = ps[p].stdout
      /\ n.waiting = Tail(ps[p].waiting)
  BY <1>1, <1>2 DEF Process
<1>4. Settled(ps, c) = [ps EXCEPT ![p] = n]
  BY DEF Settled
<1> HIDE DEF n
<1>5. [ps EXCEPT ![p] = n] \in Seq(Process) /\ DOMAIN [ps EXCEPT ![p] = n] = DOMAIN ps
  BY <1>3, ExceptSeq, LenProperties
<1> QED BY <1>3, <1>4, <1>5

\* The call at the head of a chain ends, and nobody but its process is touched.
LEMMA CallEnds ==
  ASSUME NEW c \in ProcCallers, NEW ps, NEW p, CallsInv(processes, procCalls), PoolInv(pool, recency, processes),
         procCalls[c].pc # "idle", procCalls[c].process = p, processes[p].waiting[1] = c,
         ps \in Seq(Process), DOMAIN ps = DOMAIN processes, \A o \in DOMAIN processes : o # p => ps[o] = processes[o],
         ps[p].key = processes[p].key, ps[p].waiting = processes[p].waiting,
         ps[p].state = "live" => processes[p].state = "live" /\ ps[p].stdin = <<>> /\ ps[p].stdout = <<>>
  PROVE  /\ CallsInv(Settled(ps, c), [procCalls EXCEPT ![c] = IdleCall])
         /\ PoolInv(pool, recency, Settled(ps, c))
<1>1. p \in DOMAIN processes /\ processes \in Seq(Process)
  BY DEF CallsInv, CallsTyped
<1>2. processes[p].waiting # <<>>
  <2>1. \E i \in DOMAIN processes[p].waiting : processes[p].waiting[i] = c
    BY DEF CallsInv, Chained
  <2> QED BY <2>1
<1> DEFINE q == Settled(ps, c)
<1>3. /\ q \in Seq(Process) /\ DOMAIN q = DOMAIN ps
      /\ \A o \in DOMAIN ps : o # p => q[o] = ps[o]
      /\ q[p].key = ps[p].key /\ q[p].state = ps[p].state /\ q[p].stdin = ps[p].stdin /\ q[p].stdout = ps[p].stdout
      /\ q[p].waiting = Tail(ps[p].waiting)
  BY <1>1, <1>2, SettledFields
<1> HIDE DEF q
<1>4. Dropped(processes, q, procCalls, c)
  BY <1>1, <1>3 DEF Dropped
<1>5. CallsInv(q, [procCalls EXCEPT ![c] = IdleCall])
  BY <1>4, DroppingKeeps
<1>6. PoolInv(pool, recency, q)
  <2>1. \A o \in DOMAIN processes : q[o].key = processes[o].key /\ (q[o].state = "live" => processes[o].state = "live")
    BY <1>1, <1>3
  <2>2. DOMAIN q = DOMAIN processes
    BY <1>3
  <2> QED BY <2>1, <2>2, PoolSame
<1> QED BY <1>5, <1>6 DEF q

LEMMA KilledSame ==
  ASSUME NEW ps \in Seq(Process), NEW p \in DOMAIN ps
  PROVE  /\ Killed(ps, p) \in Seq(Process) /\ DOMAIN Killed(ps, p) = DOMAIN ps
         /\ \A o \in DOMAIN ps : o # p => Killed(ps, p)[o] = ps[o]
         /\ Killed(ps, p)[p].key = ps[p].key /\ Killed(ps, p)[p].waiting = ps[p].waiting
         /\ Killed(ps, p)[p].state # "live"
<1>1. SomeEnded(ps, Killed(ps, p)) /\ Killed(ps, p)[p].state # "live"
  BY KilledEnds
<1>2. \A o \in DOMAIN ps : o # p => Killed(ps, p)[o] = ps[o]
  BY DEF Killed
<1> QED BY <1>1, <1>2 DEF SomeEnded

LEMMA InitProc == ProcInit => ProcInv
<1> SUFFICES ASSUME ProcInit PROVE ProcInv
  OBVIOUS
<1>1. processes \in Seq(Process) /\ recency \in Seq(PoolKeys) /\ DOMAIN processes = {} /\ answers = {}
  BY EmptySeq DEF ProcInit
<1>2. procCalls \in [ProcCallers -> CallType] /\ \A c \in ProcCallers : procCalls[c].pc = "idle"
  BY DEF ProcInit, IdleCall, CallType
<1>3. CallsInv(processes, procCalls)
  BY <1>1, <1>2 DEF CallsInv, CallsTyped, Chained, Piped
<1>4. PoolInv(pool, recency, processes)
  BY <1>1 DEF ProcInit, PoolInv
<1> QED BY <1>1, <1>3, <1>4 DEF ProcInv, AnswersMatch, RunsSentCode

LEMMA RunCallKeeps ==
  ASSUME ProcInv, NEW c \in ProcCallers, NEW k \in PoolKeys, NEW code \in Codes, RunCall(c, k, code)
  PROVE  ProcInv'
<1> DEFINE reuse == pool[k] > 0 /\ ~IsDead(pool[k])
           room == Evicted(k)
           spawned == Append(room.processes, NewProcess(k))
           p == IF reuse THEN pool[k] ELSE Len(spawned)
           ps == IF reuse THEN processes ELSE spawned
           call == [pc |-> "waiting", process |-> p, key |-> k, code |-> code]
<1>0. CallsInv(processes, procCalls) /\ PoolInv(pool, recency, processes) /\ processes \in Seq(Process) /\ procCalls[c].pc = "idle"
  BY DEF ProcInv, CallsInv, CallsTyped, RunCall
<1>1. /\ pool' = IF reuse THEN pool ELSE [room.pool EXCEPT ![k] = p]
      /\ recency' = IF reuse THEN recency ELSE Touched(k)
      /\ processes' = [ps EXCEPT ![p].waiting = Append(@, c)]
      /\ procCalls' = [procCalls EXCEPT ![c] = call]
      /\ UNCHANGED answers
  BY DEF RunCall
<1>2. CallsInv(ps, procCalls) /\ ps \in Seq(Process) /\ p \in DOMAIN ps /\ p \in Nat
      /\ PoolInv(pool', recency', ps)
  <2>1. CASE reuse
    <3>1. ps = processes /\ p = pool[k] /\ pool' = pool /\ recency' = recency
      BY <1>1, <2>1
    <3>2. pool[k] \in DOMAIN processes /\ pool[k] \in Nat
      BY <1>0, <2>1 DEF PoolInv
    <3> HIDE DEF ps, p, reuse
    <3> QED BY <1>0, <3>1, <3>2
  <2>2. CASE ~reuse
    <3> DEFINE qs == room.processes
               n == Len(qs) + 1
    <3>1. SomeEnded(processes, qs) /\ PoolInv(room.pool, recency, qs) /\ room.pool[k] = pool[k]
      BY <1>0, EvictedKeeps
    <3>2. ps = spawned /\ p = Len(spawned) /\ pool' = [room.pool EXCEPT ![k] = p] /\ recency' = Touched(k)
      BY <1>1, <2>2
    <3>3. pool[k] > 0 => qs[pool[k]].state # "live"
      <4>1. ASSUME pool[k] > 0 PROVE qs[pool[k]].state # "live"
        <5>1. processes[pool[k]].state # "live" /\ pool[k] \in DOMAIN processes
          BY <1>0, <2>2, <4>1 DEF IsDead, PoolInv
        <5> QED BY <3>1, <5>1 DEF SomeEnded
      <4> QED BY <4>1
    <3> HIDE DEF room, qs, reuse
    <3>4. CallsInv(qs, procCalls)
      BY <1>0, <3>1, EndingKeeps
    <3>5. /\ CallsInv(spawned, procCalls) /\ spawned \in Seq(Process)
          /\ DOMAIN spawned = 1..n /\ DOMAIN qs = 1..Len(qs) /\ Len(qs) \in Nat
          /\ \A o \in DOMAIN qs : spawned[o] = qs[o]
          /\ spawned[n] = NewProcess(k) /\ NewProcess(k).key = k
      BY <3>4, SpawningKeeps DEF qs
    <3> HIDE DEF spawned
    <3>6. p = n /\ n \in DOMAIN spawned /\ n \in Nat
      BY <3>2, <3>5, LenProperties
    <3> HIDE DEF p, ps, n
    <3>8. PoolInv(pool', recency', spawned)
      <4> DEFINE po == room.pool
      <4>1. /\ po \in [PoolKeys -> Nat] /\ recency \in Seq(PoolKeys)
            /\ \A j \in PoolKeys : po[j] > 0 => po[j] \in DOMAIN qs /\ qs[po[j]].key = j
            /\ \A j \in PoolKeys : po[j] > 0 => \E i \in DOMAIN recency : recency[i] = j
            /\ \A o \in DOMAIN qs : qs[o].state = "live" => \E j \in PoolKeys : po[j] = o
        BY <3>1 DEF PoolInv
      <4>2. Touched(k) \in Seq(PoolKeys) /\ \A j \in PoolKeys : j = k \/ (\E i \in DOMAIN recency : recency[i] = j) =>
              \E i \in DOMAIN Touched(k) : Touched(k)[i] = j
        BY <4>1, TouchedKeeps
      <4>3. pool' = [po EXCEPT ![k] = n]
        BY <3>2, <3>6
      <4>4. pool' \in [PoolKeys -> Nat] /\ \A j \in PoolKeys : pool'[j] = IF j = k THEN n ELSE po[j]
        BY <3>6, <4>1, <4>3
      <4>5. \A o \in DOMAIN spawned : o \in DOMAIN qs \/ o = n
        BY <3>5, <3>6 DEF n
      <4>6. \A o \in DOMAIN qs : o \in DOMAIN spawned
        BY <3>5, <3>6 DEF n
      <4> HIDE DEF po
      <4>7. ASSUME NEW o \in DOMAIN spawned, spawned[o].state = "live" PROVE \E j \in PoolKeys : pool'[j] = o
        <5>1. CASE o = n
          BY <4>4, <5>1
        <5>2. CASE o \in DOMAIN qs
          <6>1. PICK j \in PoolKeys : po[j] = o
            BY <3>5, <4>1, <4>7, <5>2
          <6>2. j # k
            <7>1. o \in Nat /\ o > 0
              BY <3>5, <5>2
            <7> QED BY <3>1, <3>3, <3>5, <4>7, <5>2, <6>1, <7>1 DEF po
          <6> QED BY <4>4, <6>1, <6>2
        <5> QED BY <4>5, <5>1, <5>2
      <4>8. ASSUME NEW j \in PoolKeys, pool'[j] > 0
            PROVE  /\ pool'[j] \in DOMAIN spawned /\ spawned[pool'[j]].key = j
                   /\ \E i \in DOMAIN Touched(k) : Touched(k)[i] = j
        <5>1. CASE j = k
          BY <3>5, <3>6, <4>2, <4>4, <5>1
        <5>2. CASE j # k
          <6>1. pool'[j] = po[j] /\ po[j] > 0
            BY <4>4, <4>8, <5>2
          <6>2. po[j] \in DOMAIN qs /\ qs[po[j]].key = j /\ \E i \in DOMAIN recency : recency[i] = j
            BY <4>1, <6>1
          <6>3. po[j] \in DOMAIN spawned /\ spawned[po[j]] = qs[po[j]]
            BY <3>5, <4>6, <6>2
          <6>4. \E i \in DOMAIN Touched(k) : Touched(k)[i] = j
            BY <4>2, <6>2
          <6> QED BY <6>1, <6>2, <6>3, <6>4
        <5> QED BY <5>1, <5>2
      <4> QED BY <3>2, <4>2, <4>4, <4>7, <4>8 DEF PoolInv
    <3> QED BY <3>2, <3>5, <3>6, <3>8
  <2> QED BY <2>1, <2>2
<1> HIDE DEF p, ps, reuse, room
<1> DEFINE n == [ps[p] EXCEPT !.waiting = Append(ps[p].waiting, c)]
<1>3. ps[p] \in Process /\ ps[p].waiting \in Seq(ProcCallers)
  BY <1>2, ProcessAt
<1>4. Append(ps[p].waiting, c) \in Seq(ProcCallers)
  BY <1>3, AppendProperties
<1>5. /\ n \in Process /\ n.key = ps[p].key /\ n.state = ps[p].state /\ n.stdin = ps[p].stdin /\ n.stdout = ps[p].stdout
      /\ n.waiting = Append(ps[p].waiting, c)
  BY <1>3, <1>4 DEF Process
<1>6. processes' = [ps EXCEPT ![p] = n]
  BY <1>1
<1> HIDE DEF n
<1>7. processes' \in Seq(Process) /\ DOMAIN processes' = DOMAIN ps /\ \A o \in DOMAIN ps : processes'[o] = IF o = p THEN n ELSE ps[o]
  BY <1>2, <1>5, <1>6, ExceptSeq, LenProperties
<1>8. Enqueued(ps, processes', p, c)
  BY <1>5, <1>7 DEF Enqueued
<1>9. call \in CallType /\ call.pc = "waiting" /\ call.process = p /\ call.code = code /\ call.key = k
  BY <1>2 DEF CallType
<1> HIDE DEF call
<1>10. CallsInv(processes', procCalls')
  BY <1>0, <1>1, <1>2, <1>8, <1>9, EnqueuingKeeps
<1>11. PoolInv(pool', recency', processes')
  BY <1>2, <1>5, <1>7, PoolSame
<1>12. AnswersMatch' /\ RunsSentCode'
  BY <1>1 DEF ProcInv, AnswersMatch, RunsSentCode
<1> QED BY <1>10, <1>11, <1>12 DEF ProcInv

\* The pipes of p change, and serve the call c at the head of its chain, which reads.
Repiped(ps, cs, qs, ds, p, c) ==
  /\ qs \in Seq(Process) /\ DOMAIN qs = DOMAIN ps /\ \A q \in DOMAIN ps : q # p => qs[q] = ps[q]
  /\ qs[p].key = ps[p].key /\ qs[p].waiting = ps[p].waiting /\ ps[p].waiting[1] = c
  /\ ds \in [ProcCallers -> CallType] /\ \A d \in ProcCallers : d # c => ds[d] = cs[d]
  /\ cs[c].pc # "idle" /\ cs[c].process = p
  /\ ds[c].pc = "reading" /\ ds[c].process = p /\ ds[c].code = cs[c].code /\ ds[c].key = cs[c].key
  /\ Serves(qs[p].stdin, qs[p].stdout, c, cs[c].code)

LEMMA PipesKeep ==
  ASSUME NEW ps, NEW cs, NEW qs, NEW ds, NEW p \in DOMAIN ps, NEW c \in ProcCallers, CallsInv(ps, cs),
         Repiped(ps, cs, qs, ds, p, c)
  PROVE  CallsInv(qs, ds)
<1> USE DEF Repiped
<1>1. /\ ps \in Seq(Process) /\ cs \in [ProcCallers -> CallType]
      /\ \A d \in ProcCallers : cs[d].pc # "idle" => cs[d].process \in DOMAIN ps /\ cs[d].code \in Codes /\ cs[d].key \in PoolKeys
  BY DEF CallsInv, CallsTyped
<1>2. \A d \in ProcCallers : (ds[d].pc # "idle") = (cs[d].pc # "idle") /\ (cs[d].pc # "idle" => ds[d].process = cs[d].process /\ ds[d].code = cs[d].code /\ ds[d].key = cs[d].key)
  <2>1. TAKE d \in ProcCallers
  <2>2. CASE d = c
    BY <2>2
  <2>3. CASE d # c
    BY <2>3
  <2> QED BY <2>2, <2>3
<1>3. \A q \in DOMAIN ps : qs[q].waiting = ps[q].waiting
  OBVIOUS
<1>4. CallsTyped(qs, ds)
  BY <1>1, <1>2 DEF CallsTyped
<1>5. \A d \in ProcCallers : d # c /\ cs[d].pc = "reading" => cs[d].process # p
  BY DEF CallsInv, Chained
<1>6. Chained(qs, ds)
  <2>1. ASSUME NEW q \in DOMAIN qs
        PROVE  /\ \A i \in DOMAIN qs[q].waiting : ds[qs[q].waiting[i]].pc # "idle" /\ ds[qs[q].waiting[i]].process = q
               /\ \A i, j \in DOMAIN qs[q].waiting : qs[q].waiting[i] = qs[q].waiting[j] => i = j
    <3>1. /\ \A i \in DOMAIN ps[q].waiting : cs[ps[q].waiting[i]].pc # "idle" /\ cs[ps[q].waiting[i]].process = q
          /\ \A i, j \in DOMAIN ps[q].waiting : ps[q].waiting[i] = ps[q].waiting[j] => i = j
      BY DEF CallsInv, Chained
    <3>2. ps[q].waiting \in Seq(ProcCallers)
      BY <1>1, ProcessAt
    <3>3. \A i \in DOMAIN ps[q].waiting : ps[q].waiting[i] \in ProcCallers
      BY <3>2, ElementOfSeq, LenProperties
    <3> QED BY <1>2, <1>3, <3>1, <3>3
  <2>2. ASSUME NEW d \in ProcCallers, ds[d].pc # "idle"
        PROVE  \E i \in DOMAIN qs[ds[d].process].waiting : qs[ds[d].process].waiting[i] = d
    <3>1. cs[d].pc # "idle" /\ ds[d].process = cs[d].process /\ cs[d].process \in DOMAIN ps
      BY <1>1, <1>2, <2>2
    <3>2. qs[ds[d].process].waiting = ps[cs[d].process].waiting
      BY <1>3, <3>1
    <3>3. \E i \in DOMAIN ps[cs[d].process].waiting : ps[cs[d].process].waiting[i] = d
      BY <3>1 DEF CallsInv, Chained
    <3> QED BY <3>2, <3>3
  <2>3. ASSUME NEW d \in ProcCallers, ds[d].pc = "reading" PROVE qs[ds[d].process].waiting[1] = d
    <3>1. CASE d = c
      BY <3>1
    <3>2. CASE d # c
      BY <1>1, <1>3, <2>3, <3>2 DEF CallsInv, Chained
    <3> QED BY <3>1, <3>2
  <2> QED BY <2>1, <2>2, <2>3 DEF Chained
<1>7. Piped(qs, ds)
  <2>1. ASSUME NEW d \in ProcCallers, ds[d].pc = "reading"
        PROVE  Serves(qs[ds[d].process].stdin, qs[ds[d].process].stdout, d, ds[d].code)
    <3>1. CASE d = c
      BY <3>1
    <3>2. CASE d # c
      <4>1. ds[d] = cs[d] /\ cs[d].pc = "reading" /\ cs[d].process # p /\ cs[d].process \in DOMAIN ps
        BY <1>1, <1>5, <2>1, <3>2
      <4>2. qs[cs[d].process] = ps[cs[d].process]
        BY <4>1
      <4> QED BY <4>1, <4>2 DEF CallsInv, Piped
    <3> QED BY <3>1, <3>2
  <2>2. ASSUME NEW q \in DOMAIN qs, qs[q].state = "live" /\ (qs[q].stdin # <<>> \/ qs[q].stdout # <<>>)
        PROVE  \E d \in ProcCallers : ds[d].pc = "reading" /\ ds[d].process = q
    <3>1. CASE q = p
      BY <3>1
    <3>2. CASE q # p
      <4>1. qs[q] = ps[q] /\ q \in DOMAIN ps
        BY <3>2
      <4>2. PICK d \in ProcCallers : cs[d].pc = "reading" /\ cs[d].process = q
        BY <2>2, <4>1 DEF CallsInv, Piped
      <4>3. d # c
        BY <3>2, <4>2
      <4> QED BY <4>2, <4>3
    <3> QED BY <3>1, <3>2
  <2> QED BY <2>1, <2>2 DEF Piped
<1> QED BY <1>4, <1>6, <1>7 DEF CallsInv

\* What is known of a call that is running.
LEMMA OnChain ==
  ASSUME CallsInv(processes, procCalls), NEW c \in ProcCallers, NEW p, p = procCalls[c].process, procCalls[c].pc # "idle"
  PROVE  /\ processes \in Seq(Process) /\ p \in DOMAIN processes /\ procCalls[c].key \in PoolKeys /\ procCalls[c].code \in Codes
         /\ procCalls \in [ProcCallers -> CallType] /\ processes[p] \in Process
         /\ processes[p].waiting \in Seq(ProcCallers) /\ processes[p].waiting # <<>>
         /\ processes[p].stdin \in Seq(ProcCallers) /\ processes[p].stdout \in Seq(Line)
<1>1. /\ processes \in Seq(Process) /\ p \in DOMAIN processes /\ procCalls[c].key \in PoolKeys /\ procCalls[c].code \in Codes
      /\ procCalls \in [ProcCallers -> CallType]
  BY DEF CallsInv, CallsTyped
<1>2. \E i \in DOMAIN processes[p].waiting : processes[p].waiting[i] = c
  BY DEF CallsInv, Chained
<1> QED BY <1>1, <1>2, ProcessAt

\* A call that reads is the head of its chain, and the pipes are its own.
LEMMA Reading ==
  ASSUME CallsInv(processes, procCalls), NEW c \in ProcCallers, NEW p, p = procCalls[c].process, procCalls[c].pc = "reading"
  PROVE  processes[p].waiting[1] = c /\ Serves(processes[p].stdin, processes[p].stdout, c, procCalls[c].code)
BY DEF CallsInv, Chained, Piped

LEMMA WriteMessageKeeps ==
  ASSUME ProcInv, NEW c \in ProcCallers, WriteMessage(c)
  PROVE  ProcInv'
<1>0. PICK p : p = procCalls[c].process
  OBVIOUS
<1>1. /\ CallsInv(processes, procCalls) /\ PoolInv(pool, recency, processes) /\ procCalls[c].pc = "waiting"
      /\ Head(processes[p].waiting) = c
      /\ recency' = IF pool[procCalls[c].key] = p THEN Touched(procCalls[c].key) ELSE recency
      /\ pool' = pool /\ answers' = answers
  BY <1>0 DEF ProcInv, WriteMessage, HeadOf
<1>2. /\ processes \in Seq(Process) /\ p \in DOMAIN processes /\ procCalls[c].key \in PoolKeys /\ procCalls[c].code \in Codes
      /\ procCalls \in [ProcCallers -> CallType] /\ processes[p] \in Process
      /\ processes[p].waiting \in Seq(ProcCallers) /\ processes[p].waiting # <<>>
      /\ processes[p].stdin \in Seq(ProcCallers) /\ processes[p].stdout \in Seq(Line)
  BY <1>0, <1>1, OnChain
<1>3. processes[p].waiting[1] = c
  BY <1>1, <1>2, HeadTailProperties
<1>4. CallsInv(processes', procCalls') /\ PoolInv(pool, recency, processes')
  <2>1. CASE IsDead(p)
    <3>1. processes' = Settled(Killed(processes, p), c) /\ procCalls' = [procCalls EXCEPT ![c] = IdleCall]
      BY <1>0, <2>1 DEF WriteMessage
    <3> DEFINE ps == Killed(processes, p)
    <3>2. /\ ps \in Seq(Process) /\ DOMAIN ps = DOMAIN processes /\ \A o \in DOMAIN processes : o # p => ps[o] = processes[o]
          /\ ps[p].key = processes[p].key /\ ps[p].waiting = processes[p].waiting /\ ps[p].state # "live"
      BY <1>2, KilledSame
    <3> HIDE DEF ps
    <3>3. /\ CallsInv(Settled(ps, c), [procCalls EXCEPT ![c] = IdleCall])
          /\ PoolInv(pool, recency, Settled(ps, c))
      BY <1>0, <1>1, <1>3, <3>2, CallEnds
    <3> QED BY <3>1, <3>3 DEF ps
  <2>2. CASE ~IsDead(p)
    <3> DEFINE n == [processes[p] EXCEPT !.stdin = Append(processes[p].stdin, c)]
    <3>1. processes' = [processes EXCEPT ![p] = n] /\ procCalls' = [procCalls EXCEPT ![c].pc = "reading"]
      BY <1>0, <2>2 DEF WriteMessage
    <3>2. processes[p].stdin = <<>> /\ processes[p].stdout = <<>>
      <4>1. \A d \in ProcCallers : procCalls[d].pc = "reading" => procCalls[d].process # p
        BY <1>1, <1>3 DEF CallsInv, Chained
      <4> QED BY <1>1, <1>2, <2>2, <4>1 DEF IsDead, CallsInv, Piped
    <3>3. Append(processes[p].stdin, c) = <<c>> /\ <<c>> \in Seq(ProcCallers)
      BY <3>2
    <3>4. /\ n \in Process /\ n.key = processes[p].key /\ n.state = processes[p].state /\ n.stdin = <<c>>
          /\ n.stdout = <<>> /\ n.waiting = processes[p].waiting
      BY <1>2, <3>2, <3>3 DEF Process
    <3> HIDE DEF n
    <3>5. /\ processes' \in Seq(Process) /\ DOMAIN processes' = DOMAIN processes
          /\ \A o \in DOMAIN processes : processes'[o] = IF o = p THEN n ELSE processes[o]
      BY <1>2, <3>1, <3>4, ExceptSeq, LenProperties
    <3>6. /\ procCalls' \in [ProcCallers -> CallType] /\ \A d \in ProcCallers : d # c => procCalls'[d] = procCalls[d]
          /\ procCalls'[c].pc = "reading" /\ procCalls'[c].process = p /\ procCalls'[c].code = procCalls[c].code
          /\ procCalls'[c].key = procCalls[c].key
      BY <1>0, <1>2, <3>1 DEF CallType
    <3>7. Serves(<<c>>, <<>>, c, procCalls[c].code)
      BY DEF Serves
    <3>8. CallsInv(processes', procCalls')
      <4>1. /\ processes'[p].stdin = <<c>> /\ processes'[p].stdout = <<>> /\ processes'[p].key = processes[p].key
            /\ processes'[p].waiting = processes[p].waiting
            /\ \A o \in DOMAIN processes : o # p => processes'[o] = processes[o]
        BY <1>2, <3>4, <3>5
      <4>2. Serves(processes'[p].stdin, processes'[p].stdout, c, procCalls[c].code)
        BY <3>7, <4>1
      <4>3. Repiped(processes, procCalls, processes', procCalls', p, c)
        BY <1>0, <1>1, <1>2, <1>3, <3>5, <3>6, <4>1, <4>2 DEF Repiped
      <4> QED BY <1>1, <1>2, <4>3, PipesKeep
    <3>9. PoolInv(pool, recency, processes')
      BY <1>1, <3>4, <3>5, PoolSame
    <3> QED BY <3>8, <3>9
  <2> QED BY <2>1, <2>2
<1>5. PoolInv(pool', recency', processes')
  <2>1. CASE pool[procCalls[c].key] = p
    BY <1>1, <1>2, <1>4, <2>1, PoolTouched
  <2>2. CASE pool[procCalls[c].key] # p
    BY <1>1, <1>4, <2>2
  <2> QED BY <2>1, <2>2
<1> QED BY <1>1, <1>4, <1>5 DEF ProcInv, AnswersMatch, RunsSentCode

\* The call c gives up on its process: ReadEnd and ProcTimeout.
LEMMA GivingUpKeeps ==
  ASSUME ProcInv, NEW c \in ProcCallers, procCalls[c].pc = "reading",
         processes' = Settled(Killed(processes, procCalls[c].process), c),
         procCalls' = [procCalls EXCEPT ![c] = IdleCall], UNCHANGED <<pool, recency, answers>>
  PROVE  ProcInv'
<1>0. PICK p : p = procCalls[c].process
  OBVIOUS
<1>1. CallsInv(processes, procCalls) /\ PoolInv(pool, recency, processes)
  BY DEF ProcInv
<1>2. processes \in Seq(Process) /\ p \in DOMAIN processes
  BY <1>0, <1>1, OnChain
<1>3. processes[p].waiting[1] = c
  BY <1>0, <1>1, Reading
<1> DEFINE ps == Killed(processes, p)
<1>4. /\ ps \in Seq(Process) /\ DOMAIN ps = DOMAIN processes /\ \A o \in DOMAIN processes : o # p => ps[o] = processes[o]
      /\ ps[p].key = processes[p].key /\ ps[p].waiting = processes[p].waiting /\ ps[p].state # "live"
  BY <1>2, KilledSame
<1>5. processes' = Settled(ps, c)
  BY <1>0
<1> HIDE DEF ps
<1>6. /\ CallsInv(Settled(ps, c), [procCalls EXCEPT ![c] = IdleCall])
      /\ PoolInv(pool, recency, Settled(ps, c))
  BY <1>0, <1>1, <1>3, <1>4, CallEnds
<1> QED BY <1>5, <1>6 DEF ProcInv, AnswersMatch, RunsSentCode

LEMMA ReadAnswerKeeps ==
  ASSUME ProcInv, NEW c \in ProcCallers, ReadAnswer(c)
  PROVE  ProcInv'
<1>0. PICK p : p = procCalls[c].process
  OBVIOUS
<1> DEFINE line == Head(processes[p].stdout)
           n == [processes[p] EXCEPT !.stdout = Tail(processes[p].stdout)]
           read == [processes EXCEPT ![p] = n]
<1>1. /\ CallsInv(processes, procCalls) /\ PoolInv(pool, recency, processes) /\ procCalls[c].pc = "reading"
      /\ processes[p].stdout # <<>>
      /\ answers' = answers \cup {[sent |-> procCalls[c].code, ran |-> line.ran, matched |-> line.for = c]}
      /\ processes' = Settled(IF line.for = c THEN read ELSE Killed(read, p), c)
      /\ procCalls' = [procCalls EXCEPT ![c] = IdleCall] /\ pool' = pool /\ recency' = recency
  BY <1>0 DEF ProcInv, ReadAnswer
<1>2. /\ processes \in Seq(Process) /\ p \in DOMAIN processes /\ processes[p] \in Process
      /\ processes[p].stdin \in Seq(ProcCallers) /\ processes[p].stdout \in Seq(Line)
  BY <1>0, <1>1, OnChain
<1>3. processes[p].waiting[1] = c /\ Serves(processes[p].stdin, processes[p].stdout, c, procCalls[c].code)
  BY <1>0, <1>1, Reading
<1>4. line.for = c /\ line.ran = procCalls[c].code /\ processes[p].stdin = <<>> /\ Tail(processes[p].stdout) = <<>>
  <2> DEFINE in == processes[p].stdin
             out == processes[p].stdout
  <2> HIDE DEF in, out
  <2>1. /\ Len(in) \in Nat /\ Len(out) \in Nat /\ DOMAIN out = 1..Len(out) /\ Len(out) # 0 /\ Len(in) + Len(out) <= 1
    BY <1>1, <1>2, <1>3, LenProperties, EmptySeq DEF Serves, in, out
  <2>2. Len(in) = 0 /\ Len(out) = 1
    BY <2>1
  <2>3. Head(out) = out[1] /\ 1 \in DOMAIN out /\ Tail(out) = <<>>
    <3>1. Head(out) = out[1] /\ 1 \in DOMAIN out
      BY <1>2, <2>1, <2>2, HeadTailProperties DEF out
    <3>2. Tail(out) \in Seq(Line) /\ Len(Tail(out)) = 0
      BY <1>1, <1>2, <2>2, HeadTailProperties DEF out
    <3> QED BY <3>1, <3>2, EmptySeq
  <2>4. in = <<>>
    BY <1>2, <2>2, EmptySeq DEF in
  <2>5. out[1].for = c /\ out[1].ran = procCalls[c].code
    BY <1>3, <2>3 DEF Serves, out
  <2> QED BY <2>3, <2>4, <2>5 DEF in, out
<1>5. n \in Process /\ n.key = processes[p].key /\ n.state = processes[p].state /\ n.stdin = <<>> /\ n.stdout = <<>> /\ n.waiting = processes[p].waiting
  <2>1. <<>> \in Seq([for : ProcCallers, ran : Codes])
    BY EmptySeq
  <2> QED BY <1>2, <1>4, <2>1 DEF Process
<1> HIDE DEF n, line
<1>6. read \in Seq(Process) /\ DOMAIN read = DOMAIN processes /\ \A o \in DOMAIN processes : read[o] = IF o = p THEN n ELSE processes[o]
  BY <1>2, <1>5, ExceptSeq, LenProperties
<1> HIDE DEF read
<1>7. /\ CallsInv(Settled(read, c), [procCalls EXCEPT ![c] = IdleCall])
      /\ PoolInv(pool, recency, Settled(read, c))
  <2>1. /\ \A o \in DOMAIN processes : o # p => read[o] = processes[o]
        /\ read[p].key = processes[p].key /\ read[p].waiting = processes[p].waiting
        /\ read[p].state = "live" => processes[p].state = "live" /\ read[p].stdin = <<>> /\ read[p].stdout = <<>>
    BY <1>2, <1>5, <1>6
  <2> QED BY <1>0, <1>1, <1>3, <1>6, <2>1, CallEnds
<1>8. CallsInv(processes', procCalls') /\ PoolInv(pool', recency', processes')
  BY <1>1, <1>4, <1>7
<1>9. AnswersMatch' /\ RunsSentCode'
  <2> DEFINE a == [sent |-> procCalls[c].code, ran |-> line.ran, matched |-> line.for = c]
  <2>1. a.ran = a.sent
    BY <1>4
  <2>2. a.matched
    BY <1>4, Zenon
  <2>3. answers' = answers \cup {a}
    BY <1>1
  <2> HIDE DEF a
  <2>4. AnswersMatch'
    BY <2>2, <2>3, Zenon DEF ProcInv, AnswersMatch
  <2>5. RunsSentCode'
    BY <2>1, <2>3 DEF ProcInv, RunsSentCode
  <2> QED BY <2>4, <2>5
<1> QED BY <1>8, <1>9 DEF ProcInv

LEMMA WorkerAnswersKeeps ==
  ASSUME ProcInv, NEW p \in DOMAIN processes, WorkerAnswers(p)
  PROVE  ProcInv'
<1>1. /\ CallsInv(processes, procCalls) /\ PoolInv(pool, recency, processes)
      /\ processes[p].state = "live" /\ processes[p].stdin # <<>>
      /\ pool' = pool /\ recency' = recency /\ procCalls' = procCalls /\ answers' = answers
  BY DEF ProcInv, WorkerAnswers, IsDead
<1>2. PICK c \in ProcCallers : procCalls[c].pc = "reading" /\ procCalls[c].process = p
  BY <1>1 DEF CallsInv, Piped
<1>3. /\ processes \in Seq(Process) /\ processes[p] \in Process /\ procCalls[c].code \in Codes
      /\ procCalls \in [ProcCallers -> CallType]
      /\ processes[p].stdin \in Seq(ProcCallers) /\ processes[p].stdout \in Seq(Line)
  BY <1>1, <1>2, OnChain
<1>4. processes[p].waiting[1] = c /\ Serves(processes[p].stdin, processes[p].stdout, c, procCalls[c].code)
  BY <1>1, <1>2, Reading
<1>5. Head(processes[p].stdin) = c /\ Tail(processes[p].stdin) = <<>> /\ processes[p].stdout = <<>>
  <2> DEFINE in == processes[p].stdin
             out == processes[p].stdout
  <2> HIDE DEF in, out
  <2>1. /\ Len(in) \in Nat /\ Len(out) \in Nat /\ DOMAIN in = 1..Len(in) /\ Len(in) # 0 /\ Len(in) + Len(out) <= 1
    BY <1>1, <1>3, <1>4, LenProperties, EmptySeq DEF Serves, in, out
  <2>2. Len(in) = 1 /\ Len(out) = 0
    BY <2>1
  <2>3. Head(in) = in[1] /\ 1 \in DOMAIN in /\ Tail(in) = <<>>
    <3>1. Head(in) = in[1] /\ 1 \in DOMAIN in
      BY <1>3, <2>1, <2>2, HeadTailProperties DEF in
    <3>2. Tail(in) \in Seq(ProcCallers) /\ Len(Tail(in)) = 0
      BY <1>1, <1>3, <2>2, HeadTailProperties DEF in
    <3> QED BY <3>1, <3>2, EmptySeq
  <2>4. out = <<>>
    BY <1>3, <2>2, EmptySeq DEF out
  <2>5. in[1] = c
    BY <1>4, <2>3 DEF Serves, in
  <2> QED BY <2>3, <2>4, <2>5 DEF in, out
<1>6. ModuleFor(p, procCalls[c].code) = procCalls[c].code
  BY DEF ModuleFor
<1> DEFINE line == [for |-> c, ran |-> procCalls[c].code]
           n == [processes[p] EXCEPT !.stdin = <<>>, !.module = procCalls[c].code, !.stdout = <<line>>]
<1>7. Append(<<>>, line) = <<line>> /\ line \in [for : ProcCallers, ran : Codes] /\ <<line>> \in Seq([for : ProcCallers, ran : Codes])
  BY <1>3
<1>8. processes' = [processes EXCEPT ![p] = n]
  <2>1. processes' = [processes EXCEPT ![p] = Answered(processes[p], c, procCalls[c].code)]
    BY <1>5, <1>6 DEF WorkerAnswers
  <2>2. Answered(processes[p], c, procCalls[c].code) = n
    BY <1>5, <1>7 DEF Answered
  <2> QED BY <2>1, <2>2
<1>9. /\ n \in Process /\ n.key = processes[p].key /\ n.state = processes[p].state /\ n.stdin = <<>>
      /\ n.stdout = <<line>> /\ n.waiting = processes[p].waiting
  <2>1. <<>> \in Seq(ProcCallers)
    BY EmptySeq
  <2> HIDE DEF line
  <2> QED BY <1>3, <1>7, <2>1 DEF Process
<1>10. Serves(<<>>, <<line>>, c, procCalls[c].code)
  BY DEF Serves
<1> HIDE DEF n, line
<1>11. /\ processes' \in Seq(Process) /\ DOMAIN processes' = DOMAIN processes
       /\ \A o \in DOMAIN processes : processes'[o] = IF o = p THEN n ELSE processes[o]
  BY <1>3, <1>8, <1>9, ExceptSeq, LenProperties
<1>12. CallsInv(processes', procCalls)
  <2>1. /\ processes'[p].stdin = <<>> /\ processes'[p].stdout = <<line>> /\ processes'[p].key = processes[p].key
        /\ processes'[p].waiting = processes[p].waiting
        /\ \A o \in DOMAIN processes : o # p => processes'[o] = processes[o]
    BY <1>9, <1>11
  <2>2. Serves(processes'[p].stdin, processes'[p].stdout, c, procCalls[c].code)
    BY <1>10, <2>1
  <2>3. Repiped(processes, procCalls, processes', procCalls, p, c)
    BY <1>1, <1>2, <1>3, <1>4, <1>11, <2>1, <2>2 DEF Repiped
  <2> QED BY <1>1, <2>3, PipesKeep
<1>13. PoolInv(pool, recency, processes')
  BY <1>1, <1>9, <1>11, PoolSame
<1> QED BY <1>1, <1>12, <1>13 DEF ProcInv, AnswersMatch, RunsSentCode

\* Some processes end: WorkerExits, and part of ShutdownPool.
LEMMA WorkerExitsKeeps ==
  ASSUME ProcInv, NEW p \in DOMAIN processes, WorkerExits(p)
  PROVE  ProcInv'
<1>1. /\ CallsInv(processes, procCalls) /\ PoolInv(pool, recency, processes) /\ processes \in Seq(Process)
      /\ pool' = pool /\ recency' = recency /\ procCalls' = procCalls /\ answers' = answers
      /\ processes' = [processes EXCEPT ![p] = Ended(processes[p], "exited")]
  BY DEF ProcInv, WorkerExits, CallsInv, CallsTyped
<1>2. processes[p] \in Process
  BY <1>1, ProcessAt
<1> DEFINE n == Ended(processes[p], "exited")
<1>3. n \in Process /\ n.key = processes[p].key /\ n.waiting = processes[p].waiting /\ n.stdout = processes[p].stdout /\ n.stdin = <<>> /\ n.state = "exited"
  BY <1>2, EndedFields
<1> HIDE DEF n
<1>4. /\ processes' \in Seq(Process) /\ DOMAIN processes' = DOMAIN processes
      /\ \A o \in DOMAIN processes : processes'[o] = IF o = p THEN n ELSE processes[o]
  BY <1>1, <1>3, ExceptSeq, LenProperties DEF n
<1>5. SomeEnded(processes, processes')
  BY <1>3, <1>4 DEF SomeEnded
<1>6. CallsInv(processes', procCalls)
  BY <1>1, <1>5, EndingKeeps
<1>7. PoolInv(pool, recency, processes')
  BY <1>1, <1>3, <1>4, PoolSame
<1> QED BY <1>1, <1>6, <1>7 DEF ProcInv, AnswersMatch, RunsSentCode

LEMMA ShutdownKeeps ==
  ASSUME ProcInv, ShutdownPool
  PROVE  ProcInv'
<1>1. /\ CallsInv(processes, procCalls) /\ PoolInv(pool, recency, processes) /\ processes \in Seq(Process)
      /\ pool' = [k \in PoolKeys |-> 0] /\ recency' = recency /\ procCalls' = procCalls /\ answers' = answers
      /\ processes' = [p \in DOMAIN processes |->
           IF \E k \in Pooled : pool[k] = p THEN Signalled(processes[p]) ELSE processes[p]]
  BY DEF ProcInv, ShutdownPool, CallsInv, CallsTyped
<1>2. \A p \in DOMAIN processes :
        /\ processes'[p] = processes[p] \/ processes'[p] = Signalled(processes[p])
        /\ processes[p].state = "live" => processes'[p] = Signalled(processes[p])
  <2>1. TAKE p \in DOMAIN processes
  <2>2. p \in Nat /\ p > 0
    BY <1>1, ProcessAt
  <2>3. processes[p].state = "live" => \E k \in Pooled : pool[k] = p
    BY <1>1, <2>2 DEF PoolInv, Pooled
  <2> QED BY <1>1, <2>3
<1>3. \A p \in DOMAIN processes :
        /\ processes'[p] \in Process /\ processes'[p].key = processes[p].key /\ processes'[p].waiting = processes[p].waiting
        /\ processes'[p].stdout = processes[p].stdout /\ processes'[p].state # "live"
        /\ processes'[p] = processes[p] \/ processes'[p].stdin = <<>>
  <2>1. \A p \in DOMAIN processes : processes[p] \in Process
    BY <1>1, ProcessAt
  <2> QED BY <1>2, <2>1, SignalledFields
<1>4. DOMAIN processes' = DOMAIN processes /\ processes' \in Seq(Process)
  <2>1. DOMAIN processes = 1..Len(processes) /\ Len(processes) \in Nat
    BY <1>1, LenProperties
  <2>2. processes' \in [1..Len(processes) -> Process]
    BY <1>1, <1>3, <2>1
  <2> QED BY <1>1, <2>1, <2>2
<1>5. SomeEnded(processes, processes')
  BY <1>3, <1>4 DEF SomeEnded
<1>6. CallsInv(processes', procCalls)
  BY <1>1, <1>5, EndingKeeps
<1>7. PoolInv(pool', recency', processes')
  <2>1. recency \in Seq(PoolKeys)
    BY <1>1 DEF PoolInv
  <2> QED BY <1>1, <1>3, <1>4, <2>1 DEF PoolInv
<1> QED BY <1>1, <1>6, <1>7 DEF ProcInv, AnswersMatch, RunsSentCode

LEMMA StepProc == ProcInv /\ [ProcNext]_procVars => ProcInv'
<1> SUFFICES ASSUME ProcInv, [ProcNext]_procVars PROVE ProcInv'
  OBVIOUS
<1>1. ASSUME NEW c \in ProcCallers, ReadEnd(c) \/ ProcTimeout(c) PROVE ProcInv'
  BY <1>1, GivingUpKeeps DEF ReadEnd, ProcTimeout
<1>2. CASE UNCHANGED procVars
  BY <1>2 DEF procVars, ProcInv, CallsInv, PoolInv, CallsTyped, Chained, Piped, AnswersMatch, RunsSentCode
<1> QED BY <1>1, <1>2, RunCallKeeps, WriteMessageKeeps, ReadAnswerKeeps, WorkerAnswersKeeps, WorkerExitsKeeps, ShutdownKeeps
  DEF ProcNext

\* A call to a pooled process gets its own answer, from the code it sent, and no process
\* lives outside the pool, for every number of callers, keys and processes
\* (ProcessIsolationProvider.run, evictIfFull, execute, shutdown).
THEOREM ProcessesAreSafe == ProcSpec => []ProcessSafe
<1>1. ProcInv => ProcessSafe
  <2> SUFFICES ASSUME ProcInv PROVE ProcessSafe
    OBVIOUS
  <2>1. CallsInv(processes, procCalls) /\ PoolInv(pool, recency, processes) /\ processes \in Seq(Process)
    BY DEF ProcInv, CallsInv, CallsTyped
  <2>2. DOMAIN processes = 1..Len(processes) /\ Len(processes) \in Nat /\ \A p \in DOMAIN processes : processes[p] \in Process
    BY <2>1, LenProperties, ProcessAt
  <2>3. ProcTypeOK
    <3>1. pool \in [PoolKeys -> 0..Len(processes)]
      BY <2>1, <2>2 DEF PoolInv
    <3> QED BY <2>1, <2>2, <3>1 DEF ProcTypeOK, PoolInv, CallsInv, Chained
  <2>4. ProcessesAccounted
    BY <2>1 DEF ProcessesAccounted, Live, IsDead, PoolInv
  <2> QED BY <2>3, <2>4 DEF ProcInv, ProcessSafe
<1> QED BY <1>1, InitProc, StepProc, PTL DEF ProcSpec

----------------------------------------------------------------------------
(* Hot reload: the inductive invariant.  fl are the files, w the watcher,   *)
(* rs the running callbacks, d the configuration of the server.             *)

FilesType == [toml : Versions, bad : SUBSET DevFns, code : Versions]
ReloadType == [pc : {"idle", "reading", "read"}, toml : Versions, bad : SUBSET DevFns, code : BOOLEAN]
DevType == [config : Versions, bad : SUBSET DevFns, perms : [DevFns -> Opt(Versions)], secrets : [DevFns -> Versions],
            rev : Versions, since : Versions, partial : BOOLEAN, missed : BOOLEAN]
RequestType == [pc : {"idle", "stat", "load", "import", "evaluated"}, old : Opt(Versions), url : Versions, ran : Opt(Versions)]

\* The watcher holds events, the newest ones.
WatchOK(w) ==
  /\ w \in [pending : Seq({"toml", "code"}), timer : BOOLEAN, stopped : BOOLEAN]
  /\ Len(w.pending) <= MaxPending /\ (w.timer => w.pending # <<>>)

\* The callbacks that will raise the revision.
Raising(rs) == {r \in Reloads : rs[r].code}

\* Every rise of the revision, past or to come, is due to a change of the code of its own.
RaisesEarned(fl, w, rs, d) ==
  d.rev + Cardinality(Raising(rs)) + (IF Contains(w.pending, "code") THEN 1 ELSE 0) <= fl.code

\* As long as no change of railfog.toml was missed one callback runs at a time; unless the change
\* is still pending, what a callback has read is what is on disk, and so is what is in use unless
\* a callback runs (or the declarations on disk do not resolve).
CatchingUp(fl, w, rs, d) ==
  ~w.stopped /\ ~d.missed =>
    /\ \A r, o \in Reloads : rs[r].pc # "idle" /\ rs[o].pc # "idle" => r = o
    /\ ~Contains(w.pending, "toml") =>
         /\ \A r \in Reloads : rs[r].pc = "read" => rs[r].toml = fl.toml /\ rs[r].bad = fl.bad
         /\ (\E r \in Reloads : rs[r].pc # "idle") \/ fl.bad # {} \/ d.config = fl.toml

Allowed(d) == ~d.partial => \A f \in DevFns : d.perms[f] # Unset => d.secrets[f] = d.perms[f]

ReloadInv(fl, w, rs, d) ==
  /\ fl \in FilesType /\ WatchOK(w) /\ rs \in [Reloads -> ReloadType] /\ d \in DevType
  /\ RaisesEarned(fl, w, rs, d) /\ CatchingUp(fl, w, rs, d) /\ Allowed(d)

\* The source of a module that was evaluated has been read.
ImportsOK(im, cs, l) ==
  /\ l \in Opt(Module) /\ im \in [Versions -> Opt(Versions)] /\ cs \in [DevRequests -> RequestType]
  /\ \A c \in DevRequests : cs[c].pc = "evaluated" => im[cs[c].url] # Unset

DevInv == ReloadInv(files, watch, reloads, dev) /\ ImportsOK(imported, calls, loaded)

----------------------------------------------------------------------------
LEMMA VersionFacts == 0 \in Versions /\ Versions \subseteq Nat /\ Unset \notin Versions /\ \A v \in Versions : v <= MaxEdits
BY DevAssumption DEF Versions

LEMMA InitDev == DevInit => DevInv
<1> SUFFICES ASSUME DevInit PROVE DevInv
  OBVIOUS
<1>1. files \in FilesType /\ files.code = 0 /\ files.toml = 0
  BY VersionFacts DEF DevInit, FilesType
<1>2. WatchOK(watch) /\ watch.pending = <<>>
  <2>1. <<>> \in Seq({"toml", "code"}) /\ Len(<<>>) = 0
    BY EmptySeq
  <2> QED BY <2>1, DevAssumption DEF DevInit, WatchOK
<1>3. reloads \in [Reloads -> ReloadType] /\ \A r \in Reloads : reloads[r].pc = "idle" /\ ~reloads[r].code
  BY VersionFacts DEF DevInit, IdleReload, ReloadType
<1>4. dev \in DevType /\ dev.config = 0 /\ dev.rev = 0 /\ \A f \in DevFns : dev.perms[f] = 0 /\ dev.secrets[f] = 0
  BY VersionFacts DEF DevInit, DevType, Opt
<1>5. ~Contains(watch.pending, "code") /\ ~Contains(watch.pending, "toml")
  BY <1>2 DEF Contains
<1>6. RaisesEarned(files, watch, reloads, dev)
  <2>1. Raising(reloads) = {}
    BY <1>3 DEF Raising
  <2> QED BY <1>1, <1>4, <1>5, <2>1, FS_EmptySet DEF RaisesEarned
<1>7. CatchingUp(files, watch, reloads, dev)
  BY <1>1, <1>3, <1>4 DEF CatchingUp
<1>8. Allowed(dev)
  BY <1>4 DEF Allowed
<1>9. ImportsOK(imported, calls, loaded)
  BY VersionFacts DEF DevInit, ImportsOK, Opt, DevIdle, RequestType
<1> QED BY <1>1, <1>2, <1>3, <1>4, <1>6, <1>7, <1>8, <1>9 DEF DevInv, ReloadInv

----------------------------------------------------------------------------
(* The watcher.                                                             *)

LEMMA PushedEvents ==
  ASSUME NEW s \in Seq({"toml", "code"}), Len(s) <= MaxPending, NEW e \in {"toml", "code"}
  PROVE  /\ Pushed(s, e) \in Seq({"toml", "code"}) /\ Len(Pushed(s, e)) <= MaxPending /\ Pushed(s, e) # <<>>
         /\ Contains(Pushed(s, e), e)
         /\ \A x : Contains(Pushed(s, e), x) => x = e \/ Contains(s, x)
<1> DEFINE E == {"toml", "code"}
<1> HIDE DEF E
<1>1. Len(s) \in Nat /\ MaxPending \in Nat /\ MaxPending >= 1 /\ s \in Seq(E) /\ e \in E
  BY LenProperties, DevAssumption DEF E
<1>2. ASSUME NEW t \in Seq(E), Len(t) < MaxPending, \A i \in 1..Len(t) : Contains(s, t[i])
      PROVE  /\ Append(t, e) \in Seq(E) /\ Len(Append(t, e)) <= MaxPending /\ Append(t, e) # <<>>
             /\ Contains(Append(t, e), e)
             /\ \A x : Contains(Append(t, e), x) => x = e \/ Contains(s, x)
  <2>1. /\ Append(t, e) \in Seq(E) /\ Len(t) \in Nat /\ Len(Append(t, e)) = Len(t) + 1
        /\ \A i \in 1..Len(t) : Append(t, e)[i] = t[i]
        /\ Append(t, e)[Len(t) + 1] = e
    BY <1>1, AppendProperties, LenProperties
  <2>2. Append(t, e) # <<>>
    BY <2>1, EmptySeq
  <2>3. Contains(Append(t, e), e)
    <3>1. Len(t) + 1 \in 1..Len(Append(t, e))
      BY <2>1
    <3> QED BY <2>1, <3>1 DEF Contains
  <2>4. ASSUME NEW x, Contains(Append(t, e), x) PROVE x = e \/ Contains(s, x)
    <3>1. PICK i \in 1..(Len(t) + 1) : Append(t, e)[i] = x
      BY <2>1, <2>4 DEF Contains
    <3>2. i = Len(t) + 1 \/ i \in 1..Len(t)
      BY <2>1
    <3> QED BY <1>2, <2>1, <3>1, <3>2
  <2> QED BY <1>1, <1>2, <2>1, <2>2, <2>3, <2>4
<1>3. CASE Len(s) < MaxPending
  <2>1. \A i \in 1..Len(s) : Contains(s, s[i])
    BY DEF Contains
  <2> QED BY <1>1, <1>2, <1>3, <2>1 DEF Pushed, E
<1>4. CASE ~(Len(s) < MaxPending)
  <2>1. s # <<>>
    BY <1>1, <1>4, EmptySeq
  <2>2. /\ Tail(s) \in Seq(E) /\ Len(Tail(s)) = Len(s) - 1 /\ \A i \in 1..(Len(s) - 1) : Tail(s)[i] = s[i + 1]
    BY <1>1, <2>1, HeadTailProperties
  <2>3. Len(Tail(s)) < MaxPending
    BY <1>1, <2>2
  <2>4. \A i \in 1..Len(Tail(s)) : Contains(s, Tail(s)[i])
    <3>1. TAKE i \in 1..Len(Tail(s))
    <3>2. i \in 1..(Len(s) - 1) /\ i + 1 \in 1..Len(s)
      BY <1>1, <2>2
    <3> QED BY <2>2, <3>2 DEF Contains
  <2> QED BY <1>2, <1>4, <2>2, <2>3, <2>4 DEF Pushed, E
<1> QED BY <1>3, <1>4

\* An event is noticed, or the watcher has stopped.
LEMMA NoticedFields ==
  ASSUME ReloadInv(files, watch, reloads, dev), NEW kind \in {"toml", "code"}, NEW missed \in BOOLEAN, Noticed(kind, missed)
  PROVE  /\ WatchOK(watch') /\ dev' \in DevType /\ Allowed(dev') /\ dev'.rev = dev.rev /\ dev'.config = dev.config
         /\ Contains(watch'.pending, "code") => kind = "code" \/ Contains(watch.pending, "code")
         /\ ~watch'.stopped => ~watch.stopped /\ Contains(watch'.pending, kind) /\ watch'.pending = Pushed(watch.pending, kind)
         /\ ~watch'.stopped /\ ~dev'.missed => ~dev.missed /\ ~missed
<1>1. WatchOK(watch) /\ dev \in DevType /\ Allowed(dev)
  BY DEF ReloadInv
<1>2. CASE watch.stopped
  <2>1. watch' = watch /\ dev' = dev
    BY <1>2 DEF Noticed
  <2> QED BY <1>1, <1>2, <2>1
<1>3. CASE ~watch.stopped
  <2> DEFINE p == Pushed(watch.pending, kind)
             m == dev.missed \/ missed
  <2>1. watch' = [watch EXCEPT !.pending = p, !.timer = TRUE] /\ dev' = [dev EXCEPT !.missed = m]
    BY <1>3 DEF Noticed
  <2>2. /\ p \in Seq({"toml", "code"}) /\ Len(p) <= MaxPending /\ p # <<>> /\ Contains(p, kind)
        /\ \A x : Contains(p, x) => x = kind \/ Contains(watch.pending, x)
    BY <1>1, PushedEvents DEF WatchOK
  <2>3. m \in BOOLEAN
    OBVIOUS
  <2> HIDE DEF p, m
  <2>4. WatchOK(watch') /\ watch'.pending = p
    BY <1>1, <2>1, <2>2 DEF WatchOK
  <2>5. /\ dev' \in DevType /\ dev'.rev = dev.rev /\ dev'.config = dev.config /\ dev'.perms = dev.perms /\ dev'.secrets = dev.secrets
    BY <1>1, <2>1, <2>3 DEF DevType
  <2>6. Allowed(dev')
    <3>1. dev'.partial = dev.partial
      BY <1>1, <2>1 DEF DevType
    <3>2. ~dev'.partial => ~dev.partial
      BY <3>1, Zenon
    <3> QED BY <1>1, <2>5, <3>2 DEF Allowed
  <2>7. ~dev'.missed => ~dev.missed /\ ~missed
    <3>1. dev'.missed = m
      BY <1>1, <2>1 DEF DevType
    <3>2. ~dev'.missed => ~m
      BY <3>1, Zenon
    <3> QED BY <3>2 DEF m
  <2> QED BY <1>3, <2>2, <2>4, <2>5, <2>6, <2>7 DEF p
<1> QED BY <1>2, <1>3

LEMMA RevisionFacts ==
  ASSUME ReloadInv(files, watch, reloads, dev)
  PROVE  /\ dev.rev \in Nat /\ files.code \in Nat /\ files.code <= MaxEdits /\ IsFiniteSet(Raising(reloads))
         /\ Cardinality(Raising(reloads)) \in Nat /\ MaxEdits \in Nat
<1>1. dev.rev \in Versions /\ files.code \in Versions
  BY DEF ReloadInv, DevType, FilesType
<1>2. Raising(reloads) \in SUBSET Reloads
  BY DEF Raising
<1>3. IsFiniteSet(Raising(reloads))
  BY <1>2, DevAssumption, FS_Subset
<1> QED BY <1>1, <1>3, FS_CardinalityType, DevAssumption DEF Versions

LEMMA EditTomlKeeps ==
  ASSUME DevInv, NEW bad \in SUBSET DevFns, EditToml(bad)
  PROVE  DevInv'
<1>1. /\ ReloadInv(files, watch, reloads, dev) /\ ImportsOK(imported, calls, loaded) /\ files.toml < MaxEdits
      /\ files' = [files EXCEPT !.toml = files.toml + 1, !.bad = bad] /\ Noticed("toml", FALSE)
      /\ reloads' = reloads /\ loaded' = loaded /\ imported' = imported /\ calls' = calls
  BY DEF DevInv, EditToml
<1>2. /\ WatchOK(watch') /\ dev' \in DevType /\ Allowed(dev') /\ dev'.rev = dev.rev
      /\ Contains(watch'.pending, "code") => Contains(watch.pending, "code")
      /\ ~watch'.stopped => ~watch.stopped /\ Contains(watch'.pending, "toml")
      /\ ~watch'.stopped /\ ~dev'.missed => ~dev.missed
  BY <1>1, NoticedFields
<1>3. files' \in FilesType /\ files'.code = files.code
  <2>1. files \in FilesType /\ files.toml + 1 \in Versions
    BY <1>1, DevAssumption DEF ReloadInv, FilesType, Versions
  <2> QED BY <1>1, <2>1 DEF FilesType
<1>4. RaisesEarned(files', watch', reloads', dev')
  <2>1. dev.rev + Cardinality(Raising(reloads)) + (IF Contains(watch.pending, "code") THEN 1 ELSE 0) <= files.code
    BY <1>1 DEF ReloadInv, RaisesEarned
  <2> QED BY <1>1, <1>2, <1>3, <2>1, RevisionFacts DEF RaisesEarned
<1>5. CatchingUp(files', watch', reloads', dev')
  BY <1>1, <1>2 DEF ReloadInv, CatchingUp
<1> QED BY <1>1, <1>2, <1>3, <1>4, <1>5 DEF DevInv, ReloadInv

LEMMA EditCodeKeeps ==
  ASSUME DevInv, EditCode
  PROVE  DevInv'
<1> DEFINE lost == Contains(watch.pending, "toml") /\ ~Contains(Pushed(watch.pending, "code"), "toml")
<1>1. /\ ReloadInv(files, watch, reloads, dev) /\ ImportsOK(imported, calls, loaded) /\ files.code < MaxEdits
      /\ files' = [files EXCEPT !.code = files.code + 1] /\ Noticed("code", lost)
      /\ reloads' = reloads /\ loaded' = loaded /\ imported' = imported /\ calls' = calls
  BY DEF DevInv, EditCode
<1>2. lost \in BOOLEAN
  OBVIOUS
<1>3. /\ WatchOK(watch') /\ dev' \in DevType /\ Allowed(dev') /\ dev'.rev = dev.rev /\ dev'.config = dev.config
      /\ ~watch'.stopped => ~watch.stopped /\ watch'.pending = Pushed(watch.pending, "code")
      /\ ~watch'.stopped /\ ~dev'.missed => ~dev.missed /\ ~lost
  <2> HIDE DEF lost
  <2> QED BY <1>1, <1>2, NoticedFields
<1>4. files' \in FilesType /\ files'.code = files.code + 1 /\ files'.toml = files.toml /\ files'.bad = files.bad
  <2>1. files \in FilesType /\ files.code + 1 \in Versions
    BY <1>1, DevAssumption DEF ReloadInv, FilesType, Versions
  <2> QED BY <1>1, <2>1 DEF FilesType
<1>5. RaisesEarned(files', watch', reloads', dev')
  <2>1. dev.rev + Cardinality(Raising(reloads)) + (IF Contains(watch.pending, "code") THEN 1 ELSE 0) <= files.code
    BY <1>1 DEF ReloadInv, RaisesEarned
  <2>2. dev.rev + Cardinality(Raising(reloads)) <= files.code
    BY <1>1, <2>1, RevisionFacts
  <2> QED BY <1>1, <1>3, <1>4, <2>2, RevisionFacts DEF RaisesEarned
<1>6. CatchingUp(files', watch', reloads', dev')
  <2> SUFFICES ASSUME ~watch'.stopped, ~dev'.missed PROVE CatchingUp(files', watch', reloads', dev')
    BY DEF CatchingUp
  <2>1. ~watch.stopped /\ ~dev.missed /\ (Contains(watch.pending, "toml") => Contains(watch'.pending, "toml"))
    BY <1>3
  <2> QED BY <1>1, <1>3, <1>4, <2>1 DEF ReloadInv, CatchingUp
<1> QED BY <1>1, <1>3, <1>4, <1>5, <1>6 DEF DevInv, ReloadInv

LEMMA StopKeeps ==
  ASSUME DevInv, StopWatching
  PROVE  DevInv'
<1>1. /\ ReloadInv(files, watch, reloads, dev) /\ ImportsOK(imported, calls, loaded)
      /\ watch' = [pending |-> <<>>, timer |-> FALSE, stopped |-> TRUE]
      /\ files' = files /\ reloads' = reloads /\ dev' = dev /\ loaded' = loaded /\ imported' = imported /\ calls' = calls
  BY DEF DevInv, StopWatching
<1>2. WatchOK(watch') /\ watch'.pending = <<>> /\ watch'.stopped
  <2>1. <<>> \in Seq({"toml", "code"}) /\ Len(<<>>) = 0
    BY EmptySeq
  <2> QED BY <1>1, <2>1, DevAssumption DEF WatchOK
<1>3. RaisesEarned(files, watch', reloads, dev)
  <2>1. dev.rev + Cardinality(Raising(reloads)) + (IF Contains(watch.pending, "code") THEN 1 ELSE 0) <= files.code
    BY <1>1 DEF ReloadInv, RaisesEarned
  <2>2. ~Contains(watch'.pending, "code")
    BY <1>2 DEF Contains
  <2> QED BY <1>1, <2>1, <2>2, RevisionFacts DEF RaisesEarned
<1> QED BY <1>1, <1>2, <1>3 DEF DevInv, ReloadInv, CatchingUp

----------------------------------------------------------------------------
(* The callback.                                                            *)

\* The revision rises, and what else it is about stays.
LEMMA CodeReloadedFields ==
  ASSUME NEW d \in DevType, d.rev + 1 <= MaxEdits, files.code \in Versions
  PROVE  LET n == CodeReloaded(d)
         IN  /\ n \in DevType /\ n.rev = d.rev + 1 /\ n.config = d.config
             /\ Allowed(d) => Allowed(n)
             /\ ~n.missed => ~d.missed
<1> DEFINE n == CodeReloaded(d)
<1>1. d.rev + 1 \in Versions
  BY DevAssumption DEF DevType, Versions
<1>2. n \in DevType /\ n.rev = d.rev + 1 /\ n.config = d.config /\ n.perms = d.perms /\ n.secrets = d.secrets
  BY <1>1 DEF CodeReloaded, DevType
<1>3. n.partial = d.partial /\ n.missed = d.missed
  BY DEF CodeReloaded, DevType
<1>4. (~n.partial => ~d.partial) /\ (~n.missed => ~d.missed)
  BY <1>3, Zenon
<1> HIDE DEF n
<1>5. Allowed(d) => Allowed(n)
  BY <1>2, <1>4 DEF Allowed
<1> QED BY <1>2, <1>4, <1>5 DEF n

\* The events are taken: the buffer is empty.
LEMMA TakenEvents ==
  ASSUME WatchOK(watch), watch' = [watch EXCEPT !.pending = <<>>, !.timer = FALSE]
  PROVE  /\ WatchOK(watch') /\ ~Contains(watch'.pending, "code") /\ ~Contains(watch'.pending, "toml")
         /\ ~watch'.stopped => ~watch.stopped
<1>1. <<>> \in Seq({"toml", "code"}) /\ Len(<<>>) = 0
  BY EmptySeq
<1>2. WatchOK(watch') /\ watch'.pending = <<>>
  <2> DEFINE none == <<>>
             E == Seq({"toml", "code"})
  <2>1. none \in E /\ Len(none) <= MaxPending
    BY <1>1, DevAssumption
  <2>2. watch \in [pending : E, timer : BOOLEAN, stopped : BOOLEAN] /\ watch' = [watch EXCEPT !.pending = none, !.timer = FALSE]
    BY DEF WatchOK
  <2> HIDE DEF none, E
  <2>3. watch' \in [pending : E, timer : BOOLEAN, stopped : BOOLEAN] /\ watch'.pending = none /\ ~watch'.timer
    BY <2>1, <2>2
  <2> QED BY <2>1, <2>3 DEF WatchOK, none, E
<1>3. watch'.stopped = watch.stopped
  BY DEF WatchOK
<1>4. ~watch'.stopped => ~watch.stopped
  BY <1>3, Zenon
<1> QED BY <1>2, <1>4 DEF Contains

LEMMA DebounceKeeps ==
  ASSUME DevInv, NEW r \in Reloads, DebounceFires(r)
  PROVE  DevInv'
<1>1. /\ ReloadInv(files, watch, reloads, dev) /\ ImportsOK(imported, calls, loaded) /\ reloads[r].pc = "idle"
      /\ watch' = [watch EXCEPT !.pending = <<>>, !.timer = FALSE]
      /\ files' = files /\ imported' = imported /\ calls' = calls
  BY DEF DevInv, DebounceFires
<1>2. /\ files \in FilesType /\ WatchOK(watch) /\ reloads \in [Reloads -> ReloadType] /\ dev \in DevType
      /\ RaisesEarned(files, watch, reloads, dev) /\ CatchingUp(files, watch, reloads, dev) /\ Allowed(dev)
      /\ files.code \in Versions
  BY <1>1 DEF ReloadInv, FilesType
<1>3. /\ WatchOK(watch') /\ ~Contains(watch'.pending, "code") /\ ~Contains(watch'.pending, "toml")
      /\ ~watch'.stopped => ~watch.stopped
  BY <1>1, <1>2, TakenEvents
<1>4. /\ dev.rev \in Nat /\ files.code \in Nat /\ files.code <= MaxEdits /\ IsFiniteSet(Raising(reloads))
      /\ Cardinality(Raising(reloads)) \in Nat /\ MaxEdits \in Nat
  BY <1>1, RevisionFacts
<1>5. CASE Contains(watch.pending, "toml")
  <2> DEFINE code == Contains(watch.pending, "code")
             busy == \E o \in Reloads : reloads[o].pc # "idle"
  <2>1. /\ reloads' = [reloads EXCEPT ![r].pc = "reading", ![r].code = code]
        /\ dev' = [dev EXCEPT !.missed = busy] /\ loaded' = loaded
    BY <1>5 DEF DebounceFires, Batch
  <2>2. code \in BOOLEAN /\ busy \in BOOLEAN
    BY DEF Contains
  <2> HIDE DEF code, busy
  <2>3. /\ reloads' \in [Reloads -> ReloadType] /\ reloads'[r].pc = "reading"
        /\ \A o \in Reloads : o # r => reloads'[o] = reloads[o]
    BY <1>2, <2>1, <2>2 DEF ReloadType
  <2>4. reloads'[r].code => code
    <3>1. reloads'[r].code = code
      BY <1>2, <2>1, <2>2 DEF ReloadType
    <3> QED BY <3>1, Zenon
  <2>5. dev' \in DevType /\ dev'.rev = dev.rev /\ dev'.config = dev.config /\ dev'.perms = dev.perms /\ dev'.secrets = dev.secrets
    BY <1>2, <2>1, <2>2 DEF DevType
  <2>6. Allowed(dev')
    <3>1. dev'.partial = dev.partial
      BY <1>2, <2>1 DEF DevType
    <3>2. ~dev'.partial => ~dev.partial
      BY <3>1, Zenon
    <3> QED BY <1>2, <2>5, <3>2 DEF Allowed
  <2>7. ~dev'.missed => \A o \in Reloads : reloads[o].pc = "idle"
    <3>1. dev'.missed = busy
      BY <1>2, <2>1 DEF DevType
    <3>2. ~dev'.missed => ~busy
      BY <3>1, Zenon
    <3> QED BY <3>2 DEF busy
  <2>8. RaisesEarned(files, watch', reloads', dev')
    <3>1. Raising(reloads') \subseteq Raising(reloads) \cup (IF code THEN {r} ELSE {})
      BY <2>3, <2>4 DEF Raising
    <3>2. Cardinality(Raising(reloads')) \in Nat /\ Cardinality(Raising(reloads')) <= Cardinality(Raising(reloads)) + (IF code THEN 1 ELSE 0)
      <4>1. CASE code
        <5>1. Raising(reloads') \in SUBSET (Raising(reloads) \cup {r})
          BY <3>1, <4>1
        <5>2. IsFiniteSet(Raising(reloads) \cup {r}) /\ Cardinality(Raising(reloads) \cup {r}) <= Cardinality(Raising(reloads)) + 1
          <6> DEFINE R == Raising(reloads)
          <6>1. IsFiniteSet(R) /\ Cardinality(R) \in Nat
            BY <1>4
          <6> HIDE DEF R
          <6>2. IsFiniteSet(R \cup {r}) /\ Cardinality(R \cup {r}) = (IF r \in R THEN Cardinality(R) ELSE Cardinality(R) + 1)
            BY <6>1, FS_AddElement
          <6>3. Cardinality(R \cup {r}) <= Cardinality(R) + 1
            BY <6>1, <6>2
          <6> QED BY <6>2, <6>3 DEF R
        <5>3. Cardinality(Raising(reloads) \cup {r}) \in Nat
          BY <5>2, FS_CardinalityType
        <5>4. IsFiniteSet(Raising(reloads')) /\ Cardinality(Raising(reloads')) <= Cardinality(Raising(reloads) \cup {r})
          BY <5>1, <5>2, FS_Subset
        <5>5. Cardinality(Raising(reloads')) \in Nat
          BY <5>4, FS_CardinalityType
        <5> QED BY <1>4, <4>1, <5>2, <5>3, <5>4, <5>5
      <4>2. CASE ~code
        <5>1. Raising(reloads') \in SUBSET Raising(reloads)
          BY <3>1, <4>2
        <5>2. IsFiniteSet(Raising(reloads')) /\ Cardinality(Raising(reloads')) <= Cardinality(Raising(reloads))
          BY <1>4, <5>1, FS_Subset
        <5> QED BY <1>4, <4>2, <5>2, FS_CardinalityType
      <4> QED BY <4>1, <4>2
    <3>3. dev.rev + Cardinality(Raising(reloads)) + (IF code THEN 1 ELSE 0) <= files.code
      BY <1>2 DEF RaisesEarned, code
    <3>4. dev.rev + Cardinality(Raising(reloads')) <= files.code
      BY <1>4, <3>2, <3>3
    <3> QED BY <1>3, <1>4, <2>5, <3>2, <3>4 DEF RaisesEarned
  <2>9. CatchingUp(files, watch', reloads', dev')
    <3> SUFFICES ASSUME ~watch'.stopped, ~dev'.missed PROVE CatchingUp(files, watch', reloads', dev')
      BY DEF CatchingUp
    <3>1. \A o \in Reloads : o # r => reloads'[o].pc = "idle"
      BY <2>3, <2>7
    <3> QED BY <2>3, <3>1 DEF CatchingUp
  <2> QED BY <1>1, <1>2, <1>3, <2>1, <2>3, <2>5, <2>6, <2>8, <2>9 DEF DevInv, ReloadInv
<1>6. CASE ~Contains(watch.pending, "toml")
  <2>1. /\ reloads' = reloads
        /\ dev' = IF Contains(watch.pending, "code") THEN CodeReloaded(dev) ELSE dev
        /\ loaded' = IF Contains(watch.pending, "code") THEN Unset ELSE loaded
    BY <1>6 DEF DebounceFires, Batch
  <2>2. dev.rev + Cardinality(Raising(reloads)) + (IF Contains(watch.pending, "code") THEN 1 ELSE 0) <= files.code
    BY <1>2 DEF RaisesEarned
  <2>3. /\ dev' \in DevType /\ Allowed(dev') /\ dev'.config = dev.config
        /\ dev'.rev = dev.rev + (IF Contains(watch.pending, "code") THEN 1 ELSE 0)
        /\ ~dev'.missed => ~dev.missed
    <3>1. CASE Contains(watch.pending, "code")
      <4>1. dev.rev + 1 <= MaxEdits
        BY <1>4, <2>2, <3>1
      <4> QED BY <1>2, <2>1, <3>1, <4>1, CodeReloadedFields
    <3>2. CASE ~Contains(watch.pending, "code")
      BY <1>2, <1>4, <2>1, <3>2
    <3> QED BY <3>1, <3>2
  <2>4. RaisesEarned(files, watch', reloads, dev')
    BY <1>3, <1>4, <2>2, <2>3 DEF RaisesEarned
  <2>5. CatchingUp(files, watch', reloads, dev')
    BY <1>2, <1>3, <1>6, <2>3 DEF CatchingUp
  <2>6. ImportsOK(imported, calls, loaded')
    BY <1>1, <2>1 DEF ImportsOK, Opt
  <2> QED BY <1>1, <1>2, <1>3, <2>1, <2>3, <2>4, <2>5, <2>6 DEF DevInv, ReloadInv
<1> QED BY <1>5, <1>6

LEMMA ReadTomlKeeps ==
  ASSUME DevInv, NEW r \in Reloads, ReadToml(r)
  PROVE  DevInv'
<1>1. /\ ReloadInv(files, watch, reloads, dev) /\ ImportsOK(imported, calls, loaded) /\ reloads[r].pc = "reading"
      /\ reloads' = [reloads EXCEPT ![r].pc = "read", ![r].toml = files.toml, ![r].bad = files.bad]
      /\ files' = files /\ watch' = watch /\ dev' = dev /\ loaded' = loaded /\ imported' = imported /\ calls' = calls
  BY DEF DevInv, ReadToml
<1>2. files \in FilesType /\ reloads \in [Reloads -> ReloadType] /\ CatchingUp(files, watch, reloads, dev)
  BY <1>1 DEF ReloadInv
<1>3. /\ reloads' \in [Reloads -> ReloadType] /\ reloads'[r].pc = "read" /\ reloads'[r].toml = files.toml /\ reloads'[r].bad = files.bad
      /\ \A o \in Reloads : o # r => reloads'[o] = reloads[o]
  <2> DEFINE q == [reloads[r] EXCEPT !.pc = "read", !.toml = files.toml, !.bad = files.bad]
  <2>1. files.toml \in Versions /\ files.bad \in SUBSET DevFns /\ reloads[r] \in ReloadType
    BY <1>2 DEF FilesType
  <2>2. q \in ReloadType /\ q.pc = "read" /\ q.toml = files.toml /\ q.bad = files.bad
    BY <2>1 DEF ReloadType
  <2>3. reloads' = [reloads EXCEPT ![r] = q]
    BY <1>1, <1>2
  <2> HIDE DEF q
  <2> QED BY <1>2, <2>2, <2>3
<1>4. reloads'[r].code = reloads[r].code
  BY <1>1, <1>2 DEF ReloadType
<1>5. \A o \in Reloads : reloads'[o].code <=> reloads[o].code
  BY <1>3, <1>4, Zenon
<1>6. Raising(reloads') = Raising(reloads)
  BY <1>5 DEF Raising
<1>7. CatchingUp(files, watch, reloads', dev)
  <2>1. \A o \in Reloads : (reloads'[o].pc # "idle") <=> (reloads[o].pc # "idle")
    BY <1>1, <1>3
  <2> QED BY <1>2, <1>3, <2>1 DEF CatchingUp
<1>8. RaisesEarned(files, watch, reloads', dev)
  BY <1>1, <1>6 DEF ReloadInv, RaisesEarned
<1> QED BY <1>1, <1>3, <1>7, <1>8 DEF DevInv, ReloadInv

\* A callback ends with the configuration n in place, and raises the revision if the batch
\* held a change of the code.
LEMMA CallbackEnds ==
  ASSUME DevInv, NEW r \in Reloads, reloads[r].pc = "read", NEW n \in DevType, n.rev = dev.rev, Allowed(n), ~n.missed => ~dev.missed,
         n.config = reloads[r].toml \/ (n.config = dev.config /\ reloads[r].bad # {}),
         dev' = IF reloads[r].code THEN CodeReloaded(n) ELSE n,
         loaded' = IF reloads[r].code THEN Unset ELSE loaded,
         reloads' = [reloads EXCEPT ![r] = IdleReload],
         UNCHANGED <<files, watch, imported, calls>>
  PROVE  DevInv'
<1>1. /\ ReloadInv(files, watch, reloads, dev) /\ ImportsOK(imported, calls, loaded)
      /\ files \in FilesType /\ WatchOK(watch) /\ reloads \in [Reloads -> ReloadType] /\ dev \in DevType
      /\ CatchingUp(files, watch, reloads, dev) /\ files.code \in Versions
  BY DEF DevInv, ReloadInv, FilesType
<1>2. /\ dev.rev \in Nat /\ files.code \in Nat /\ files.code <= MaxEdits /\ IsFiniteSet(Raising(reloads))
      /\ Cardinality(Raising(reloads)) \in Nat /\ MaxEdits \in Nat
  BY <1>1, RevisionFacts
<1>3. /\ IdleReload \in ReloadType /\ IdleReload.pc = "idle" /\ ~IdleReload.code
  BY VersionFacts DEF IdleReload, ReloadType
<1>4. /\ reloads' \in [Reloads -> ReloadType] /\ reloads'[r] = IdleReload /\ \A o \in Reloads : o # r => reloads'[o] = reloads[o]
  BY <1>1, <1>3
<1>5. Raising(reloads') = Raising(reloads) \ {r}
  BY <1>3, <1>4 DEF Raising
<1>6. /\ Cardinality(Raising(reloads')) \in Nat
      /\ Cardinality(Raising(reloads')) = Cardinality(Raising(reloads)) - (IF reloads[r].code THEN 1 ELSE 0)
  <2> DEFINE R == Raising(reloads)
  <2>1. IsFiniteSet(Raising(reloads'))
    <3>1. IsFiniteSet(R)
      BY <1>2
    <3> HIDE DEF R
    <3>2. IsFiniteSet(R \ {r})
      BY <3>1, FS_RemoveElement
    <3> QED BY <1>5, <3>2 DEF R
  <2>2. Cardinality(Raising(reloads) \ {r}) = IF r \in Raising(reloads) THEN Cardinality(Raising(reloads)) - 1 ELSE Cardinality(Raising(reloads))
    <3>1. IsFiniteSet(R)
      BY <1>2
    <3> HIDE DEF R
    <3>2. Cardinality(R \ {r}) = IF r \in R THEN Cardinality(R) - 1 ELSE Cardinality(R)
      BY <3>1, FS_RemoveElement
    <3> QED BY <3>2 DEF R
  <2>3. r \in Raising(reloads) <=> reloads[r].code
    BY DEF Raising
  <2>4. Cardinality(Raising(reloads')) \in Nat
    BY <2>1, FS_CardinalityType
  <2>5. CASE reloads[r].code
    <3>1. Cardinality(Raising(reloads')) = Cardinality(Raising(reloads)) - 1
      BY <1>5, <2>2, <2>3, <2>5
    <3> QED BY <2>4, <2>5, <3>1
  <2>6. CASE ~reloads[r].code
    <3>1. Cardinality(Raising(reloads')) = Cardinality(Raising(reloads))
      BY <1>5, <2>2, <2>3, <2>6
    <3> QED BY <1>2, <2>4, <2>6, <3>1
  <2> QED BY <2>5, <2>6
<1>7. dev.rev + Cardinality(Raising(reloads)) + (IF Contains(watch.pending, "code") THEN 1 ELSE 0) <= files.code
  BY <1>1 DEF ReloadInv, RaisesEarned
<1>8. /\ dev' \in DevType /\ Allowed(dev') /\ dev'.config = n.config /\ (~dev'.missed => ~n.missed)
      /\ dev'.rev = dev.rev + (IF reloads[r].code THEN 1 ELSE 0)
  <2>1. CASE reloads[r].code
    <3>1. Cardinality(Raising(reloads)) >= 1
      BY <1>2, <1>6, <2>1
    <3>2. n.rev + 1 <= MaxEdits
      BY <1>2, <1>7, <3>1
    <3> QED BY <1>1, <2>1, <3>2, CodeReloadedFields
  <2>2. CASE ~reloads[r].code
    BY <1>2, <2>2
  <2> QED BY <2>1, <2>2
<1>9. RaisesEarned(files, watch, reloads', dev')
  BY <1>2, <1>6, <1>7, <1>8 DEF RaisesEarned
<1>10. CatchingUp(files, watch, reloads', dev')
  <2> SUFFICES ASSUME ~watch.stopped, ~dev'.missed PROVE CatchingUp(files, watch, reloads', dev')
    BY DEF CatchingUp
  <2>1. ~dev.missed
    BY <1>8
  <2>2. \A o \in Reloads : reloads'[o].pc = "idle"
    BY <1>1, <1>3, <1>4, <2>1 DEF CatchingUp
  <2>3. ~Contains(watch.pending, "toml") => files.bad # {} \/ dev'.config = files.toml
    BY <1>1, <1>8, <2>1 DEF CatchingUp
  <2> QED BY <2>2, <2>3 DEF CatchingUp
<1>11. ImportsOK(imported, calls, loaded')
  BY <1>1 DEF ImportsOK, Opt
<1> QED BY <1>1, <1>4, <1>8, <1>9, <1>10, <1>11 DEF DevInv, ReloadInv

LEMMA ApplyTomlKeeps ==
  ASSUME DevInv, NEW r \in Reloads, NEW done \in SUBSET DevFns, ApplyToml(r, done)
  PROVE  DevInv'
<1> DEFINE n == Configured(r, done)
<1>1. /\ reloads[r].pc = "read" /\ dev \in DevType /\ reloads[r] \in ReloadType
      /\ dev' = (IF reloads[r].code THEN CodeReloaded(n) ELSE n)
      /\ loaded' = (IF reloads[r].code THEN Unset ELSE loaded)
      /\ reloads' = [reloads EXCEPT ![r] = IdleReload] /\ UNCHANGED <<files, watch, imported, calls>>
  BY DEF ApplyToml, DevInv, ReloadInv
<1>2. reloads[r].toml \in Versions /\ reloads[r].bad \in SUBSET DevFns
  BY <1>1 DEF ReloadType
<1>3. n \in DevType /\ n.rev = dev.rev /\ Allowed(n) /\ (~n.missed => ~dev.missed) /\ n.config = reloads[r].toml
  <2>1. CASE reloads[r].bad = {}
    <3> DEFINE v == reloads[r].toml
               all == [f \in DevFns |-> v]
    <3>1. n = [dev EXCEPT !.config = v, !.bad = {}, !.perms = all, !.secrets = all, !.partial = FALSE]
      BY <2>1 DEF Configured, Collected
    <3>2. all \in [DevFns -> Opt(Versions)] /\ all \in [DevFns -> Versions] /\ {} \in SUBSET DevFns
      BY <1>2 DEF Opt
    <3> HIDE DEF n, all
    <3>3. n \in DevType /\ n.rev = dev.rev /\ n.config = v /\ n.perms = all /\ n.secrets = all
      BY <1>1, <1>2, <3>1, <3>2 DEF DevType
    <3>4. n.missed = dev.missed
      BY <1>1, <3>1 DEF DevType
    <3>5. ~n.missed => ~dev.missed
      BY <3>4, Zenon
    <3> QED BY <3>3, <3>5 DEF Allowed
  <2>2. CASE reloads[r].bad # {}
    <3> DEFINE v == reloads[r].toml
               some == [f \in DevFns |-> IF f \in done THEN v ELSE Unset]
    <3>1. n = [dev EXCEPT !.config = v, !.bad = reloads[r].bad, !.perms = some, !.partial = TRUE]
      BY <2>2 DEF Configured
    <3>2. some \in [DevFns -> Opt(Versions)]
      BY <1>2 DEF Opt
    <3> HIDE DEF n, some
    <3>3. n \in DevType /\ n.rev = dev.rev /\ n.config = v /\ n.partial
      BY <1>1, <1>2, <3>1, <3>2 DEF DevType
    <3>4. n.missed = dev.missed
      BY <1>1, <3>1 DEF DevType
    <3>5. ~n.missed => ~dev.missed
      BY <3>4, Zenon
    <3> QED BY <3>3, <3>5 DEF Allowed
  <2> QED BY <2>1, <2>2
<1> HIDE DEF n
<1> QED BY <1>1, <1>3, CallbackEnds

LEMMA TomlUnreadableKeeps ==
  ASSUME DevInv, NEW r \in Reloads, TomlUnreadable(r)
  PROVE  DevInv'
<1>1. dev \in DevType /\ Allowed(dev)
  BY DEF DevInv, ReloadInv
<1> QED BY <1>1, CallbackEnds DEF TomlUnreadable

----------------------------------------------------------------------------
(* Requests.                                                                *)

\* A request that only concerns itself.
LEMMA RequestKeeps ==
  ASSUME DevInv, NEW c \in DevRequests, NEW q \in RequestType, q.pc # "evaluated", calls' = [calls EXCEPT ![c] = q],
         UNCHANGED <<files, watch, reloads, dev, loaded, imported>>
  PROVE  DevInv'
<1>1. ImportsOK(imported, calls, loaded)
  BY DEF DevInv
<1>2. calls' \in [DevRequests -> RequestType] /\ calls'[c] = q /\ \A e \in DevRequests : e # c => calls'[e] = calls[e]
  BY <1>1 DEF ImportsOK
<1>3. ImportsOK(imported, calls', loaded)
  BY <1>1, <1>2 DEF ImportsOK
<1> QED BY <1>3 DEF DevInv

LEMMA CallFacts ==
  ASSUME DevInv, NEW c \in DevRequests
  PROVE  /\ calls[c] \in RequestType /\ calls[c].url \in Versions /\ dev.rev \in Versions /\ loaded \in Opt(Module)
         /\ DevIdle \in RequestType /\ DevIdle.pc = "idle" /\ calls \in [DevRequests -> RequestType]
<1>1. calls[c] \in RequestType /\ loaded \in Opt(Module) /\ calls \in [DevRequests -> RequestType]
  BY DEF DevInv, ImportsOK
<1>2. dev.rev \in Versions
  BY DEF DevInv, ReloadInv, DevType
<1>3. DevIdle \in RequestType /\ DevIdle.pc = "idle"
  BY VersionFacts DEF DevIdle, RequestType, Opt
<1> QED BY <1>1, <1>2, <1>3 DEF RequestType

LEMMA DevArriveKeeps ==
  ASSUME DevInv, NEW c \in DevRequests, NEW f \in DevFns, DevArrive(c, f)
  PROVE  DevInv'
<1> DEFINE q == [calls[c] EXCEPT !.pc = "stat"]
<1>1. calls[c] \in RequestType
  BY CallFacts
<1>2. q \in RequestType /\ q.pc = "stat"
  BY <1>1 DEF RequestType
<1>3. ImportsOK(imported, calls, loaded) /\ ReloadInv(files, watch, reloads, dev) /\ dev \in DevType
  BY DEF DevInv, ReloadInv
<1> HIDE DEF q
<1>4. CASE dev.perms[f] # Unset
  <2>1. calls' = [calls EXCEPT ![c] = q] /\ UNCHANGED <<files, watch, reloads, dev, loaded, imported>>
    BY <1>4 DEF DevArrive, q
  <2> QED BY <1>2, <2>1, RequestKeeps
<1>5. CASE dev.perms[f] = Unset /\ f \in dev.bad
  BY <1>3, <1>5 DEF DevArrive, DevInv
<1>6. CASE dev.perms[f] = Unset /\ f \notin dev.bad
  <2>1. calls' = [calls EXCEPT ![c] = q] /\ UNCHANGED <<files, watch, reloads, loaded, imported>>
        /\ dev' = [dev EXCEPT !.perms[f] = dev.config, !.secrets[f] = dev.config]
    BY <1>6 DEF DevArrive, q
  <2>2. dev.config \in Versions /\ dev.config \in Opt(Versions) /\ dev.perms \in [DevFns -> Opt(Versions)] /\ dev.secrets \in [DevFns -> Versions]
    BY <1>3 DEF DevType, Opt
  <2>3. /\ dev' \in DevType /\ dev'.rev = dev.rev /\ dev'.config = dev.config
        /\ dev'.perms = [dev.perms EXCEPT ![f] = dev.config] /\ dev'.secrets = [dev.secrets EXCEPT ![f] = dev.config]
    BY <1>3, <2>1, <2>2 DEF DevType
  <2>4. dev'.partial = dev.partial /\ dev'.missed = dev.missed
    BY <1>3, <2>1 DEF DevType
  <2>5. (~dev'.partial => ~dev.partial) /\ (~dev'.missed => ~dev.missed)
    BY <2>4, Zenon
  <2>6. Allowed(dev')
    BY <1>3, <2>2, <2>3, <2>5 DEF Allowed, ReloadInv
  <2>7. RaisesEarned(files, watch, reloads, dev') /\ CatchingUp(files, watch, reloads, dev')
    BY <1>3, <2>3, <2>5 DEF ReloadInv, RaisesEarned, CatchingUp
  <2>8. calls' \in [DevRequests -> RequestType] /\ calls'[c] = q /\ \A e \in DevRequests : e # c => calls'[e] = calls[e]
    BY <1>2, <1>3, <2>1 DEF ImportsOK
  <2>9. ImportsOK(imported, calls', loaded)
    BY <1>2, <1>3, <2>8 DEF ImportsOK
  <2> QED BY <1>3, <2>1, <2>3, <2>6, <2>7, <2>9 DEF DevInv, ReloadInv
<1> QED BY <1>4, <1>5, <1>6

LEMMA LookUpKeeps ==
  ASSUME DevInv, NEW c \in DevRequests, LookUp(c)
  PROVE  DevInv'
<1> DEFINE o == IF loaded = Unset THEN Unset ELSE loaded.rev
           q == IF loaded # Unset /\ loaded.rev = dev.rev THEN Ran(loaded.code) ELSE [DevIdle EXCEPT !.pc = "load", !.old = o]
<1>1. DevIdle \in RequestType /\ DevIdle.pc = "idle" /\ loaded \in Opt(Module)
  BY CallFacts
<1>2. o \in Opt(Versions) /\ (loaded # Unset => loaded.code \in Opt(Versions))
  BY <1>1 DEF Opt, Module
<1> HIDE DEF o
<1>3. q \in RequestType /\ q.pc # "evaluated"
  <2>1. CASE loaded # Unset /\ loaded.rev = dev.rev
    BY <1>1, <1>2, <2>1 DEF Ran, RequestType
  <2>2. CASE ~(loaded # Unset /\ loaded.rev = dev.rev)
    BY <1>1, <1>2, <2>2 DEF RequestType
  <2> QED BY <2>1, <2>2
<1>4. calls' = [calls EXCEPT ![c] = q] /\ UNCHANGED <<files, watch, reloads, dev, loaded, imported>>
  BY DEF LookUp, o
<1> HIDE DEF q
<1> QED BY <1>3, <1>4, RequestKeeps

LEMMA ImportBeginsKeeps ==
  ASSUME DevInv, NEW c \in DevRequests, ImportBegins(c)
  PROVE  DevInv'
<1>1. calls[c] \in RequestType /\ dev.rev \in Versions /\ calls \in [DevRequests -> RequestType]
  BY CallFacts
<1>2. calls' = [calls EXCEPT ![c].pc = "import", ![c].url = dev.rev] /\ UNCHANGED <<files, watch, reloads, dev, loaded, imported>>
  BY DEF ImportBegins
<1>3. calls' \in [DevRequests -> RequestType] /\ calls'[c].pc = "import" /\ \A e \in DevRequests : e # c => calls'[e] = calls[e]
  BY <1>1, <1>2 DEF RequestType
<1>4. ImportsOK(imported, calls', loaded)
  BY <1>3 DEF DevInv, ImportsOK
<1> QED BY <1>2, <1>4 DEF DevInv

LEMMA ImportFailsKeeps ==
  ASSUME DevInv, NEW c \in DevRequests, ImportFails(c)
  PROVE  DevInv'
<1>1. DevIdle \in RequestType /\ DevIdle.pc = "idle"
  BY CallFacts
<1> QED BY <1>1, RequestKeeps DEF ImportFails

LEMMA SourceReadKeeps ==
  ASSUME DevInv, NEW c \in DevRequests, SourceRead(c)
  PROVE  DevInv'
<1>1. calls[c] \in RequestType /\ calls[c].url \in Versions /\ calls \in [DevRequests -> RequestType]
  BY CallFacts
<1>2. /\ ImportsOK(imported, calls, loaded) /\ files.code \in Versions /\ imported \in [Versions -> Opt(Versions)]
  BY DEF DevInv, ReloadInv, FilesType, ImportsOK
<1> DEFINE u == calls[c].url
           x == IF imported[u] = Unset THEN files.code ELSE imported[u]
<1>3. /\ calls' = [calls EXCEPT ![c].pc = "evaluated"] /\ imported' = [imported EXCEPT ![u] = x]
      /\ UNCHANGED <<files, watch, reloads, dev, loaded>>
  BY DEF SourceRead
<1>4. x \in Versions /\ x # Unset /\ x \in Opt(Versions)
  BY <1>1, <1>2, VersionFacts DEF Opt
<1> HIDE DEF x
<1>5. /\ imported' \in [Versions -> Opt(Versions)]
      /\ \A v \in Versions : imported[v] # Unset => imported'[v] # Unset
      /\ imported'[calls[c].url] # Unset
  BY <1>1, <1>2, <1>3, <1>4
<1>6. /\ calls' \in [DevRequests -> RequestType] /\ calls'[c].url = calls[c].url
      /\ \A e \in DevRequests : e # c => calls'[e] = calls[e]
  BY <1>1, <1>3 DEF RequestType
<1>7. \A e \in DevRequests : calls[e].url \in Versions
  BY <1>1 DEF RequestType
<1>8. ImportsOK(imported', calls', loaded)
  BY <1>2, <1>5, <1>6, <1>7 DEF ImportsOK
<1> QED BY <1>3, <1>8 DEF DevInv

LEMMA ImportEndsKeeps ==
  ASSUME DevInv, NEW c \in DevRequests, ImportEnds(c)
  PROVE  DevInv'
<1>1. /\ calls[c] \in RequestType /\ calls[c].url \in Versions /\ dev.rev \in Versions /\ loaded \in Opt(Module)
      /\ DevIdle \in RequestType /\ DevIdle.pc = "idle" /\ calls \in [DevRequests -> RequestType]
  BY CallFacts
<1> DEFINE fn == [rev |-> dev.rev, code |-> imported[calls[c].url]]
<1>2. /\ calls[c].pc = "evaluated"
      /\ loaded' = IF calls[c].old = Unset \/ calls[c].old <= dev.rev THEN fn ELSE loaded
      /\ calls' = [calls EXCEPT ![c] = Ran(fn.code)]
      /\ UNCHANGED <<files, watch, reloads, dev, imported>>
  BY DEF ImportEnds, Stamp
<1>3. fn.code \in Versions /\ fn \in Module
  <2>1. imported[calls[c].url] # Unset /\ imported[calls[c].url] \in Opt(Versions)
    BY <1>1, <1>2 DEF DevInv, ImportsOK
  <2> QED BY <1>1, <2>1 DEF Opt, Module
<1> HIDE DEF fn
<1>4. loaded' \in Opt(Module)
  BY <1>1, <1>2, <1>3 DEF Opt
<1>5. Ran(fn.code) \in RequestType /\ Ran(fn.code).pc = "idle"
  BY <1>1, <1>3 DEF Ran, RequestType, Opt
<1>6. /\ calls' \in [DevRequests -> RequestType] /\ calls'[c].pc = "idle"
      /\ \A e \in DevRequests : e # c => calls'[e] = calls[e]
  BY <1>1, <1>2, <1>5
<1>7. ImportsOK(imported, calls', loaded')
  BY <1>4, <1>6 DEF DevInv, ImportsOK
<1> QED BY <1>2, <1>7 DEF DevInv

LEMMA StepDev == DevInv /\ [DevNext]_devVars => DevInv'
<1> SUFFICES ASSUME DevInv, [DevNext]_devVars PROVE DevInv'
  OBVIOUS
<1>1. CASE UNCHANGED devVars
  BY <1>1 DEF devVars, DevInv
<1> QED BY <1>1, EditTomlKeeps, EditCodeKeeps, StopKeeps, DebounceKeeps, ReadTomlKeeps, ApplyTomlKeeps, TomlUnreadableKeeps,
           DevArriveKeeps, LookUpKeeps, ImportBeginsKeeps, ImportFailsKeeps, SourceReadKeeps, ImportEndsKeeps DEF DevNext

\* The development server runs the railfog.toml on disk once its watcher is quiet, unless a change
\* was missed, and a function's permissions and allowlist come from one configuration, for every
\* number of functions, requests, edits and overlapping reloads (startLocalServer, createWatcher).
THEOREM DevServerIsSafe == DevSpec => []DevSafe
<1>1. DevInv => DevSafe
  <2> SUFFICES ASSUME DevInv PROVE DevSafe
    OBVIOUS
  <2>1. DevTypeOK
    BY DEF DevInv, ReloadInv, ImportsOK, WatchOK, FilesType, ReloadType, DevType, RequestType, DevTypeOK
  <2>2. ConfigCatchesUp
    <3> SUFFICES ASSUME ReloadQuiet, ~dev.missed, files.bad = {} PROVE dev.config = files.toml
      BY DEF ConfigCatchesUp
    <3>1. ~watch.stopped /\ watch.pending = <<>> /\ \A r \in Reloads : reloads[r].pc = "idle"
      BY DEF ReloadQuiet
    <3>2. ~Contains(watch.pending, "toml")
      BY <3>1 DEF Contains
    <3> QED BY <3>1, <3>2 DEF DevInv, ReloadInv, CatchingUp
  <2>3. AllowlistFollows
    BY DEF DevInv, ReloadInv, Allowed, AllowlistFollows
  <2> QED BY <2>1, <2>2, <2>3 DEF DevSafe
<1> QED BY <1>1, InitDev, StepDev, PTL DEF DevSpec

----------------------------------------------------------------------------
(* The scores of route patterns.                                            *)

\* The indices of a pattern with a literal, and those with a name or an asterisk.
LiteralPlaces(p) == {i \in DOMAIN p : p[i] \in Literals}
OtherPlaces(p) == {i \in DOMAIN p : p[i] \in {Named, Asterisk}}
Places(p) == LiteralPlaces(p) \cup OtherPlaces(p)

LEMMA PatternShape ==
  ASSUME NEW p \in Patterns
  PROVE  /\ p \in Seq(Literals \cup {NoText, Named, Asterisk})
         /\ Len(p) \in Nat /\ Len(p) > 0 /\ DOMAIN p = 1..Len(p)
         /\ \A i \in 1..Len(p) : p[i] \in Literals \cup {NoText, Named, Asterisk}
         /\ \A i \in 1..Len(p) - 1 : p[i] # Asterisk
<1>1. p \in Seq(Literals \cup {NoText, Named, Asterisk}) /\ p # <<>> /\ \A i \in 1..Len(p) - 1 : p[i] # Asterisk
  BY DEF Patterns
<1>2. Len(p) \in Nat /\ Len(p) > 0 /\ DOMAIN p = 1..Len(p)
  BY <1>1, EmptySeq
<1> QED BY <1>1, <1>2, ElementOfSeq

LEMMA PlacesCounted ==
  ASSUME NEW p \in Patterns
  PROVE  /\ Cardinality(Places(p)) \in Nat /\ Cardinality(OtherPlaces(p)) \in Nat /\ IsFiniteSet(Places(p))
         /\ SpecificityScore(p) = 2 * Cardinality(Places(p)) - Cardinality(OtherPlaces(p))
         /\ SpecificityScore(p) \in Nat
         /\ Cardinality(OtherPlaces(p)) = 0 <=> OtherPlaces(p) = {}
<1> DEFINE L == LiteralPlaces(p)
           O == OtherPlaces(p)
<1>1. Len(p) \in Nat /\ DOMAIN p = 1..Len(p)
  BY PatternShape
<1>2. IsFiniteSet(1..Len(p))
  <2>1. 1 \in Int /\ Len(p) \in Int
    BY <1>1
  <2> QED BY <2>1, FS_Interval
<1>3. L \subseteq 1..Len(p) /\ O \subseteq 1..Len(p) /\ L \cap O = {}
  BY <1>1, MatcherConstants DEF LiteralPlaces, OtherPlaces
<1>4. IsFiniteSet(L) /\ IsFiniteSet(O)
  BY <1>2, <1>3, FS_Subset
<1>5. Cardinality(L) \in Nat /\ Cardinality(O) \in Nat
  BY <1>4, FS_CardinalityType
<1>6. IsFiniteSet(L \cup O) /\ Cardinality(L \cup O) = Cardinality(L) + Cardinality(O) - Cardinality(L \cap O)
  BY <1>4, FS_Union
<1>7. Cardinality(L \cap O) = 0
  BY <1>3, FS_EmptySet
<1>8. SpecificityScore(p) = 2 * Cardinality(L) + Cardinality(O)
  BY DEF SpecificityScore, LiteralPlaces, OtherPlaces
<1>9. Cardinality(O) = 0 <=> O = {}
  BY <1>4, FS_EmptySet
<1> HIDE DEF L, O
<1>10. Cardinality(L \cup O) = Cardinality(L) + Cardinality(O)
  BY <1>5, <1>6, <1>7
<1>11. /\ Cardinality(L \cup O) \in Nat /\ SpecificityScore(p) \in Nat
       /\ SpecificityScore(p) = 2 * Cardinality(L \cup O) - Cardinality(O)
  BY <1>5, <1>8, <1>10
<1> QED BY <1>5, <1>6, <1>9, <1>11 DEF L, O, Places

LEMMA PathIsPattern ==
  ASSUME NEW s \in Paths
  PROVE  /\ s \in Patterns /\ s \in Seq(Literals \cup {NoText}) /\ Len(s) \in Nat /\ Len(s) > 0
         /\ OtherPlaces(s) = {} /\ \A i \in 1..Len(s) : s[i] \in Literals \cup {NoText}
<1>1. PICK n \in 1..MaxSegments : s \in [1..n -> Literals \cup {NoText}]
  BY DEF Paths
<1>2. n \in Nat /\ n > 0
  BY MatcherConstants
<1>3. s \in Seq(Literals \cup {NoText}) /\ Len(s) = n
  BY <1>1, <1>2, IsASeq
<1>4. /\ s # <<>> /\ s \in Seq(Literals \cup {NoText, Named, Asterisk}) /\ DOMAIN s = 1..Len(s)
      /\ \A i \in 1..Len(s) : s[i] \in Literals \cup {NoText}
  BY <1>2, <1>3, EmptySeq, ElementOfSeq
<1>5. \A i \in 1..Len(s) : s[i] \notin {Named, Asterisk}
  BY <1>4, MatcherConstants
<1>6. \A i \in 1..Len(s) - 1 : i \in 1..Len(s)
  BY <1>2, <1>3
<1>7. s \in Patterns
  BY <1>4, <1>5, <1>6 DEF Patterns
<1>8. OtherPlaces(s) = {}
  BY <1>4, <1>5 DEF OtherPlaces
<1> QED BY <1>2, <1>3, <1>4, <1>7, <1>8

\* A path, written as a pattern, matches itself.
LEMMA LiteralMatches ==
  ASSUME NEW s \in Paths
  PROVE  PatternMatches(s, s) /\ SpecificityScore(s) = 2 * Cardinality(Places(s))
<1>1. /\ s \in Patterns /\ Len(s) \in Nat /\ Len(s) > 0 /\ OtherPlaces(s) = {}
      /\ \A i \in 1..Len(s) : s[i] \in Literals \cup {NoText}
  BY PathIsPattern
<1>2. Len(s) \in 1..Len(s) /\ \A i \in 1..Len(s) : s[i] \notin {Named, Asterisk}
  BY <1>1, MatcherConstants
<1>3. PatternMatches(s, s)
  BY <1>1, <1>2 DEF PatternMatches
<1>4. /\ SpecificityScore(s) = 2 * Cardinality(Places(s)) - Cardinality(OtherPlaces(s))
      /\ Cardinality(OtherPlaces(s)) = 0 /\ Cardinality(Places(s)) \in Nat
  BY <1>1, PlacesCounted
<1> QED BY <1>3, <1>4

\* A pattern that matches has at most as many segments with text as the path, if the path does
\* not end with a slash: the asterisk then stands for one of them at least.
LEMMA FewerPlaces ==
  ASSUME NEW s \in Paths, NEW p \in Patterns, PatternMatches(p, s), s[Len(s)] # NoText
  PROVE  Cardinality(Places(p)) <= Cardinality(Places(s))
<1>1. /\ s \in Patterns /\ Len(s) \in Nat /\ Len(s) > 0 /\ DOMAIN s = 1..Len(s)
      /\ \A i \in 1..Len(s) : s[i] \in Literals \cup {NoText}
  BY PathIsPattern, PatternShape
<1>2. /\ Len(p) \in Nat /\ Len(p) > 0 /\ DOMAIN p = 1..Len(p)
      /\ \A i \in 1..Len(p) : p[i] \in Literals \cup {NoText, Named, Asterisk}
      /\ \A i \in 1..Len(p) - 1 : p[i] # Asterisk
  BY PatternShape
<1>3. Places(s) = {i \in 1..Len(s) : s[i] \in Literals} /\ IsFiniteSet(Places(s)) /\ Cardinality(Places(s)) \in Nat
  BY <1>1, PathIsPattern, PlacesCounted DEF Places, LiteralPlaces
<1>4. Places(p) = {i \in 1..Len(p) : p[i] # NoText} /\ IsFiniteSet(Places(p)) /\ Cardinality(Places(p)) \in Nat
  <2>1. Places(p) = {i \in 1..Len(p) : p[i] # NoText}
    BY <1>2, MatcherConstants DEF Places, LiteralPlaces, OtherPlaces
  <2> QED BY <2>1, PlacesCounted
<1>5. CASE p[Len(p)] # Asterisk
  <2>1. Len(s) = Len(p) /\ \A i \in 1..Len(p) : IF p[i] = Named THEN s[i] # NoText ELSE p[i] = s[i]
    BY <1>5 DEF PatternMatches
  <2>2. Places(p) \subseteq Places(s)
    BY <1>1, <1>3, <1>4, <2>1
  <2> QED BY <1>3, <2>2, FS_Subset
<1>6. CASE p[Len(p)] = Asterisk
  <2> DEFINE spelled == Places(p) \ {Len(p)}
             shorter == Places(s) \ {Len(s)}
  <2>1. Len(s) > Len(p) - 1 /\ \A i \in 1..Len(p) - 1 : IF p[i] = Named THEN s[i] # NoText ELSE p[i] = s[i]
    BY <1>6 DEF PatternMatches
  <2>2. Len(p) \in Places(p)
    BY <1>2, <1>4, <1>6, MatcherConstants
  <2>3. Len(s) \in Places(s)
    <3>1. Len(s) \in 1..Len(s)
      BY <1>1
    <3> QED BY <1>1, <1>3, <3>1
  <2>4. ASSUME NEW i \in spelled PROVE i \in shorter
    <3>1. i \in 1..Len(p) - 1 /\ i \in 1..Len(s) /\ i # Len(s) /\ p[i] # NoText
      BY <1>1, <1>2, <1>4, <2>1
    <3>2. s[i] # NoText /\ s[i] \in Literals
      BY <1>1, <2>1, <3>1
    <3> QED BY <1>3, <3>1, <3>2
  <2>5. IsFiniteSet(spelled) /\ Cardinality(spelled) = Cardinality(Places(p)) - 1
    BY <1>4, <2>2, FS_RemoveElement
  <2>6. IsFiniteSet(shorter) /\ Cardinality(shorter) = Cardinality(Places(s)) - 1
    BY <1>3, <2>3, FS_RemoveElement
  <2>7. spelled \subseteq shorter
    BY <2>4
  <2> HIDE DEF spelled, shorter
  <2>8. Cardinality(spelled) <= Cardinality(shorter)
    BY <2>6, <2>7, FS_Subset
  <2> QED BY <1>3, <1>4, <2>5, <2>6, <2>8
<1> QED BY <1>5, <1>6

\* No other pattern that matches such a path scores as much.
LEMMA OnlyLiteralScores ==
  ASSUME NEW s \in Paths, NEW p \in Patterns, PatternMatches(p, s), s[Len(s)] # NoText,
         SpecificityScore(p) >= SpecificityScore(s)
  PROVE  p = s
<1>1. /\ s \in Seq(Literals \cup {NoText, Named, Asterisk}) /\ Len(s) \in Nat /\ s \in Patterns
  BY PathIsPattern, PatternShape
<1>2. /\ p \in Seq(Literals \cup {NoText, Named, Asterisk}) /\ Len(p) \in Nat /\ Len(p) > 0 /\ DOMAIN p = 1..Len(p)
  BY PatternShape
<1>3. OtherPlaces(p) = {}
  <2>1. /\ SpecificityScore(p) = 2 * Cardinality(Places(p)) - Cardinality(OtherPlaces(p))
        /\ Cardinality(Places(p)) \in Nat /\ Cardinality(OtherPlaces(p)) \in Nat
        /\ Cardinality(OtherPlaces(p)) = 0 <=> OtherPlaces(p) = {}
    BY PlacesCounted
  <2>2. SpecificityScore(s) = 2 * Cardinality(Places(s)) /\ Cardinality(Places(s)) \in Nat
    BY <1>1, LiteralMatches, PlacesCounted
  <2>3. Cardinality(Places(p)) <= Cardinality(Places(s))
    BY FewerPlaces
  <2>4. Cardinality(OtherPlaces(p)) = 0
    BY <2>1, <2>2, <2>3
  <2> QED BY <2>1, <2>4
<1>4. \A i \in 1..Len(p) : p[i] \notin {Named, Asterisk}
  BY <1>2, <1>3 DEF OtherPlaces
<1>5. p[Len(p)] # Asterisk
  <2>1. Len(p) \in 1..Len(p)
    BY <1>2
  <2> QED BY <1>4, <2>1
<1>6. Len(s) = Len(p) /\ \A i \in 1..Len(p) : p[i] = s[i]
  BY <1>4, <1>5 DEF PatternMatches
<1> QED BY <1>1, <1>2, <1>6, SeqEqual

----------------------------------------------------------------------------
(* The loop over the routes.                                                *)

\* The routes r before n that match s have no better one than w, and none as good before it.
BestSoFar(r, s, n, w) ==
  LET before == {i \in 1..n - 1 : PatternMatches(r[i], s)}
  IN  /\ w = 0 <=> before = {}
      /\ w # 0 => /\ w \in before
                  /\ \A i \in before : /\ SpecificityScore(r[i]) <= SpecificityScore(r[w])
                                       /\ SpecificityScore(r[i]) = SpecificityScore(r[w]) => w <= i

MatcherInv ==
  /\ routes \in RouteTables /\ path \in Paths
  /\ at \in 1..Len(routes) + 1 /\ winner \in 0..Len(routes)
  /\ IsFiniteSet(compiled) /\ Cardinality(compiled) <= MaxPatterns
  /\ BestSoFar(routes, path, at, winner)

LEMMA TableShape ==
  ASSUME NEW r \in RouteTables
  PROVE  /\ r \in Seq(Patterns) /\ Len(r) \in Nat /\ DOMAIN r = 1..Len(r)
         /\ \A i \in 1..Len(r) : r[i] \in Patterns /\ SpecificityScore(r[i]) \in Nat
BY MatcherConstants, PlacesCounted

LEMMA BestOfOneMore ==
  ASSUME NEW r \in RouteTables, NEW s, NEW n \in 1..Len(r), NEW w \in 0..Len(r), BestSoFar(r, s, n, w)
  PROVE  BestSoFar(r, s, n + 1,
           IF PatternMatches(r[n], s) /\ (w = 0 \/ SpecificityScore(r[n]) > SpecificityScore(r[w])) THEN n ELSE w)
<1> DEFINE before == {i \in 1..n - 1 : PatternMatches(r[i], s)}
           upto == {i \in 1..(n + 1) - 1 : PatternMatches(r[i], s)}
           Score(i) == SpecificityScore(r[i])
<1>1. Len(r) \in Nat /\ \A i \in 1..Len(r) : Score(i) \in Nat
  BY TableShape
<1>2. upto = IF PatternMatches(r[n], s) THEN before \cup {n} ELSE before
  BY <1>1
<1>3. before \subseteq 1..Len(r) /\ \A i \in before : i < n
  BY <1>1
<1>4. /\ w = 0 <=> before = {}
      /\ w # 0 => w \in before /\ \A i \in before : Score(i) <= Score(w) /\ (Score(i) = Score(w) => w <= i)
  BY DEF BestSoFar
<1> HIDE DEF before, upto, Score
<1>5. SUFFICES ASSUME NEW x, x = IF PatternMatches(r[n], s) /\ (w = 0 \/ Score(n) > Score(w)) THEN n ELSE w
               PROVE  /\ x = 0 <=> upto = {}
                      /\ x # 0 => x \in upto /\ \A i \in upto : Score(i) <= Score(x) /\ (Score(i) = Score(x) => x <= i)
  BY DEF BestSoFar, upto, Score
<1>6. CASE ~PatternMatches(r[n], s)
  BY <1>2, <1>4, <1>5, <1>6
<1>7. CASE PatternMatches(r[n], s) /\ w = 0
  BY <1>1, <1>2, <1>4, <1>5, <1>7
<1>8. CASE PatternMatches(r[n], s) /\ w # 0 /\ Score(n) > Score(w)
  BY <1>1, <1>2, <1>3, <1>4, <1>5, <1>8
<1>9. CASE PatternMatches(r[n], s) /\ w # 0 /\ ~(Score(n) > Score(w))
  BY <1>1, <1>2, <1>3, <1>4, <1>5, <1>9
<1> QED BY <1>6, <1>7, <1>8, <1>9

LEMMA BestOfNone ==
  ASSUME NEW r, NEW s
  PROVE  BestSoFar(r, s, 1, 0)
BY DEF BestSoFar

LEMMA PatternCacheBounded ==
  ASSUME NEW p, IsFiniteSet(compiled), Cardinality(compiled) <= MaxPatterns
  PROVE  IsFiniteSet(Compiled(p)) /\ Cardinality(Compiled(p)) <= MaxPatterns
<1> DEFINE kept == IF Cardinality(compiled) >= MaxPatterns THEN {} ELSE compiled
<1>1. CASE p \in compiled
  BY <1>1 DEF Compiled
<1>2. CASE p \notin compiled
  <2>1. IsFiniteSet(kept) /\ p \notin kept /\ Cardinality(kept) \in Nat /\ Cardinality(kept) < MaxPatterns
    BY <1>2, FS_EmptySet, FS_CardinalityType, MatcherConstants
  <2> HIDE DEF kept
  <2>2. IsFiniteSet(kept \cup {p}) /\ Cardinality(kept \cup {p}) = Cardinality(kept) + 1
    BY <2>1, FS_AddElement
  <2>3. Compiled(p) = kept \cup {p}
    BY <1>2 DEF Compiled, kept
  <2> QED BY <2>1, <2>2, <2>3, MatcherConstants
<1> QED BY <1>1, <1>2

LEMMA MatcherStep == MatcherInv /\ [MatcherNext]_matcherVars => MatcherInv'
<1> SUFFICES ASSUME MatcherInv, [MatcherNext]_matcherVars PROVE MatcherInv'
  OBVIOUS
<1> USE DEF MatcherInv
<1>0. Len(routes) \in Nat
  BY TableShape
<1>1. CASE LookAt
  <2>1. /\ routes' = routes /\ path' = path /\ at \in 1..Len(routes) /\ at' = at + 1
        /\ winner' = IF PatternMatches(routes[at], path)
                        /\ (winner = 0 \/ SpecificityScore(routes[at]) > SpecificityScore(routes[winner]))
                     THEN at ELSE winner
    BY <1>0, <1>1 DEF LookAt, Better
  <2>2. BestSoFar(routes, path, at', winner')
    BY <2>1, BestOfOneMore
  <2>3. IsFiniteSet(compiled') /\ Cardinality(compiled') <= MaxPatterns
    BY <1>1, PatternCacheBounded DEF LookAt
  <2>4. winner' \in 0..Len(routes) /\ at' \in 1..Len(routes) + 1
    BY <1>0, <2>1
  <2> QED BY <2>1, <2>2, <2>3, <2>4
<1>2. CASE NextRequest
  <2>1. Len(routes') \in Nat
    BY <1>2, TableShape DEF NextRequest
  <2> QED BY <1>2, <2>1, BestOfNone DEF NextRequest
<1>3. CASE UNCHANGED matcherVars
  BY <1>3 DEF matcherVars
<1> QED BY <1>1, <1>2, <1>3 DEF MatcherNext

LEMMA MatcherStart == MatcherInit => MatcherInv
<1> SUFFICES ASSUME MatcherInit PROVE MatcherInv
  OBVIOUS
<1>1. Len(routes) \in Nat
  BY TableShape DEF MatcherInit
<1> QED BY <1>1, BestOfNone, FS_EmptySet, MatcherConstants DEF MatcherInit, MatcherInv

LEMMA MatcherWins == MatcherInv => MatcherTypeOK /\ MostSpecificWins
<1> SUFFICES ASSUME MatcherInv PROVE MatcherTypeOK /\ MostSpecificWins
  OBVIOUS
<1>1. MatcherTypeOK
  BY DEF MatcherInv, MatcherTypeOK
<1>2. ASSUME at > Len(routes) PROVE MostSpecificWins
  <2> DEFINE Score(i) == SpecificityScore(routes[i])
  <2>1. /\ Len(routes) \in Nat /\ DOMAIN routes = 1..Len(routes) /\ at = Len(routes) + 1
        /\ \A i \in 1..Len(routes) : routes[i] \in Patterns /\ Score(i) \in Nat
    BY <1>2, TableShape DEF MatcherInv
  <2>2. {i \in 1..at - 1 : PatternMatches(routes[i], path)} = Candidates
    BY <2>1 DEF Candidates
  <2>3. /\ winner = 0 <=> Candidates = {}
        /\ winner # 0 => winner \in Candidates
                         /\ \A i \in Candidates : Score(i) <= Score(winner) /\ (Score(i) = Score(winner) => winner <= i)
    BY <2>2 DEF MatcherInv, BestSoFar
  <2>4. ASSUME winner # 0, NEW i \in DOMAIN routes, routes[i] = path, path[Len(path)] # NoText
        PROVE  routes[winner] = path
    <3>1. path \in Paths
      BY DEF MatcherInv
    <3>2. i \in Candidates
      BY <2>4, <3>1, LiteralMatches DEF Candidates
    <3>3. /\ winner \in 1..Len(routes) /\ PatternMatches(routes[winner], path)
          /\ SpecificityScore(path) <= Score(winner) /\ SpecificityScore(path) \in Nat
      BY <2>1, <2>3, <2>4, <3>2 DEF Candidates
    <3> QED BY <2>1, <2>4, <3>1, <3>3, OnlyLiteralScores
  <2> HIDE DEF Score
  <2>5. winner # 0 => \A i \in Candidates : Score(i) <= Score(winner) /\ (Score(i) = Score(winner) => winner <= i)
    BY <2>3
  <2> QED BY <2>3, <2>4, <2>5 DEF MostSpecificWins, Score
<1>3. ASSUME ~(at > Len(routes)) PROVE MostSpecificWins
  BY <1>3 DEF MostSpecificWins
<1> QED BY <1>1, <1>2, <1>3

----------------------------------------------------------------------------
(* The cron timers.                                                         *)

\* Where the code's distinction of restricted day fields and the schedule's meaning agree.
LEMMA MatchesIsDue ==
  ASSUME Compiles(expr)
  PROVE  Matches(expr, date) <=> Due
BY DEF Matches, Due, NamesDay

\* There is at most one timer, no later than the ticks lost so far.  Once fired in this minute it
\* is not due before the next; one that stood since the minute began and has not fired is.
CronInv ==
  /\ CronTypeOK
  /\ \A x, y \in ticking : x = y
  /\ \A x \in ticking : x >= -late
  /\ Compiles(expr) <=> ticking # {}
  /\ fired \in 0..1
  /\ fired = 1 => \A x \in ticking : x + tick >= Minute
  /\ steady /\ Due => fired = 1 \/ \A x \in ticking : x + tick <= Minute - 1
  /\ steady /\ ~Due => fired = 0

LEMMA TimerForShape ==
  ASSUME NEW e
  PROVE  /\ Compiles(e) => TimerFor(e) = {Minute}
         /\ ~Compiles(e) => TimerFor(e) = {}
BY DEF TimerFor

LEMMA LatenessCounted ==
  ASSUME \A x, y \in ticking : x = y
  PROVE  Cardinality(Lateness) = IF Lateness = {} THEN 0 ELSE 1
<1>1. CASE Lateness = {}
  BY <1>1, FS_EmptySet
<1>2. CASE Lateness # {}
  <2>1. PICK x \in ticking : Lateness = {x}
    BY <1>2 DEF Lateness
  <2> QED BY <1>2, <2>1, FS_Singleton
<1> QED BY <1>1, <1>2

LEMMA CronStart == CronInit => CronInv
<1> SUFFICES ASSUME CronInit PROVE CronInv
  OBVIOUS
<1>1. ticking \in {{}, {Minute}} /\ (Compiles(expr) <=> ticking # {})
  BY TimerForShape DEF CronInit
<1>2. ticking \subseteq -MaxLate..Minute
  BY <1>1, CronConstants
<1>3. CronTypeOK
  <2>1. steady \in BOOLEAN
    BY DEF CronInit
  <2>2. late \in 0..MaxLate /\ fired \in Nat
    BY CronConstants DEF CronInit
  <2> QED BY <1>2, <2>1, <2>2 DEF CronTypeOK, CronInit
<1> QED BY <1>1, <1>3, CronConstants DEF CronInit, CronInv

LEMMA CronResyncStep ==
  ASSUME CronInv, NEW e \in Expressions, Resync(e)
  PROVE  CronInv'
<1>1. ticking' \in {{}, {Minute}} /\ (Compiles(expr') <=> ticking' # {}) /\ expr' \in Expressions
  BY TimerForShape DEF Resync
<1>2. ticking' \subseteq -MaxLate..Minute
  BY <1>1, CronConstants
<1>3. CronTypeOK'
  BY <1>1, <1>2, CronConstants DEF CronTypeOK, Resync, CronInv
<1>4. steady' = FALSE /\ fired' = fired /\ tick' = tick /\ late' = late
  BY DEF Resync
<1>5. tick \in Nat /\ late \in Nat
  BY CronConstants DEF CronInv, CronTypeOK
<1>6. fired' = 1 => \A x \in ticking' : x + tick' >= Minute
  BY <1>1, <1>4, <1>5, CronConstants
<1>7. \A x \in ticking' : x >= -late'
  BY <1>1, <1>4, <1>5, CronConstants
<1>8. (Compiles(expr) <=> ticking # {})'
  BY <1>1
<1>9. fired' \in 0..1
  BY <1>4 DEF CronInv
<1>10. \A x, y \in ticking' : x = y
  BY <1>1
<1> QED BY <1>3, <1>4, <1>6, <1>7, <1>8, <1>9, <1>10 DEF CronInv

\* A timer that fires had not fired in this minute.
LEMMA CronFireStep ==
  ASSUME CronInv, NEW left \in ticking, TimerFires(left)
  PROVE  CronInv'
<1>1. /\ ticking = {left} /\ ticking' = {Minute} /\ left <= 0 /\ left \in Int
      /\ tick \in 0..Minute - 1 /\ late \in Nat /\ Minute \in Nat
  <2>1. ticking = {left} /\ ticking' = {Minute} /\ left <= 0
    BY DEF TimerFires, CronInv
  <2>2. left \in -MaxLate..Minute /\ tick \in 0..Minute - 1 /\ late \in 0..MaxLate
    BY DEF CronInv, CronTypeOK
  <2> QED BY <2>1, <2>2, CronConstants
<1>2. fired = 0
  BY <1>1 DEF CronInv
<1>3. expr' = expr /\ tick' = tick /\ date' = date /\ late' = late /\ steady' = steady
  BY DEF TimerFires
<1>4. Compiles(expr)
  BY DEF CronInv
<1>5. fired' = (IF Due THEN 1 ELSE 0)
  BY <1>2, <1>4, MatchesIsDue DEF TimerFires
<1>6. Due' <=> Due
  BY <1>3 DEF Due, Compiles, NamesDay
<1>7. CronTypeOK'
  <2>1. ticking' \subseteq -MaxLate..Minute
    BY <1>1, CronConstants
  <2>2. fired' \in Nat
    BY <1>5
  <2> QED BY <1>3, <2>1, <2>2 DEF CronTypeOK, CronInv
<1>8. Compiles(expr') /\ ticking' # {} /\ \A x, y \in ticking' : x = y
  BY <1>1, <1>3, <1>4
<1>9. \A x \in ticking' : x >= -late' /\ x + tick' >= Minute
  BY <1>1, <1>3
<1>10. fired' \in 0..1
  BY <1>5
<1>11. (Compiles(expr) <=> ticking # {})'
  BY <1>8
<1> QED BY <1>5, <1>6, <1>7, <1>8, <1>9, <1>10, <1>11 DEF CronInv

LEMMA CronTickStep ==
  ASSUME CronInv, TimePasses
  PROVE  CronInv'
<1>1. /\ tick \in 0..Minute - 1 /\ late \in 0..MaxLate /\ Minute \in Nat \ {0} /\ MaxLate \in Nat
      /\ ticking \subseteq -MaxLate..Minute
  BY CronConstants DEF CronInv, CronTypeOK
<1>2. /\ ticking' = {x - 1 : x \in ticking} /\ expr' = expr
      /\ late' = late + (IF Lateness = {} THEN 0 ELSE 1) /\ late' <= MaxLate
  BY LatenessCounted DEF TimePasses, CronInv
<1>3. tick' = IF tick = Minute - 1 THEN 0 ELSE tick + 1
  BY <1>1 DEF TimePasses
<1>4. \A x \in ticking : x \in Int /\ x >= -late /\ x <= Minute /\ (x <= 0 => late' = late + 1) /\ late' >= late /\ late' \in Nat
  BY <1>1, <1>2 DEF CronInv, Lateness
<1>5. \A y \in ticking' : y \in Int /\ y >= -late' /\ y <= Minute - 1 /\ y + 1 \in ticking
  BY <1>1, <1>2, <1>4
<1>6. late' \in 0..MaxLate
  BY <1>1, <1>2
<1>7. ticking' \subseteq -MaxLate..Minute
  BY <1>1, <1>5, <1>6
<1>8. ticking' # {} <=> ticking # {}
  BY <1>2
<1>9. \A x, y \in ticking' : x = y
  BY <1>2 DEF CronInv
<1>10. tick' \in 0..Minute - 1
  BY <1>1, <1>3
<1>11. (Compiles(expr) <=> ticking # {})'
  BY <1>2, <1>8 DEF CronInv
<1>12. CASE tick' = 0
  <2>1. fired' = 0 /\ steady' = TRUE /\ date' \in Dates
    BY <1>12 DEF TimePasses
  <2>2. CronTypeOK'
    BY <1>2, <1>6, <1>7, <1>10, <2>1 DEF CronTypeOK, CronInv
  <2>3. \A x \in ticking' : x + tick' <= Minute - 1
    BY <1>1, <1>5, <1>12
  <2>4. fired' \in 0..1
    BY <2>1
  <2> QED BY <1>5, <1>9, <1>11, <2>1, <2>2, <2>3, <2>4 DEF CronInv
<1>13. CASE tick' # 0
  <2>1. fired' = fired /\ date' = date /\ steady' = (steady /\ Lateness = {})
    BY <1>13 DEF TimePasses
  <2>2. steady' => steady
    BY <2>1
  <2>3. steady' \in BOOLEAN
    BY <2>1 DEF CronInv, CronTypeOK
  <2>4. CronTypeOK'
    BY <1>2, <1>6, <1>7, <1>10, <2>1, <2>3 DEF CronTypeOK, CronInv
  <2>5. Due' <=> Due
    BY <1>2, <2>1 DEF Due, Compiles, NamesDay
  <2>6. tick' = tick + 1
    BY <1>3, <1>13
  <2>7. \A y \in ticking' : y + tick' = (y + 1) + tick
    BY <1>1, <1>5, <2>6
  <2>8. fired' = 1 => \A y \in ticking' : y + tick' >= Minute
    BY <1>5, <2>1, <2>7 DEF CronInv
  <2>9. steady' /\ Due' => fired' = 1 \/ \A y \in ticking' : y + tick' <= Minute - 1
    BY <1>5, <2>1, <2>2, <2>5, <2>7 DEF CronInv
  <2>10. steady' /\ ~Due' => fired' = 0
    BY <2>1, <2>2, <2>5 DEF CronInv
  <2>11. fired' \in 0..1
    BY <2>1 DEF CronInv
  <2> QED BY <1>5, <1>9, <1>11, <2>4, <2>8, <2>9, <2>10, <2>11 DEF CronInv
<1> QED BY <1>12, <1>13

LEMMA CronStep == CronInv /\ [CronNext]_cronVars => CronInv'
<1> SUFFICES ASSUME CronInv, [CronNext]_cronVars PROVE CronInv'
  OBVIOUS
<1>1. CASE UNCHANGED cronVars
  BY <1>1 DEF cronVars, CronInv, CronTypeOK, Due, Compiles, NamesDay
<1> QED BY <1>1, CronResyncStep, CronFireStep, CronTickStep DEF CronNext

LEMMA CronFiresRight == CronInv => CronTypeOK /\ OncePerMinute /\ FiresWhenDue
<1> SUFFICES ASSUME CronInv PROVE CronTypeOK /\ OncePerMinute /\ FiresWhenDue
  OBVIOUS
<1>1. CronTypeOK /\ OncePerMinute
  BY DEF CronInv, OncePerMinute
<1>2. ASSUME steady, tick = Minute - 1, Lateness = {}, Due PROVE fired = 1
  <2>1. PICK x \in ticking : TRUE
    BY <1>2 DEF Due, CronInv
  <2>2. x \in Int /\ ~(x <= 0) /\ Minute \in Nat
    BY <1>2, CronConstants DEF Lateness, CronInv, CronTypeOK
  <2>3. ~(x + tick <= Minute - 1)
    BY <1>2, <2>2
  <2> QED BY <1>2, <2>3 DEF CronInv
<1>3. steady /\ ~Due => fired = 0
  BY DEF CronInv
<1> QED BY <1>1, <1>2, <1>3 DEF FiresWhenDue

----------------------------------------------------------------------------
\* What triggers a function, for any tables of routes, any schedules, any number of
\* snapshots and late timers: a request goes to the most specific route that matches, the
\* first among equals, and a schedule fires when it is due and once a minute (matchRoute,
\* compileCron and syncCronSchedules).
THEOREM TriggersAreSound == MatcherSpec /\ CronSpec => []TriggersSound
<1>1. MatcherInit => MatcherInv
  BY MatcherStart
<1>2. MatcherInv /\ [MatcherNext]_matcherVars => MatcherInv'
  BY MatcherStep
<1>3. CronInit => CronInv
  BY CronStart
<1>4. CronInv /\ [CronNext]_cronVars => CronInv'
  BY CronStep
<1>5. MatcherInv /\ CronInv => TriggersSound
  BY MatcherWins, CronFiresRight DEF TriggersSound
<1> QED BY <1>1, <1>2, <1>3, <1>4, <1>5, PTL DEF MatcherSpec, CronSpec

----------------------------------------------------------------------------
(* The kv binding of the local sandbox.                                     *)

\* A binding that has set the key since its check's version was read is past that version.
BindingOK(b) ==
  /\ b \in Binding
  /\ b.since = "nothing" => b.version >= b.expected
  /\ b.since = "write" => b.version > b.expected

LocalKvInv ==
  /\ store \in LocalValues \cup {NoEntry}
  /\ bindings \in [Invocations -> Binding]
  /\ \A i \in Invocations : BindingOK(bindings[i])

LEMMA BindingReplaced ==
  ASSUME LocalKvInv, NEW i \in Invocations, NEW b, BindingOK(b), bindings' = [bindings EXCEPT ![i] = b],
         store' \in LocalValues \cup {NoEntry}
  PROVE  LocalKvInv'
<1>1. b \in Binding
  BY DEF BindingOK
<1>2. bindings' \in [Invocations -> Binding]
  BY <1>1 DEF LocalKvInv
<1>3. ASSUME NEW j \in Invocations PROVE BindingOK(bindings'[j])
  BY DEF LocalKvInv
<1> QED BY <1>2, <1>3 DEF LocalKvInv

LEMMA FreshOK == BindingOK(Fresh) /\ BindingOK([Fresh EXCEPT !.open = TRUE])
<1>1. 0 \in 0..MaxWrites
  BY LocalKvAssumption
<1>2. Fresh \in Binding /\ Fresh.version = 0 /\ Fresh.expected = 0 /\ Fresh.since = "nothing"
  BY <1>1 DEF Fresh, Binding
<1>3. /\ [Fresh EXCEPT !.open = TRUE] \in Binding /\ [Fresh EXCEPT !.open = TRUE].version = 0
      /\ [Fresh EXCEPT !.open = TRUE].expected = 0 /\ [Fresh EXCEPT !.open = TRUE].since = "nothing"
  BY <1>2 DEF Binding
<1> QED BY <1>2, <1>3 DEF BindingOK

LEMMA LocalKvStep ==
  ASSUME LocalKvInv, [LocalKvNext]_localKvVars
  PROVE  LocalKvInv' /\ OwnWritesSeen
<1>1. OwnWritesSeen
  <2> SUFFICES ASSUME NEW i \in Invocations, CommitSucceeds(i) PROVE bindings[i].since # "write"
    BY DEF OwnWritesSeen
  <2>1. BindingOK(bindings[i]) /\ bindings[i].version = bindings[i].expected
    BY DEF LocalKvInv, CommitSucceeds
  <2>2. bindings[i].version \in Int
    BY <2>1, LocalKvAssumption DEF BindingOK, Binding
  <2> QED BY <2>1, <2>2 DEF BindingOK
<1>2. LocalKvInv'
  <2>1. CASE UNCHANGED localKvVars
    BY <2>1 DEF localKvVars, LocalKvInv
  <2>2. ASSUME NEW i \in Invocations,
               \/ NewBinding(i) \/ InvocationEnds(i) \/ ReadVersion(i) \/ CommitSucceeds(i) \/ CommitConflicts(i)
               \/ \E v \in LocalValues \cup {NoEntry} : LocalBuffer(i, v) \/ LocalSet(i, v)
        PROVE  LocalKvInv'
    <3> DEFINE b == bindings[i]
    <3>1. /\ BindingOK(b) /\ b \in Binding /\ MaxWrites \in Nat /\ store \in LocalValues \cup {NoEntry}
          /\ b.version \in 0..MaxWrites /\ b.expected \in 0..MaxWrites
          /\ b.since \in {"nothing", "write", "restart"} /\ b.write \in LocalValues \cup {NoEntry, NoWrite}
      BY LocalKvAssumption DEF LocalKvInv, BindingOK, Binding
    <3>2. CASE NewBinding(i) \/ InvocationEnds(i)
      BY <3>1, <3>2, FreshOK, BindingReplaced DEF NewBinding, InvocationEnds
    <3>3. CASE ReadVersion(i)
      <4> DEFINE q == [b EXCEPT !.expected = b.version, !.since = "nothing"]
      <4>1. q \in Binding /\ q.expected = b.version /\ q.version = b.version /\ q.since = "nothing"
        BY <3>1 DEF Binding
      <4>2. BindingOK(q)
        BY <3>1, <4>1 DEF BindingOK
      <4>3. bindings' = [bindings EXCEPT ![i] = q]
        BY <3>3 DEF ReadVersion, LocalKvInv
      <4>4. store' = store
        BY <3>3 DEF ReadVersion
      <4> HIDE DEF q
      <4> QED BY <3>1, <4>2, <4>3, <4>4, BindingReplaced
    <3>4. ASSUME NEW v \in LocalValues \cup {NoEntry}, LocalSet(i, v) PROVE LocalKvInv'
      <4> DEFINE since == IF v = NoEntry THEN "restart" ELSE Raised(b)
                 q == [b EXCEPT !.version = Versioned(b, v), !.since = since]
      <4>1. Versioned(b, v) \in 0..MaxWrites
        BY <3>1, <3>4 DEF Versioned, LocalSet
      <4>2. since \in {"nothing", "write", "restart"}
        BY DEF Raised
      <4>3. q \in Binding /\ q.expected = b.expected /\ q.version = Versioned(b, v) /\ q.since = since
        BY <3>1, <4>1, <4>2 DEF Binding
      <4>4. since # "nothing" /\ (since = "write" => v # NoEntry /\ b.since # "restart")
        BY DEF Raised
      <4>5. v # NoEntry /\ b.since # "restart" => Versioned(b, v) > b.expected
        BY <3>1 DEF Versioned, BindingOK
      <4>6. BindingOK(q)
        BY <4>3, <4>4, <4>5 DEF BindingOK
      <4>7. bindings' = [bindings EXCEPT ![i] = q]
        BY <3>4 DEF LocalSet, LocalKvInv
      <4>8. store' \in LocalValues \cup {NoEntry}
        BY <3>4 DEF LocalSet
      <4> HIDE DEF q
      <4> QED BY <4>6, <4>7, <4>8, BindingReplaced
    <3>5. ASSUME NEW v \in LocalValues \cup {NoEntry, NoWrite}, bindings' = [bindings EXCEPT ![i].write = v], store' = store
          PROVE LocalKvInv'
      <4> DEFINE q == [b EXCEPT !.write = v]
      <4>1. q \in Binding /\ q.expected = b.expected /\ q.version = b.version /\ q.since = b.since
        BY <3>1 DEF Binding
      <4>2. BindingOK(q)
        BY <3>1, <4>1 DEF BindingOK
      <4>3. bindings' = [bindings EXCEPT ![i] = q]
        BY <3>5 DEF LocalKvInv
      <4> HIDE DEF q
      <4> QED BY <3>1, <3>5, <4>2, <4>3, BindingReplaced
    <3>6. CASE CommitSucceeds(i)
      <4> DEFINE q == [b EXCEPT !.write = NoWrite, !.version = b.version + 1, !.since = Raised(b)]
      <4>1. b.version + 1 \in 0..MaxWrites /\ b.version = b.expected
        BY <3>1, <3>6 DEF CommitSucceeds
      <4>2. Raised(b) \in {"nothing", "write", "restart"} /\ Raised(b) # "nothing"
        BY DEF Raised
      <4>3. q \in Binding /\ q.expected = b.expected /\ q.version = b.version + 1 /\ q.since = Raised(b)
        BY <3>1, <4>1, <4>2 DEF Binding
      <4>4. BindingOK(q)
        BY <3>1, <4>1, <4>2, <4>3 DEF BindingOK
      <4>5. bindings' = [bindings EXCEPT ![i] = q] /\ store' = b.write /\ b.write # NoWrite
        BY <3>6 DEF CommitSucceeds
      <4> HIDE DEF q
      <4> QED BY <3>1, <4>4, <4>5, BindingReplaced
    <3>7. CASE CommitConflicts(i)
      BY <3>5, <3>7 DEF CommitConflicts
    <3>8. CASE \E v \in LocalValues \cup {NoEntry} : LocalBuffer(i, v)
      BY <3>5, <3>8 DEF LocalBuffer
    <3> QED BY <2>2, <3>2, <3>3, <3>4, <3>6, <3>7, <3>8
  <2> QED BY <2>1, <2>2 DEF LocalKvNext
<1> QED BY <1>1, <1>2

LEMMA LocalKvStart == LocalKvInit => LocalKvInv
<1> SUFFICES ASSUME LocalKvInit PROVE LocalKvInv
  OBVIOUS
<1>1. Fresh \in Binding
  BY FreshOK DEF BindingOK
<1> QED BY <1>1, FreshOK DEF LocalKvInit, LocalKvInv

----------------------------------------------------------------------------
(* The warm modules and the runs of the local sandbox.                      *)

\* A run past its load has the module it asked for; it holds the environment while it is called.
RunOK(r) ==
  /\ r \in Run
  /\ r.pc \in {"secrets", "running", "body", "orphan"} => r.code = r.artifact
  /\ r.env = "held" <=> r.pc \in {"running", "body"}

LoadingRuns(f) == {i \in Runs : f[i].pc = "loading"}

\* Concurrent loads and warm instances together pass the limit by fewer than there are runs.
WarmFits(ws, f) ==
  /\ ws \subseteq {w \in [key : Bundles, code : Bundles] : w.key = w.code}
  /\ IsFiniteSet(ws)
  /\ Cardinality(ws) + Cardinality(LoadingRuns(f)) <= MaxWarmInstances + Cardinality(Runs) - 1

\* The properties that are not a handler's to leave.
Left == fixed \cup outside

\* Before handlers overlap or miss a deadline one at most is called, and it found, like anyone
\* when none is called, only properties that are not configurable or came from outside.
Undisturbed(f, gs, left, d) ==
  d \/ /\ \A i \in Runs : f[i].pc # "orphan"
       /\ \A i, j \in Runs : Called(f[i]) /\ Called(f[j]) => i = j
       /\ \A i \in Runs : Called(f[i]) => f[i].initial \subseteq left
       /\ (\A i \in Runs : ~Called(f[i])) => gs \subseteq left

IsoInv ==
  /\ runs \in [Runs -> Run] /\ globals \subseteq GlobalNames /\ disturbed \in BOOLEAN
  /\ fixed \subseteq globals /\ outside \subseteq globals
  /\ \A i \in Runs : RunOK(runs[i])
  /\ WarmFits(warm, runs)
  /\ Undisturbed(runs, globals, Left, disturbed)

LEMMA LoadingFinite ==
  ASSUME NEW f
  PROVE  /\ IsFiniteSet(LoadingRuns(f)) /\ Cardinality(LoadingRuns(f)) \in Nat
         /\ Cardinality(LoadingRuns(f)) <= Cardinality(Runs) /\ Cardinality(Runs) \in Nat
<1>1. LoadingRuns(f) \subseteq Runs /\ IsFiniteSet(Runs)
  BY IsoAssumption DEF LoadingRuns
<1> QED BY <1>1, FS_Subset, FS_CardinalityType

\* How one run changes the number of loads.
LEMMA LoadingChanges ==
  ASSUME NEW f \in [Runs -> Run], NEW i \in Runs, NEW q \in Run, NEW g, g = [f EXCEPT ![i] = q]
  PROVE  /\ f[i].pc # "loading" /\ q.pc # "loading" => Cardinality(LoadingRuns(g)) = Cardinality(LoadingRuns(f))
         /\ f[i].pc # "loading" /\ q.pc = "loading" => Cardinality(LoadingRuns(g)) = Cardinality(LoadingRuns(f)) + 1
                                                     /\ Cardinality(LoadingRuns(f)) + 1 <= Cardinality(Runs)
         /\ f[i].pc = "loading" /\ q.pc # "loading" => Cardinality(LoadingRuns(g)) = Cardinality(LoadingRuns(f)) - 1
<1> DEFINE F == LoadingRuns(f)
           G == LoadingRuns(g)
<1>1. IsFiniteSet(F) /\ IsFiniteSet(G) /\ Cardinality(F) \in Nat /\ Cardinality(G) <= Cardinality(Runs)
  BY LoadingFinite
<1>2. f[i].pc # "loading" /\ q.pc # "loading" => G = F
  BY DEF LoadingRuns
<1>3. f[i].pc # "loading" /\ q.pc = "loading" => G = F \cup {i} /\ i \notin F
  BY DEF LoadingRuns
<1>4. f[i].pc = "loading" /\ q.pc # "loading" => G = F \ {i} /\ i \in F
  BY DEF LoadingRuns
<1> HIDE DEF F, G
<1>5. i \notin F => Cardinality(F \cup {i}) = Cardinality(F) + 1
  BY <1>1, FS_AddElement
<1>6. i \in F => Cardinality(F \ {i}) = Cardinality(F) - 1
  BY <1>1, FS_RemoveElement
<1> QED BY <1>1, <1>2, <1>3, <1>4, <1>5, <1>6 DEF F, G

LEMMA IdleRunOK == IdleRun \in Run /\ RunOK(IdleRun) /\ IdleRun.pc = "idle" /\ IdleRun.env = "none"
<1>1. (CHOOSE a \in Bundles : TRUE) \in Bundles
  BY IsoAssumption
<1>2. 0 \in 0..MaxOps
  BY IsoAssumption
<1>3. IdleRun \in Run
  BY <1>1, <1>2 DEF IdleRun, Run
<1> QED BY <1>3 DEF IdleRun, RunOK

\* What a step has to show: the new run, the room it leaves and whether handlers overlap.
LEMMA RunReplaced ==
  ASSUME IsoInv, NEW i \in Runs, NEW q, RunOK(q), runs' = [runs EXCEPT ![i] = q],
         WarmFits(warm', runs'), globals' \subseteq GlobalNames, disturbed' \in BOOLEAN,
         fixed' \subseteq globals', outside' \subseteq globals',
         Undisturbed(runs', globals', Left', disturbed')
  PROVE  IsoInv'
<1>1. q \in Run
  BY DEF RunOK
<1>2. runs' \in [Runs -> Run]
  BY <1>1 DEF IsoInv
<1>3. ASSUME NEW j \in Runs PROVE RunOK(runs'[j])
  BY DEF IsoInv
<1> QED BY <1>2, <1>3 DEF IsoInv

\* A run that stays as much called as it was, with the properties it found, disturbs nothing.
LEMMA StillUndisturbed ==
  ASSUME IsoInv, NEW i \in Runs, NEW q \in Run, NEW f, f = [runs EXCEPT ![i] = q], NEW gs,
         Called(q) <=> Called(runs[i]), Called(q) => q.initial = runs[i].initial, q.pc # "orphan", NEW left,
         gs = globals, left = Left
  PROVE  Undisturbed(f, gs, left, disturbed)
<1>1. \A j \in Runs : (Called(f[j]) <=> Called(runs[j])) /\ (j # i => f[j] = runs[j]) /\ f[i] = q
  BY DEF IsoInv
<1>2. CASE disturbed
  BY <1>2 DEF Undisturbed
<1>3. CASE ~disturbed
  BY <1>1, <1>3 DEF Undisturbed, IsoInv
<1> QED BY <1>2, <1>3

\* Room for one more load.
LEMMA EvictedFits ==
  ASSUME IsoInv, NEW i \in Runs, NEW q \in Run, q.pc = "loading", runs[i].pc = "idle",
         NEW ws \in Evictions, NEW f, f = [runs EXCEPT ![i] = q]
  PROVE  WarmFits(ws, f)
<1> DEFINE c == Cardinality(warm)
           l == Cardinality(LoadingRuns(runs))
           n == Cardinality(Runs)
<1>1. IsFiniteSet(warm) /\ c \in Nat /\ c + l <= MaxWarmInstances + n - 1 /\ MaxWarmInstances \in Nat \ {0}
  BY IsoAssumption, FS_CardinalityType DEF IsoInv, WarmFits
<1>2. Cardinality(LoadingRuns(f)) = l + 1 /\ l + 1 <= n /\ n \in Nat /\ l \in Nat
  BY LoadingChanges, LoadingFinite DEF IsoInv
<1>3. ws \subseteq warm /\ IsFiniteSet(ws)
  BY <1>1, FS_Subset DEF Evictions
<1>4. Cardinality(ws) = IF c < MaxWarmInstances THEN c ELSE c - 1
  <2>1. CASE c < MaxWarmInstances
    BY <2>1 DEF Evictions
  <2>2. CASE ~(c < MaxWarmInstances)
    <3>1. PICK w \in warm : ws = warm \ {w}
      BY <2>2 DEF Evictions
    <3>2. Cardinality(ws) = c - 1
      BY <1>1, <3>1, FS_RemoveElement
    <3> QED BY <2>2, <3>2
  <2> QED BY <2>1, <2>2
<1> HIDE DEF c, l, n
<1>5. Cardinality(ws) + Cardinality(LoadingRuns(f)) <= MaxWarmInstances + n - 1
  BY <1>1, <1>2, <1>4
<1> QED BY <1>3, <1>5 DEF IsoInv, WarmFits, n

\* Steps that load nothing, or end a load without an instance.
LEMMA SameWarmFits ==
  ASSUME IsoInv, NEW i \in Runs, NEW q \in Run, q.pc # "loading", NEW f, f = [runs EXCEPT ![i] = q]
  PROVE  WarmFits(warm, f)
<1> DEFINE c == Cardinality(warm)
           l == Cardinality(LoadingRuns(runs))
           n == Cardinality(Runs)
<1>1. c \in Nat /\ c + l <= MaxWarmInstances + n - 1 /\ MaxWarmInstances \in Nat
  BY IsoAssumption, FS_CardinalityType DEF IsoInv, WarmFits
<1>2. Cardinality(LoadingRuns(f)) \in {l, l - 1} /\ n \in Nat /\ l \in Nat
  <2>1. runs \in [Runs -> Run]
    BY DEF IsoInv
  <2>2. CASE runs[i].pc = "loading"
    BY <2>1, <2>2, LoadingChanges, LoadingFinite
  <2>3. CASE runs[i].pc # "loading"
    <3>1. Cardinality(LoadingRuns(f)) = l
      BY <2>1, <2>3, LoadingChanges
    <3> QED BY <3>1, LoadingFinite
  <2> QED BY <2>2, <2>3
<1> HIDE DEF c, l, n
<1>3. c + Cardinality(LoadingRuns(f)) <= MaxWarmInstances + n - 1
  BY <1>1, <1>2
<1> QED BY <1>3 DEF IsoInv, WarmFits, n, c

\* The instance that was loaded replaces one of the same key, or is one more for one load less.
LEMMA LoadedFits ==
  ASSUME IsoInv, NEW i \in Runs, NEW q \in Run, runs[i].pc = "loading", q.pc # "loading",
         NEW a \in Bundles, NEW f, f = [runs EXCEPT ![i] = q]
  PROVE  WarmFits((warm \ WarmFor(a)) \cup {[key |-> WarmKey(a), code |-> a]}, f)
<1> DEFINE c == Cardinality(warm)
           l == Cardinality(LoadingRuns(runs))
           n == Cardinality(Runs)
           rest == warm \ WarmFor(a)
           one == [key |-> WarmKey(a), code |-> a]
<1>1. IsFiniteSet(warm) /\ c \in Nat /\ c + l <= MaxWarmInstances + n - 1 /\ MaxWarmInstances \in Nat
  BY IsoAssumption, FS_CardinalityType DEF IsoInv, WarmFits
<1>2. Cardinality(LoadingRuns(f)) = l - 1 /\ n \in Nat /\ l \in Nat
  BY LoadingChanges, LoadingFinite DEF IsoInv
<1>3. IsFiniteSet(rest) /\ Cardinality(rest) <= c /\ Cardinality(rest) \in Nat
  BY <1>1, FS_Subset, FS_CardinalityType
<1>4. one \notin rest
  BY DEF WarmFor, WarmKey
<1>5. rest \cup {one} \subseteq {w \in [key : Bundles, code : Bundles] : w.key = w.code}
  BY DEF IsoInv, WarmFits, WarmKey
<1> HIDE DEF c, l, n, rest, one
<1>6. IsFiniteSet(rest \cup {one}) /\ Cardinality(rest \cup {one}) = Cardinality(rest) + 1
  BY <1>3, <1>4, FS_AddElement
<1>7. Cardinality(rest \cup {one}) + Cardinality(LoadingRuns(f)) <= MaxWarmInstances + n - 1
  BY <1>1, <1>2, <1>3, <1>6
<1> QED BY <1>5, <1>6, <1>7 DEF WarmFits, n, rest, one

LEMMA StartStep ==
  ASSUME IsoInv, NEW i \in Runs, NEW a \in Bundles, StartRun(i, a) \/ Prewarm(i, a)
  PROVE  IsoInv'
<1>1. globals' = globals /\ fixed' = fixed /\ outside' = outside /\ disturbed' = disturbed /\ runs[i].pc = "idle"
  BY DEF StartRun, Prewarm, globalVars
<1>2. ASSUME NEW q, RunOK(q), q.pc \in {"secrets", "loading"}, runs' = [runs EXCEPT ![i] = q], WarmFits(warm', runs')
      PROVE  IsoInv'
  <2>1. q \in Run /\ ~Called(q) /\ ~Called(runs[i]) /\ q.pc # "orphan"
    BY <1>1, <1>2 DEF RunOK, Called
  <2>2. Undisturbed(runs', globals', Left', disturbed')
    BY <1>1, <1>2, <2>1, StillUndisturbed DEF Left
  <2>3. globals' \subseteq GlobalNames /\ disturbed' \in BOOLEAN /\ fixed' \subseteq globals' /\ outside' \subseteq globals'
    BY <1>1 DEF IsoInv
  <2> QED BY <1>2, <2>2, <2>3, RunReplaced
<1>3. ASSUME NEW w \in WarmFor(a), runs' = [runs EXCEPT ![i] = [IdleRun EXCEPT !.pc = "secrets", !.artifact = a, !.code = w.code]],
             warm' = warm
      PROVE  IsoInv'
  <2> DEFINE q == [IdleRun EXCEPT !.pc = "secrets", !.artifact = a, !.code = w.code]
  <2>1. w.code = a
    BY DEF WarmFor, WarmKey, IsoInv, WarmFits
  <2>2. q \in Run /\ q.pc = "secrets" /\ q.code = a /\ q.artifact = a /\ q.env = "none"
    BY <2>1, IdleRunOK DEF Run
  <2>3. RunOK(q)
    BY <2>2 DEF RunOK
  <2>4. runs' = [runs EXCEPT ![i] = q]
    BY <1>3
  <2> HIDE DEF q
  <2>5. WarmFits(warm', runs')
    BY <1>3, <2>2, <2>4, SameWarmFits
  <2> QED BY <1>2, <2>2, <2>3, <2>4, <2>5
<1>4. ASSUME NEW q, q \in {[IdleRun EXCEPT !.pc = "loading", !.artifact = a],
                           [IdleRun EXCEPT !.pc = "loading", !.artifact = a, !.prewarm = TRUE]},
             runs' = [runs EXCEPT ![i] = q], warm' \in Evictions
      PROVE  IsoInv'
  <2>1. q \in Run /\ q.pc = "loading" /\ q.env = "none"
    BY <1>4, IdleRunOK DEF Run
  <2>2. RunOK(q)
    BY <2>1 DEF RunOK
  <2>3. WarmFits(warm', runs')
    BY <1>1, <1>4, <2>1, EvictedFits
  <2> QED BY <1>2, <1>4, <2>1, <2>2, <2>3
<1> QED BY <1>3, <1>4 DEF StartRun, Prewarm

LEMMA LoadStep ==
  ASSUME IsoInv, NEW i \in Runs, Loaded(i) \/ LoadFails(i) \/ OrphanEnds(i)
  PROVE  IsoInv'
<1>1. /\ globals' = globals /\ fixed' = fixed /\ outside' = outside /\ disturbed' = disturbed
      /\ runs[i].pc \in {"loading", "orphan"} /\ RunOK(runs[i]) /\ runs[i] \in Run
  BY DEF Loaded, LoadFails, OrphanEnds, IsoInv, globalVars
<1>2. ASSUME NEW q, RunOK(q), q.pc \in {"idle", "secrets"}, runs' = [runs EXCEPT ![i] = q], WarmFits(warm', runs')
      PROVE  IsoInv'
  <2>1. q \in Run /\ ~Called(q) /\ ~Called(runs[i]) /\ q.pc # "orphan"
    BY <1>1, <1>2 DEF RunOK, Called
  <2>2. Undisturbed(runs', globals', Left', disturbed')
    BY <1>1, <1>2, <2>1, StillUndisturbed DEF Left
  <2>3. globals' \subseteq GlobalNames /\ disturbed' \in BOOLEAN /\ fixed' \subseteq globals' /\ outside' \subseteq globals'
    BY <1>1 DEF IsoInv
  <2> QED BY <1>2, <2>2, <2>3, RunReplaced
<1>3. CASE LoadFails(i) \/ OrphanEnds(i)
  <2>1. runs' = [runs EXCEPT ![i] = IdleRun] /\ warm' = warm
    BY <1>3 DEF LoadFails, OrphanEnds
  <2>2. WarmFits(warm', runs')
    BY <2>1, IdleRunOK, SameWarmFits
  <2> QED BY <1>2, <2>1, <2>2, IdleRunOK
<1>4. CASE Loaded(i)
  <2> DEFINE a == runs[i].artifact
             q == IF runs[i].prewarm THEN IdleRun ELSE [runs[i] EXCEPT !.pc = "secrets", !.code = a]
  <2>1. a \in Bundles /\ runs[i].pc = "loading" /\ runs[i].env # "held"
    BY <1>1, <1>4 DEF Loaded, Run, RunOK
  <2>2. CASE runs[i].prewarm
    <3>1. q = IdleRun
      BY <2>2
    <3>2. RunOK(q) /\ q.pc = "idle"
      BY <3>1, IdleRunOK
    <3>3. runs' = [runs EXCEPT ![i] = q] /\ warm' = (warm \ WarmFor(a)) \cup {[key |-> WarmKey(a), code |-> a]}
      BY <1>4 DEF Loaded
    <3> HIDE DEF q
    <3>4. WarmFits(warm', runs')
      BY <2>1, <3>2, <3>3, LoadedFits DEF RunOK
    <3> QED BY <1>2, <3>2, <3>3, <3>4
  <2>3. CASE ~runs[i].prewarm
    <3>1. q = [runs[i] EXCEPT !.pc = "secrets", !.code = a]
      BY <2>3
    <3>2. q \in Run /\ q.pc = "secrets" /\ q.code = a /\ q.artifact = a /\ q.env # "held"
      BY <1>1, <2>1, <3>1 DEF Run
    <3>3. runs' = [runs EXCEPT ![i] = q] /\ warm' = (warm \ WarmFor(a)) \cup {[key |-> WarmKey(a), code |-> a]}
      BY <1>4 DEF Loaded
    <3> HIDE DEF q
    <3>4. WarmFits(warm', runs')
      BY <2>1, <3>2, <3>3, LoadedFits
    <3>5. RunOK(q)
      BY <3>2 DEF RunOK
    <3> QED BY <1>2, <3>2, <3>3, <3>4, <3>5
  <2> QED BY <2>2, <2>3
<1> QED BY <1>3, <1>4

LEMMA CallStep ==
  ASSUME IsoInv, NEW i \in Runs, CallHandler(i)
  PROVE  IsoInv'
<1> DEFINE q == [runs[i] EXCEPT !.pc = "running", !.initial = globals, !.env = "held"]
<1>1. /\ runs[i].pc = "secrets" /\ RunOK(runs[i]) /\ globals' = globals /\ fixed' = fixed /\ outside' = outside
      /\ warm' = warm /\ globals \subseteq GlobalNames /\ fixed \subseteq globals /\ outside \subseteq globals
  BY DEF CallHandler, IsoInv, globalVars
<1>2. q \in Run /\ q.pc = "running" /\ q.env = "held" /\ q.initial = globals /\ q.code = q.artifact
  BY <1>1 DEF RunOK, Run
<1>3. RunOK(q)
  BY <1>2 DEF RunOK
<1>4. runs' = [runs EXCEPT ![i] = q]
  BY DEF CallHandler
<1> HIDE DEF q
<1>5. WarmFits(warm', runs')
  BY <1>1, <1>2, <1>4, SameWarmFits
<1>6. disturbed' \in BOOLEAN /\ (~disturbed' => ~disturbed /\ \A j \in Runs \ {i} : ~Called(runs[j]) /\ runs[j].pc # "orphan")
  BY DEF CallHandler, Alive, Called
<1>7. runs'[i] = q /\ \A j \in Runs : j # i => runs'[j] = runs[j]
  BY <1>4 DEF IsoInv
<1>8. ~Called(runs[i]) /\ Called(q) /\ q.pc # "orphan"
  BY <1>1, <1>2 DEF Called
<1>9. Undisturbed(runs', globals', Left', disturbed')
  <2>1. CASE disturbed'
    BY <2>1 DEF Undisturbed
  <2>2. CASE ~disturbed'
    <3>1. \A j \in Runs : ~Called(runs[j])
      BY <1>6, <1>8, <2>2
    <3>2. globals \subseteq Left'
      BY <1>1, <1>6, <2>2, <3>1 DEF IsoInv, Undisturbed, Left
    <3>3. \A j \in Runs : Called(runs'[j]) <=> j = i
      BY <1>7, <1>8, <3>1
    <3>4. \A j \in Runs : runs'[j].pc # "orphan"
      BY <1>6, <1>7, <1>8, <2>2
    <3> QED BY <1>2, <1>7, <3>2, <3>3, <3>4 DEF Undisturbed
  <2> QED BY <2>1, <2>2
<1> QED BY <1>1, <1>3, <1>4, <1>5, <1>6, <1>9, RunReplaced

LEMMA HandlerStep ==
  ASSUME IsoInv, NEW i \in Runs, UseBinding(i) \/ HandlerReturns(i)
  PROVE  IsoInv'
<1> DEFINE r == runs[i]
<1>1. /\ RunOK(r) /\ r \in Run /\ globals' = globals /\ fixed' = fixed /\ outside' = outside
      /\ disturbed' = disturbed /\ warm' = warm /\ r.pc \in {"running", "orphan"}
  BY DEF UseBinding, HandlerReturns, IsoInv, Alive, globalVars
<1>2. ASSUME NEW q, RunOK(q), runs' = [runs EXCEPT ![i] = q], q.pc = r.pc \/ (r.pc = "running" /\ q.pc = "body"),
             q.initial = r.initial
      PROVE  IsoInv'
  <2>1. q \in Run /\ q.pc # "loading"
    BY <1>1, <1>2 DEF RunOK
  <2>2. WarmFits(warm', runs')
    BY <1>1, <1>2, <2>1, SameWarmFits
  <2>3. Undisturbed(runs', globals', Left', disturbed')
    <3>1. CASE r.pc = "orphan"
      <4>1. disturbed
        BY <3>1 DEF IsoInv, Undisturbed
      <4> QED BY <1>1, <4>1 DEF Undisturbed
    <3>2. CASE r.pc = "running"
      <4>1. Called(q) /\ Called(runs[i]) /\ q.pc # "orphan"
        BY <1>2, <3>2 DEF Called
      <4> QED BY <1>1, <1>2, <2>1, <4>1, StillUndisturbed DEF Left
    <3> QED BY <1>1, <3>1, <3>2
  <2>4. globals' \subseteq GlobalNames /\ disturbed' \in BOOLEAN /\ fixed' \subseteq globals' /\ outside' \subseteq globals'
    BY <1>1 DEF IsoInv
  <2> QED BY <1>2, <2>2, <2>3, <2>4, RunReplaced
<1>3. CASE UseBinding(i)
  <2> DEFINE q == [r EXCEPT !.ops = RecordOp(i)]
  <2>1. RecordOp(i) \in 0..MaxOps
    BY <1>1, IsoAssumption DEF RecordOp, Run
  <2>2. /\ q \in Run /\ q.pc = r.pc /\ q.env = r.env /\ q.code = r.code /\ q.artifact = r.artifact
        /\ q.initial = r.initial
    BY <1>1, <2>1 DEF Run
  <2>3. RunOK(q)
    BY <1>1, <2>2 DEF RunOK
  <2>4. runs' = [runs EXCEPT ![i] = q]
    BY <1>3 DEF UseBinding
  <2> HIDE DEF q
  <2> QED BY <1>2, <2>2, <2>3, <2>4
<1>4. CASE HandlerReturns(i)
  <2> DEFINE q == [r EXCEPT !.pc = "body"]
  <2>1. r.pc = "running"
    BY <1>4 DEF HandlerReturns
  <2>2. /\ q \in Run /\ q.pc = "body" /\ q.env = r.env /\ q.code = r.code /\ q.artifact = r.artifact
        /\ q.initial = r.initial
    BY <1>1 DEF Run
  <2>3. RunOK(q)
    BY <1>1, <2>1, <2>2 DEF RunOK
  <2>4. runs' = [runs EXCEPT ![i] = q]
    BY <1>4 DEF HandlerReturns
  <2> HIDE DEF q
  <2> QED BY <1>2, <2>1, <2>2, <2>3, <2>4
<1> QED BY <1>3, <1>4

LEMMA EndStep ==
  ASSUME IsoInv, NEW i \in Runs, RunReturns(i) \/ DeadlinePasses(i)
  PROVE  IsoInv'
<1> DEFINE r == runs[i]
<1>1. /\ RunOK(r) /\ r \in Run /\ warm' = warm /\ Called(r) /\ globals' = (globals \cap r.initial) \cup fixed
      /\ fixed' = fixed /\ outside' = outside \cap globals'
      /\ globals' \subseteq GlobalNames /\ fixed' \subseteq globals' /\ outside' \subseteq globals'
  BY DEF RunReturns, DeadlinePasses, IsoInv, DeleteGlobals, KeptGlobals, Called
<1>2. CASE DeadlinePasses(i)
  <2> DEFINE q == [r EXCEPT !.pc = "orphan", !.env = "wiped"]
  <2>1. /\ q \in Run /\ q.pc = "orphan" /\ q.env = "wiped" /\ q.code = r.code /\ q.artifact = r.artifact
    BY <1>1 DEF Run
  <2>2. RunOK(q)
    BY <1>1, <2>1 DEF RunOK, Called
  <2>3. runs' = [runs EXCEPT ![i] = q]
    BY <1>2 DEF DeadlinePasses, CleanedUp
  <2>4. disturbed' = TRUE
    BY <1>2 DEF DeadlinePasses
  <2>5. Undisturbed(runs', globals', Left', disturbed')
    BY <2>4 DEF Undisturbed
  <2> HIDE DEF q
  <2>6. WarmFits(warm', runs')
    BY <1>1, <2>1, <2>3, SameWarmFits
  <2>7. disturbed' \in BOOLEAN
    BY <2>4
  <2> QED BY <1>1, <2>2, <2>3, <2>5, <2>6, <2>7, RunReplaced
<1>3. CASE RunReturns(i)
  <2> DEFINE q == [CleanedUp(i, "idle") EXCEPT !.ops = 0]
  <2>1. q \in Run /\ q.pc = "idle" /\ q.env = "wiped"
    <3>1. CleanedUp(i, "idle") \in Run /\ CleanedUp(i, "idle").pc = "idle" /\ CleanedUp(i, "idle").env = "wiped"
      BY <1>1 DEF Run, CleanedUp
    <3>2. 0 \in 0..MaxOps
      BY IsoAssumption
    <3> QED BY <3>1, <3>2 DEF Run
  <2>2. RunOK(q)
    BY <2>1 DEF RunOK
  <2>3. runs' = [runs EXCEPT ![i] = q] /\ disturbed' = disturbed
    BY <1>3 DEF RunReturns
  <2> HIDE DEF q
  <2>4. WarmFits(warm', runs')
    BY <1>1, <2>1, <2>3, SameWarmFits
  <2>5. runs'[i] = q /\ \A j \in Runs : j # i => runs'[j] = runs[j]
    BY <2>3 DEF IsoInv
  <2>6. Undisturbed(runs', globals', Left', disturbed')
    <3>1. CASE disturbed
      BY <2>3, <3>1 DEF Undisturbed
    <3>2. CASE ~disturbed
      <4>1. r.initial \subseteq Left /\ \A j \in Runs : Called(runs[j]) => j = i
        BY <1>1, <3>2 DEF IsoInv, Undisturbed
      <4>2. globals' \subseteq Left'
        BY <1>1, <4>1 DEF Left
      <4>3. \A j \in Runs : ~Called(runs'[j])
        BY <2>1, <2>5, <4>1 DEF Called
      <4>4. \A j \in Runs : runs'[j].pc # "orphan"
        BY <2>1, <2>5, <3>2 DEF IsoInv, Undisturbed
      <4> QED BY <4>2, <4>3, <4>4 DEF Undisturbed
    <3> QED BY <3>1, <3>2
  <2>7. disturbed' \in BOOLEAN
    BY <2>3 DEF IsoInv
  <2> QED BY <1>1, <2>2, <2>3, <2>4, <2>6, <2>7, RunReplaced
<1> QED BY <1>2, <1>3

\* Who is called and what it found are as before, and there is no less to find from outside.
LEMMA GlobalStep ==
  ASSUME IsoInv, NEW g \in GlobalNames, NEW c \in BOOLEAN,
         OtherCodeDefines(g, c) \/ \E i \in Runs : HandlerDefines(i, g, c)
  PROVE  IsoInv'
<1>1. /\ runs' = runs /\ warm' = warm /\ disturbed' = disturbed /\ globals' = globals \cup {g}
      /\ fixed \subseteq fixed' /\ fixed' \subseteq fixed \cup {g}
      /\ outside \subseteq outside' /\ outside' \subseteq outside \cup {g}
      /\ g \in outside' \/ \E i \in Runs : Called(runs[i])
  BY DEF OtherCodeDefines, HandlerDefines, Define
<1>2. Undisturbed(runs', globals', Left', disturbed')
  <2>1. CASE disturbed
    BY <1>1, <2>1 DEF Undisturbed
  <2>2. CASE ~disturbed
    <3>1. Left \subseteq Left' /\ (g \in Left' \/ \E i \in Runs : Called(runs[i]))
      BY <1>1 DEF Left
    <3> QED BY <1>1, <2>2, <3>1 DEF IsoInv, Undisturbed
  <2> QED BY <2>1, <2>2
<1> QED BY <1>1, <1>2 DEF IsoInv

LEMMA ClearStep ==
  ASSUME IsoInv, ClearWarm
  PROVE  IsoInv'
<1>1. /\ runs' = runs /\ warm' = {} /\ disturbed' = disturbed
      /\ globals' = globals /\ fixed' = fixed /\ outside' = outside
  BY DEF ClearWarm, globalVars
<1>2. Cardinality(LoadingRuns(runs)) \in Nat /\ Cardinality(Runs) \in Nat /\ Cardinality(warm) \in Nat
  BY LoadingFinite, FS_CardinalityType DEF IsoInv, WarmFits
<1>3. WarmFits({}, runs)
  BY <1>2, FS_EmptySet, IsoAssumption DEF IsoInv, WarmFits
<1> QED BY <1>1, <1>3 DEF IsoInv, Left

LEMMA IsoStep == IsoInv /\ [IsoNext]_isoVars => IsoInv'
<1> SUFFICES ASSUME IsoInv, [IsoNext]_isoVars PROVE IsoInv'
  OBVIOUS
<1>1. CASE UNCHANGED isoVars
  BY <1>1 DEF isoVars, IsoInv, Left
<1> QED BY <1>1, StartStep, LoadStep, CallStep, HandlerStep, EndStep, GlobalStep, ClearStep DEF IsoNext

LEMMA IsoStart == IsoInit => IsoInv
<1> SUFFICES ASSUME IsoInit PROVE IsoInv
  OBVIOUS
<1>1. runs \in [Runs -> Run] /\ \A i \in Runs : RunOK(runs[i]) /\ runs[i].pc = "idle"
  BY IdleRunOK DEF IsoInit
<1>2. LoadingRuns(runs) = {}
  BY <1>1 DEF LoadingRuns
<1>3. Cardinality(LoadingRuns(runs)) = 0 /\ Cardinality(Runs) \in Nat
  BY <1>2, FS_EmptySet, LoadingFinite
<1>4. WarmFits(warm, runs)
  BY <1>3, FS_EmptySet, IsoAssumption DEF IsoInit, WarmFits
<1>5. Undisturbed(runs, globals, Left, disturbed)
  BY <1>1 DEF Undisturbed, IsoInit, Called
<1>6. disturbed \in BOOLEAN /\ globals \subseteq GlobalNames /\ fixed \subseteq globals /\ outside \subseteq globals
  BY DEF IsoInit
<1> QED BY <1>1, <1>4, <1>5, <1>6 DEF IsoInv

LEMMA IsoPromises ==
  IsoInv => IsoTypeOK /\ RunsOwnRevision /\ WarmBounded /\ SecretsDieWithRun /\ GlobalsCleaned
<1> SUFFICES ASSUME IsoInv PROVE IsoTypeOK /\ RunsOwnRevision /\ WarmBounded /\ SecretsDieWithRun /\ GlobalsCleaned
  OBVIOUS
<1>1. \A w \in warm : w.code \in Bundles /\ \A x \in warm : x.key = w.key => x = w
  BY DEF IsoInv, WarmFits
<1>2. IsoTypeOK
  BY <1>1 DEF IsoTypeOK, IsoInv
<1>3. RunsOwnRevision /\ SecretsDieWithRun
  BY DEF IsoInv, RunOK, RunsOwnRevision, SecretsDieWithRun
<1>4. WarmBounded
  BY DEF IsoInv, WarmFits, LoadingRuns, WarmBounded
<1>5. GlobalsCleaned
  BY DEF IsoInv, Undisturbed, GlobalsCleaned, Left
<1> QED BY <1>2, <1>3, <1>4, <1>5

\* The local sandbox keeps its promises for any number of runs, revisions, warm instances and
\* invocations, in any order: each run calls the handler of its own revision, concurrent loads
\* pass maxWarmInstances by fewer than there are runs, no orphan has the environment, a
\* handler that had the process to itself leaves no configurable global property that it
\* defined, and a checked commit sees the invocation's own sets.
THEOREM LocalSandboxIsSafe == IsoSpec /\ LocalKvSpec => LocalSandboxSafe
<1>1. IsoInit => IsoInv
  BY IsoStart
<1>2. IsoInv /\ [IsoNext]_isoVars => IsoInv'
  BY IsoStep
<1>3. IsoInv => IsoTypeOK /\ RunsOwnRevision /\ WarmBounded /\ SecretsDieWithRun /\ GlobalsCleaned
  BY IsoPromises
<1>4. LocalKvInit => LocalKvInv
  BY LocalKvStart
<1>5. LocalKvInv /\ [LocalKvNext]_localKvVars => LocalKvInv' /\ [OwnWritesSeen]_localKvVars
  BY LocalKvStep
<1>6. LocalKvInv => LocalKvTypeOK
  BY DEF LocalKvInv, LocalKvTypeOK
<1> QED BY <1>1, <1>2, <1>3, <1>4, <1>5, <1>6, PTL DEF IsoSpec, LocalKvSpec, LocalSandboxSafe

----------------------------------------------------------------------------
(* The dispatch of requests: the artifact cache.                            *)

CacheEntry == {e \in [id : Artifacts, code : Artifacts] : e.code = e.id}

\* An entry holds the artifact it is found by.
CacheOK(c) == c \in Seq(CacheEntry) /\ Len(c) <= MaxArtifacts

PlaceIn(c, key) == SelectInSeq(c, LAMBDA e : e.id = key)

LEMMA FoundInCache ==
  ASSUME NEW c \in Seq(CacheEntry), NEW key, PlaceIn(c, key) > 0
  PROVE  PlaceIn(c, key) \in 1..Len(c) /\ c[PlaceIn(c, key)] = [id |-> key, code |-> key]
<1> DEFINE n == PlaceIn(c, key)
           I == {i \in 1..Len(c) : c[i].id = key}
<1>1. n = IF I # {} THEN Min(I) ELSE 0
  BY DEF SelectInSeq, PlaceIn
<1>0. n > 0
  OBVIOUS
<1> HIDE DEF n
<1>2. I # {} /\ I \in SUBSET Nat
  BY <1>0, <1>1
<1> HIDE DEF I
<1>3. \E j \in I : \A i \in I : j <= i
  BY <1>2, LeastNumber
<1>4. Min(I) \in I
  BY <1>3 DEF Min
<1>5. n \in I
  BY <1>1, <1>2, <1>4
<1>6. n \in 1..Len(c) /\ c[n].id = key
  BY <1>5 DEF I
<1>7. c[n] \in CacheEntry
  BY <1>6, ElementOfSeq
<1> QED BY <1>6, <1>7 DEF CacheEntry, n

LEMMA CacheWithin ==
  ASSUME NEW c \in Seq(CacheEntry), Len(c) <= MaxArtifacts
  PROVE  CacheOK(c)
BY DEF CacheOK

LEMMA CacheArtifactOK ==
  ASSUME CacheOK(artifactCache), NEW a \in Artifacts
  PROVE  CacheOK(CacheArtifact(a, a))
<1> DEFINE kept == IF Len(artifactCache) >= MaxArtifacts THEN Tail(artifactCache) ELSE artifactCache
           n == PlaceIn(kept, a)
           entry == [id |-> a, code |-> a]
<1>1. artifactCache \in Seq(CacheEntry) /\ Len(artifactCache) \in Nat /\ MaxArtifacts \in Nat \ {0} /\ Len(artifactCache) <= MaxArtifacts
  BY DispatchConstants, LenProperties DEF CacheOK
<1>2. kept \in Seq(CacheEntry) /\ Len(kept) \in Nat /\ Len(kept) < MaxArtifacts
  <2>1. CASE Len(artifactCache) >= MaxArtifacts
    <3>1. artifactCache # <<>>
      BY <1>1, <2>1, EmptySeq
    <3>2. Tail(artifactCache) \in Seq(CacheEntry) /\ Len(Tail(artifactCache)) = Len(artifactCache) - 1
      BY <1>1, <3>1, HeadTailProperties
    <3> QED BY <1>1, <2>1, <3>2
  <2>2. CASE ~(Len(artifactCache) >= MaxArtifacts)
    BY <1>1, <2>2
  <2> QED BY <2>1, <2>2
<1>3. entry \in CacheEntry
  BY DEF CacheEntry
<1>4. CacheArtifact(a, a) = IF n > 0 THEN [kept EXCEPT ![n].code = a] ELSE Append(kept, entry)
  BY DEF CacheArtifact, PlaceIn
<1> HIDE DEF kept
<1>5. n > 0 => n \in 1..Len(kept) /\ kept[n] = entry
  BY <1>2, FoundInCache
<1> HIDE DEF n, entry
<1>6. CASE n > 0
  <2>0. [entry EXCEPT !.code = a] = entry
    BY DEF entry
  <2>1. [kept EXCEPT ![n].code = a] = [kept EXCEPT ![n] = entry]
    BY <1>5, <1>6, <2>0
  <2>2. [kept EXCEPT ![n] = entry] \in Seq(CacheEntry) /\ Len([kept EXCEPT ![n] = entry]) = Len(kept)
    BY <1>2, <1>3, <1>5, <1>6, ExceptSeq
  <2>3. CacheArtifact(a, a) = [kept EXCEPT ![n] = entry]
    BY <1>4, <1>6, <2>1
  <2>4. Len([kept EXCEPT ![n] = entry]) <= MaxArtifacts
    BY <1>1, <1>2, <2>2
  <2> QED BY <2>2, <2>3, <2>4, CacheWithin
<1>7. CASE ~(n > 0)
  <2>1. Append(kept, entry) \in Seq(CacheEntry) /\ Len(Append(kept, entry)) = Len(kept) + 1
    BY <1>2, <1>3, AppendProperties
  <2>2. CacheArtifact(a, a) = Append(kept, entry)
    BY <1>4, <1>7
  <2>3. Len(Append(kept, entry)) <= MaxArtifacts
    BY <1>1, <1>2, <2>1
  <2> QED BY <2>1, <2>2, <2>3, CacheWithin
<1> QED BY <1>6, <1>7

----------------------------------------------------------------------------
(* The inductive invariant of the dispatch.                                 *)

\* Every snapshot, in use, polled or captured by a timer, is of the project it is kept for.
SnapshotsOK(sv, po, tm) ==
  /\ sv \in [Projects -> Snapshots] /\ sv[MainProject] # NoSnapshot
  /\ \A p \in Projects : sv[p] \in Artifacts => Owner[sv[p]] = p
  /\ po \in [project : Projects, snapshot : Snapshots, applied : BOOLEAN]
  /\ po.applied => po.snapshot \in Artifacts
  /\ po # NoPoll => po.snapshot # NoSnapshot
  /\ po.snapshot \in Artifacts => Owner[po.snapshot] = po.project
  /\ tm \subseteq Projects \X Artifacts
  /\ \A t \in tm : Owner[t[2]] = t[1]

\* A handler that fetches or runs has an artifact, of its project if it had a route of its
\* own, and until it runs it has no code.
HandlerOK(q) ==
  /\ q \in Handler
  /\ q.pc # "idle" /\ q.trigger = "http" => q.id \in RequestIds
  /\ q.pc = "admitted" => q.trigger = "http" /\ ~q.own
  /\ q.pc \in {"fetching", "running"} => q.artifact \in Artifacts
  /\ q.pc # "running" => q.code = Empty
  /\ q.pc = "running" => q.code \in {q.artifact, Empty}
  /\ q.pc # "idle" /\ q.own => Owner[q.artifact] = q.project

\* A request is not deeper than it counts, and its chain ch knows it.
ChainOK(q, ch) ==
  /\ q.nesting <= q.depth /\ q.depth < CallDepthMax
  /\ q.pc # "idle" /\ q.trigger = "http" => ch[q.id] >= q.depth + 1

DispatchInv ==
  /\ SnapshotsOK(served, polled, timers)
  /\ CacheOK(artifactCache)
  /\ chains \in [RequestIds -> 0..CallDepthMax]
  /\ handlers \in [Handlers -> Handler]
  /\ \A h \in Handlers : HandlerOK(handlers[h])
  /\ forgot \/ \A h \in Handlers : ChainOK(handlers[h], chains)
  /\ closed \in BOOLEAN /\ forgot \in BOOLEAN /\ updates \in 0..MaxUpdates

\* What a step of one handler has to show.
LEMMA HandlerReplaced ==
  ASSUME DispatchInv, NEW h \in Handlers, NEW q, HandlerOK(q), handlers' = [handlers EXCEPT ![h] = q],
         forgot \/ ChainOK(q, chains), CacheOK(artifactCache'),
         UNCHANGED <<served, timers, polled, updates, chains, closed, forgot>>
  PROVE  DispatchInv'
<1>1. q \in Handler
  BY DEF HandlerOK
<1>2. handlers' \in [Handlers -> Handler] /\ handlers'[h] = q /\ \A g \in Handlers : g # h => handlers'[g] = handlers[g]
  BY <1>1 DEF DispatchInv
<1>3. \A g \in Handlers : HandlerOK(handlers'[g])
  BY <1>2 DEF DispatchInv
<1>4. forgot' \/ \A g \in Handlers : ChainOK(handlers'[g], chains')
  BY <1>2 DEF DispatchInv
<1>5. SnapshotsOK(served', polled', timers') /\ chains' \in [RequestIds -> 0..CallDepthMax]
  BY DEF DispatchInv
<1>6. closed' \in BOOLEAN /\ forgot' \in BOOLEAN /\ updates' \in 0..MaxUpdates
  BY DEF DispatchInv
<1> QED BY <1>2, <1>3, <1>4, <1>5, <1>6 DEF DispatchInv

LEMMA IdleHandlerOK ==
  /\ HandlerOK(IdleHandler) /\ IdleHandler \in Handler
  /\ \A ch : ChainOK(IdleHandler, ch)
  /\ IdleHandler.pc = "idle" /\ IdleHandler.code = Empty /\ IdleHandler.own = FALSE
  /\ IdleHandler.nesting = 0 /\ IdleHandler.depth = 0
<1>1. 0 \in 0..CallDepthMax /\ 0 < CallDepthMax /\ MainProject \in Projects
  BY DispatchConstants
<1>2. IdleHandler \in Handler
  BY <1>1 DEF IdleHandler, Handler, Snapshots
<1>3. /\ IdleHandler.pc = "idle" /\ IdleHandler.code = Empty /\ IdleHandler.own = FALSE
      /\ IdleHandler.nesting = 0 /\ IdleHandler.depth = 0
  BY DEF IdleHandler
<1> QED BY <1>1, <1>2, <1>3 DEF HandlerOK, ChainOK

LEMMA EndsStep ==
  ASSUME DispatchInv, NEW h \in Handlers, handlers' = [handlers EXCEPT ![h] = IdleHandler],
         UNCHANGED <<served, timers, polled, updates, artifactCache, chains, closed, forgot>>
  PROVE  DispatchInv'
<1>1. CacheOK(artifactCache')
  BY DEF DispatchInv
<1> QED BY <1>1, IdleHandlerOK, HandlerReplaced

\* A run that is ready to begin: it has an artifact and no code yet.
Ready(run) ==
  /\ run \in Handler /\ run.artifact \in Artifacts /\ run.code = Empty
  /\ run.trigger = "http" => run.id \in RequestIds
  /\ run.own => Owner[run.artifact] = run.project

LEMMA BeginStep ==
  ASSUME DispatchInv, NEW h \in Handlers, NEW run, Ready(run), Begin(h, run),
         forgot \/ (/\ run.nesting <= run.depth /\ run.depth < CallDepthMax
                    /\ run.trigger = "http" => chains[run.id] >= run.depth + 1),
         UNCHANGED <<served, timers, polled, updates, artifactCache, chains, closed, forgot>>
  PROVE  DispatchInv' /\ handlers'[h].trigger = run.trigger /\ \A g \in Handlers : g # h => handlers'[g] = handlers[g]
<1> DEFINE n == CachedAt(CacheKey(run))
           c == artifactCache[n].code
           q == IF n > 0 THEN [run EXCEPT !.pc = "running", !.code = c] ELSE [run EXCEPT !.pc = "fetching"]
<1>1. CacheOK(artifactCache') /\ CacheOK(artifactCache)
  BY DEF DispatchInv
<1>2. n > 0 => c = run.artifact
  <2>1. n = PlaceIn(artifactCache, run.artifact)
    BY DEF CachedAt, CacheKey, PlaceIn
  <2>2. n > 0 => artifactCache[n] = [id |-> run.artifact, code |-> run.artifact]
    BY <1>1, <2>1, FoundInCache DEF CacheOK
  <2> QED BY <2>2
<1>3. handlers' = [handlers EXCEPT ![h] = q]
  BY DEF Begin
<1> HIDE DEF n, c
<1>4. /\ q \in Handler /\ q.trigger = run.trigger /\ q.id = run.id /\ q.own = run.own /\ q.artifact = run.artifact
      /\ q.project = run.project /\ q.nesting = run.nesting /\ q.depth = run.depth
      /\ (q.pc = "running" /\ q.code = run.artifact) \/ (q.pc = "fetching" /\ q.code = Empty)
  <2>1. CASE n > 0
    BY <1>2, <2>1 DEF Ready, Handler
  <2>2. CASE ~(n > 0)
    BY <2>2 DEF Ready, Handler
  <2> QED BY <2>1, <2>2
<1> HIDE DEF q
<1>5. q.own => run.own
  BY <1>4
<1>6. HandlerOK(q)
  BY <1>4, <1>5 DEF HandlerOK, Ready
<1>7. forgot \/ ChainOK(q, chains)
  BY <1>4 DEF ChainOK
<1>8. DispatchInv'
  BY <1>1, <1>3, <1>6, <1>7, HandlerReplaced
<1>9. handlers'[h] = q /\ \A g \in Handlers : g # h => handlers'[g] = handlers[g]
  BY <1>3 DEF DispatchInv
<1> QED BY <1>4, <1>8, <1>9

----------------------------------------------------------------------------
(* The depth of calls.                                                      *)

LEMMA ArriveStep ==
  ASSUME DispatchInv, NEW h \in Handlers, NEW id \in RequestIds, NEW header \in Nat, NEW nesting \in 0..CallDepthMax,
         NEW asked \in Projects \cup {Empty}, Arrive(h, id, header, nesting, asked),
         forgot \/ nesting <= TrackedDepth(id, header)
  PROVE  DispatchInv' /\ \A g \in Handlers : handlers'[g] = handlers[g] \/ handlers'[g].trigger = "http"
<1> DEFINE d == TrackedDepth(id, header)
           full == Cardinality(Known) >= MaxChains
           q == [IdleHandler EXCEPT !.pc = "admitted", !.id = id, !.nesting = nesting, !.asked = asked, !.depth = d]
<1>0. CallDepthMax \in Nat /\ chains[id] \in Nat /\ d \in Nat
  BY DispatchConstants DEF DispatchInv, TrackedDepth
<1>1. CASE d >= CallDepthMax
  BY <1>1 DEF Arrive, DispatchInv
<1>2. CASE ~(d >= CallDepthMax)
  <2>1. /\ chains' = Tracked(id, header) /\ forgot' = (forgot \/ full) /\ handlers' = [handlers EXCEPT ![h] = q]
        /\ UNCHANGED <<served, timers, polled, updates, artifactCache, closed>>
    BY <1>2 DEF Arrive
  <2>2. d \in 0..CallDepthMax /\ d + 1 \in 0..CallDepthMax /\ d < CallDepthMax
    BY <1>0, <1>2
  <2>3. /\ q \in Handler /\ q.pc = "admitted" /\ q.id = id /\ q.nesting = nesting /\ q.depth = d /\ q.trigger = "http"
        /\ q.own = FALSE /\ q.code = Empty
    BY <2>2, IdleHandlerOK DEF Handler, IdleHandler
  <2>4. HandlerOK(q)
    BY <2>3 DEF HandlerOK
  <2>5. chains' = [(IF full THEN [i \in RequestIds |-> 0] ELSE chains) EXCEPT ![id] = d + 1]
    BY <2>1 DEF Tracked
  <2>6. chains' \in [RequestIds -> 0..CallDepthMax] /\ chains'[id] = d + 1
    <3>1. (IF full THEN [i \in RequestIds |-> 0] ELSE chains) \in [RequestIds -> 0..CallDepthMax]
      BY <1>0 DEF DispatchInv
    <3> QED BY <2>2, <2>5, <3>1
  <2> HIDE DEF full
  <2>7. forgot' \in BOOLEAN /\ (~forgot' => ~forgot /\ ~full)
    BY <2>1
  <2>8. ~forgot' => \A i \in RequestIds : chains'[i] >= chains[i]
    <3> SUFFICES ASSUME ~forgot', NEW i \in RequestIds PROVE chains'[i] >= chains[i]
      OBVIOUS
    <3>1. chains' = [chains EXCEPT ![id] = d + 1] /\ chains[i] \in Nat
      BY <1>0, <2>5, <2>7 DEF DispatchInv
    <3>2. chains[id] <= d \/ chains[id] = 0
      BY <1>0 DEF TrackedDepth
    <3> QED BY <1>0, <3>1, <3>2 DEF DispatchInv
  <2> HIDE DEF q, d
  <2>9. handlers' \in [Handlers -> Handler] /\ handlers'[h] = q /\ \A g \in Handlers : g # h => handlers'[g] = handlers[g]
    BY <2>1, <2>3 DEF DispatchInv
  <2>10. forgot' \/ \A g \in Handlers : ChainOK(handlers'[g], chains')
    <3> SUFFICES ASSUME ~forgot', NEW g \in Handlers PROVE ChainOK(handlers'[g], chains')
      OBVIOUS
    <3>1. CASE g = h
      <4>1. nesting <= d
        BY <2>7 DEF d
      <4>2. chains'[id] >= d + 1
        BY <1>0, <2>2, <2>6
      <4> QED BY <2>2, <2>3, <2>9, <3>1, <4>1, <4>2 DEF ChainOK
    <3>2. CASE g # h
      <4> DEFINE r == handlers[g]
      <4>1. handlers'[g] = r /\ HandlerOK(r) /\ ChainOK(r, chains) /\ r \in Handler
        BY <2>7, <2>9, <3>2 DEF DispatchInv
      <4>2. ASSUME r.pc # "idle", r.trigger = "http" PROVE chains'[r.id] >= r.depth + 1
        <5>1. r.id \in RequestIds /\ chains[r.id] >= r.depth + 1
          BY <4>1, <4>2 DEF HandlerOK, ChainOK
        <5>2. chains'[r.id] >= chains[r.id] /\ chains[r.id] \in Nat /\ chains'[r.id] \in Nat /\ r.depth \in Nat
          BY <1>0, <2>6, <2>8, <4>1, <5>1 DEF DispatchInv, Handler
        <5> QED BY <5>1, <5>2
      <4> QED BY <4>1, <4>2 DEF ChainOK
    <3> QED BY <3>1, <3>2
  <2>11. \A g \in Handlers : HandlerOK(handlers'[g])
    BY <2>4, <2>9 DEF DispatchInv
  <2>12. SnapshotsOK(served', polled', timers') /\ CacheOK(artifactCache') /\ closed' \in BOOLEAN /\ updates' \in 0..MaxUpdates
    BY <2>1 DEF DispatchInv
  <2>13. DispatchInv'
    BY <2>6, <2>7, <2>9, <2>10, <2>11, <2>12 DEF DispatchInv
  <2> QED BY <2>3, <2>9, <2>13
<1> QED BY <1>1, <1>2

LEMMA ClientStep ==
  ASSUME DispatchInv, NEW h \in Handlers, NEW id \in RequestIds, NEW asked \in AskedProjects, ClientCalls(h, id, asked)
  PROVE  DispatchInv' /\ \A g \in Handlers : handlers'[g] = handlers[g] \/ handlers'[g].trigger = "http"
<1>1. 0 \in 0..CallDepthMax /\ asked \in Projects \cup {Empty} /\ 0 \in Nat
  BY DispatchConstants DEF AskedProjects
<1>2. 0 <= TrackedDepth(id, 0)
  BY DispatchConstants DEF DispatchInv, TrackedDepth
<1>3. Arrive(h, id, 0, 0, asked)
  BY DEF ClientCalls
<1> QED BY <1>1, <1>2, <1>3, ArriveStep

LEMMA FunctionStep ==
  ASSUME DispatchInv, NEW h \in Handlers, NEW caller \in Handlers, NEW asked \in AskedProjects, FunctionCalls(h, caller, asked)
  PROVE  DispatchInv' /\ \A g \in Handlers : handlers'[g] = handlers[g] \/ handlers'[g].trigger = "http"
<1> DEFINE r == handlers[caller]
<1>1. CASE r.trigger = "http"
  <2>1. r.pc = "running" /\ r.trigger = "http" /\ r.nesting < CallDepthMax /\ HandlerOK(r) /\ asked \in Projects \cup {Empty}
    BY <1>1 DEF FunctionCalls, DispatchInv, AskedProjects
  <2>2. /\ r.id \in RequestIds /\ r.nesting \in Nat /\ r.depth \in Nat /\ CallDepthMax \in Nat
        /\ chains \in [RequestIds -> 0..CallDepthMax]
    BY <2>1, DispatchConstants DEF HandlerOK, Handler, DispatchInv
  <2>3. r.nesting + 1 \in 0..CallDepthMax /\ r.depth + 1 \in Nat /\ 0 \in Nat
    BY <2>1, <2>2
  <2>4. forgot \/ (r.nesting <= r.depth /\ chains[r.id] >= r.depth + 1)
    BY <2>1 DEF DispatchInv, ChainOK
  <2>5. ASSUME NEW header \in {0, r.depth + 1}, Arrive(h, r.id, header, r.nesting + 1, asked)
        PROVE  DispatchInv' /\ \A g \in Handlers : handlers'[g] = handlers[g] \/ handlers'[g].trigger = "http"
    <3>1. header \in Nat
      BY <2>3
    <3>2. forgot \/ r.nesting + 1 <= TrackedDepth(r.id, header)
      <4>1. chains[r.id] \in Nat
        BY <2>2
      <4> QED BY <2>2, <2>4, <4>1 DEF TrackedDepth
    <3> QED BY <2>1, <2>2, <2>3, <2>5, <3>1, <3>2, ArriveStep
  <2>6. ASSUME NEW id \in RequestIds \ Known, Arrive(h, id, r.depth + 1, r.nesting + 1, asked)
        PROVE  DispatchInv' /\ \A g \in Handlers : handlers'[g] = handlers[g] \/ handlers'[g].trigger = "http"
    <3>1. forgot \/ r.nesting + 1 <= TrackedDepth(id, r.depth + 1)
      <4>1. ~(chains[id] > 0)
        BY DEF Known
      <4> QED BY <2>2, <2>4, <4>1 DEF TrackedDepth
    <3> QED BY <2>1, <2>3, <2>6, <3>1, ArriveStep
  <2> QED BY <1>1, <2>5, <2>6 DEF FunctionCalls
<1>2. CASE r.trigger # "http"
  <2>1. PICK id \in RequestIds, header \in {0, 1} : Arrive(h, id, header, 0, asked)
    BY <1>2 DEF FunctionCalls
  <2>2. 0 \in 0..CallDepthMax /\ asked \in Projects \cup {Empty} /\ header \in Nat
    BY DispatchConstants DEF AskedProjects
  <2>3. 0 <= TrackedDepth(id, header)
    BY <2>2, DispatchConstants DEF DispatchInv, TrackedDepth
  <2> QED BY <2>1, <2>2, <2>3, ArriveStep
<1> QED BY <1>1, <1>2

----------------------------------------------------------------------------
(* Routing, triggers and fetches.                                           *)

LEMMA ResolvedOwn ==
  ASSUME DispatchInv, NEW asked \in Projects \cup {Empty}, Resolved(asked).artifact \in Artifacts
  PROVE  /\ Resolved(asked).project \in Projects
         /\ asked = Empty \/ served[asked] \in Artifacts => Owner[Resolved(asked).artifact] = Resolved(asked).project
<1>1. MainProject \in Projects /\ NoRoute \notin Artifacts /\ Empty \notin Projects
  BY DispatchConstants
<1>2. \A p \in Projects : served[p] \in Artifacts => Owner[served[p]] = p
  BY DEF DispatchInv, SnapshotsOK
<1>3. CASE asked # Empty /\ served[asked] \in Artifacts
  <2>1. Resolved(asked) = [project |-> asked, artifact |-> served[asked]]
    BY <1>3 DEF Resolved
  <2> QED BY <1>2, <1>3, <2>1
<1>4. CASE ~(asked # Empty /\ served[asked] \in Artifacts) /\ served[MainProject] \in Artifacts
  <2>1. Resolved(asked) = [project |-> IF asked = Empty THEN MainProject ELSE asked, artifact |-> served[MainProject]]
    BY <1>4 DEF Resolved
  <2> QED BY <1>1, <1>2, <1>4, <2>1
<1>5. CASE ~(asked # Empty /\ served[asked] \in Artifacts) /\ served[MainProject] \notin Artifacts
  <2>1. CASE \E p \in Projects : served[p] \in Artifacts
    <3> DEFINE p == CHOOSE q \in Projects : served[q] \in Artifacts
    <3>1. p \in Projects /\ served[p] \in Artifacts
      BY <2>1
    <3>2. Resolved(asked) = [project |-> p, artifact |-> served[p]]
      BY <1>5, <2>1 DEF Resolved
    <3> HIDE DEF p
    <3> QED BY <1>2, <3>1, <3>2
  <2>2. CASE ~\E p \in Projects : served[p] \in Artifacts
    <3>1. Resolved(asked) = [project |-> MainProject, artifact |-> NoRoute]
      BY <1>5, <2>2 DEF Resolved
    <3> QED BY <1>1, <3>1
  <2> QED BY <2>1, <2>2
<1> QED BY <1>3, <1>4, <1>5

LEMMA RouteStep ==
  ASSUME DispatchInv, NEW h \in Handlers, Route(h)
  PROVE  DispatchInv' /\ \A g \in Handlers : handlers'[g] = handlers[g] \/ handlers'[g].trigger = "http"
<1> DEFINE r == handlers[h]
           found == Resolved(r.asked)
           ownRoute == r.asked = Empty \/ served[r.asked] \in Artifacts
           run == [r EXCEPT !.project = found.project, !.artifact = found.artifact, !.asked = Empty, !.own = ownRoute]
<1>1. /\ r.pc = "admitted" /\ HandlerOK(r) /\ r \in Handler /\ r.asked \in Projects \cup {Empty}
      /\ r.trigger = "http" /\ r.id \in RequestIds /\ r.code = Empty
      /\ UNCHANGED <<served, timers, polled, updates, artifactCache, chains, closed, forgot>>
  BY DEF Route, DispatchInv, HandlerOK, Handler
<1>2. CASE found.artifact \notin Artifacts
  <2>1. handlers' = [handlers EXCEPT ![h] = IdleHandler]
    BY <1>2 DEF Route
  <2>2. DispatchInv'
    BY <1>1, <2>1, EndsStep
  <2>3. \A g \in Handlers : handlers'[g] = handlers[g] \/ handlers'[g] = IdleHandler
    BY <2>1 DEF DispatchInv
  <2>4. IdleHandler.trigger = "http"
    BY DEF IdleHandler
  <2> QED BY <2>2, <2>3, <2>4
<1>3. CASE found.artifact \in Artifacts
  <2>1. found.project \in Projects /\ (ownRoute => Owner[found.artifact] = found.project)
    BY <1>1, <1>3, ResolvedOwn
  <2>2. Begin(h, run)
    BY <1>3 DEF Route
  <2>3. found.artifact \in Snapshots
    BY <1>3 DEF Snapshots
  <2> HIDE DEF found
  <2>4. ownRoute \in BOOLEAN
    OBVIOUS
  <2> HIDE DEF ownRoute
  <2>5. /\ run \in Handler /\ run.artifact = found.artifact /\ run.project = found.project /\ run.code = Empty
        /\ run.trigger = "http" /\ run.id = r.id /\ run.nesting = r.nesting /\ run.depth = r.depth /\ run.own = ownRoute
    BY <1>1, <2>1, <2>3, <2>4 DEF Handler
  <2> HIDE DEF run
  <2>6. run.own => ownRoute
    BY <2>5
  <2>7. Ready(run)
    BY <1>1, <1>3, <2>1, <2>5, <2>6 DEF Ready
  <2>8. forgot \/ ChainOK(r, chains)
    BY DEF DispatchInv
  <2>9. forgot \/ (/\ run.nesting <= run.depth /\ run.depth < CallDepthMax
                   /\ run.trigger = "http" => chains[run.id] >= run.depth + 1)
    BY <1>1, <2>5, <2>8 DEF ChainOK
  <2>10. DispatchInv' /\ handlers'[h].trigger = run.trigger /\ \A g \in Handlers : g # h => handlers'[g] = handlers[g]
    BY <1>1, <2>2, <2>7, <2>9, BeginStep
  <2> QED BY <2>5, <2>10
<1> QED BY <1>2, <1>3

\* A run that no request asked for.
LEMMA TriggerStep ==
  ASSUME DispatchInv, NEW h \in Handlers, NEW p \in Projects, NEW a \in Artifacts, NEW own \in BOOLEAN,
         own => Owner[a] = p, NEW how \in {"cron", "queue"},
         Begin(h, [IdleHandler EXCEPT !.trigger = how, !.project = p, !.artifact = a, !.own = own]),
         UNCHANGED <<served, timers, polled, updates, artifactCache, chains, closed, forgot>>
  PROVE  DispatchInv' /\ handlers'[h].trigger = how /\ \A g \in Handlers : g # h => handlers'[g] = handlers[g]
<1> DEFINE run == [IdleHandler EXCEPT !.trigger = how, !.project = p, !.artifact = a, !.own = own]
<1>1. /\ run \in Handler /\ run.artifact = a /\ run.project = p /\ run.code = Empty /\ run.trigger = how
      /\ run.nesting = 0 /\ run.depth = 0 /\ run.own = own
  BY IdleHandlerOK DEF Handler, Snapshots
<1>2. Begin(h, run)
  OBVIOUS
<1> HIDE DEF run
<1>3. run.own => own
  BY <1>1
<1>4. Ready(run)
  BY <1>1, <1>3 DEF Ready
<1>5. run.nesting <= run.depth /\ run.depth < CallDepthMax /\ run.trigger # "http"
  BY <1>1, DispatchConstants
<1> QED BY <1>1, <1>2, <1>4, <1>5, BeginStep

LEMMA CronFireDispatch ==
  ASSUME DispatchInv, NEW h \in Handlers, NEW t \in timers, CronFires(h, t)
  PROVE  DispatchInv' /\ ~closed
<1>1. t[1] \in Projects /\ t[2] \in Artifacts /\ Owner[t[2]] = t[1]
  BY DEF DispatchInv, SnapshotsOK
<1>2. Begin(h, [IdleHandler EXCEPT !.trigger = "cron", !.project = t[1], !.artifact = t[2], !.own = TRUE])
  BY DEF CronFires, CronRun
<1>3. UNCHANGED <<served, timers, polled, updates, artifactCache, chains, closed, forgot>> /\ ~closed
  BY DEF CronFires
<1>4. TRUE \in BOOLEAN /\ "cron" \in {"cron", "queue"}
  OBVIOUS
<1> QED BY <1>1, <1>2, <1>3, <1>4, TriggerStep

LEMMA QueueDispatchStep ==
  ASSUME DispatchInv, NEW h \in Handlers, NEW p \in Projects, QueueDispatch(h, p)
  PROVE  DispatchInv' /\ handlers'[h].trigger = "queue" /\ \A g \in Handlers : g # h => handlers'[g] = handlers[g]
<1> DEFINE s == IF served[p] = NoSnapshot THEN served[MainProject] ELSE served[p]
           own == served[p] # NoSnapshot
<1>1. s \in Artifacts
  BY DEF QueueDispatch
<1>2. own => Owner[s] = p
  BY <1>1 DEF DispatchInv, SnapshotsOK
<1>3. Begin(h, [IdleHandler EXCEPT !.trigger = "queue", !.project = p, !.artifact = s, !.own = own])
  BY DEF QueueDispatch
<1>4. UNCHANGED <<served, timers, polled, updates, artifactCache, chains, closed, forgot>>
  BY DEF QueueDispatch
<1>5. own \in BOOLEAN /\ "queue" \in {"cron", "queue"}
  OBVIOUS
<1> HIDE DEF s, own
<1> QED BY <1>1, <1>2, <1>3, <1>4, <1>5, TriggerStep

LEMMA FetchStep ==
  ASSUME DispatchInv, NEW h \in Handlers, Fetched(h) \/ FetchFails(h)
  PROVE  DispatchInv' /\ \A g \in Handlers : handlers'[g].trigger = handlers[g].trigger
<1> DEFINE r == handlers[h]
<1>1. /\ r.pc = "fetching" /\ HandlerOK(r) /\ r \in Handler /\ r.artifact \in Artifacts /\ r.code = Empty
      /\ UNCHANGED <<served, timers, polled, updates, chains, closed, forgot>>
      /\ CacheOK(artifactCache)
      /\ forgot \/ ChainOK(r, chains)
  BY DEF Fetched, FetchFails, DispatchInv, HandlerOK
<1>2. ASSUME NEW q, q \in {[r EXCEPT !.pc = "running", !.code = r.artifact], [r EXCEPT !.pc = "running"]},
             handlers' = [handlers EXCEPT ![h] = q], CacheOK(artifactCache')
      PROVE  DispatchInv' /\ \A g \in Handlers : handlers'[g].trigger = handlers[g].trigger
  <2>1. /\ q \in Handler /\ q.pc = "running" /\ q.trigger = r.trigger /\ q.id = r.id /\ q.own = r.own
        /\ q.artifact = r.artifact /\ q.project = r.project /\ q.nesting = r.nesting /\ q.depth = r.depth
        /\ q.code \in {r.artifact, Empty}
    BY <1>1, <1>2 DEF Handler
  <2>2. q.own => r.own
    BY <2>1
  <2>3. HandlerOK(q)
    BY <1>1, <2>1, <2>2 DEF HandlerOK
  <2>4. forgot \/ ChainOK(q, chains)
    BY <1>1, <2>1 DEF ChainOK
  <2>5. DispatchInv'
    BY <1>1, <1>2, <2>3, <2>4, HandlerReplaced
  <2>6. \A g \in Handlers : handlers'[g] = IF g = h THEN q ELSE handlers[g]
    BY <1>2 DEF DispatchInv
  <2> QED BY <2>1, <2>5, <2>6
<1>3. CASE Fetched(h)
  <2>1. CacheOK(artifactCache')
    BY <1>1, <1>3, CacheArtifactOK DEF Fetched, CacheKey
  <2>2. handlers' = [handlers EXCEPT ![h] = [r EXCEPT !.pc = "running", !.code = r.artifact]]
    BY <1>3 DEF Fetched, DispatchInv
  <2> QED BY <1>2, <2>1, <2>2
<1>4. CASE FetchFails(h)
  <2>1. CacheOK(artifactCache')
    BY <1>1, <1>4 DEF FetchFails
  <2>2. handlers' = [handlers EXCEPT ![h] = [r EXCEPT !.pc = "running"]]
    BY <1>4 DEF FetchFails, DispatchInv
  <2> QED BY <1>2, <2>1, <2>2
<1> QED BY <1>3, <1>4

----------------------------------------------------------------------------
(* Polls.                                                                   *)

LEMMA SnapshotsReplaced ==
  ASSUME DispatchInv, SnapshotsOK(served', polled', timers'), updates' \in 0..MaxUpdates, closed' \in BOOLEAN,
         CacheOK(artifactCache'), UNCHANGED <<chains, handlers, forgot>>
  PROVE  DispatchInv'
BY DEF DispatchInv

LEMMA NoPollShape ==
  /\ NoPoll \in [project : Projects, snapshot : Snapshots, applied : BOOLEAN]
  /\ NoPoll.snapshot = NoSnapshot /\ NoPoll.snapshot \notin Artifacts /\ ~NoPoll.applied
BY DispatchConstants DEF NoPoll, Snapshots

LEMMA PollStep ==
  ASSUME DispatchInv,
         \/ PollApplies \/ PrewarmEnds \/ CloseServer
         \/ \E p \in Projects : DropProject(p) \/ \E s \in Artifacts \cup {NoRoute} : PollAnswers(p, s)
  PROVE  DispatchInv' /\ handlers' = handlers
<1>0. /\ SnapshotsOK(served, polled, timers) /\ updates \in 0..MaxUpdates /\ closed \in BOOLEAN /\ MaxUpdates \in Nat
      /\ NoRoute \notin Artifacts /\ NoSnapshot \notin Artifacts /\ NoSnapshot # NoRoute /\ MainProject \in Projects
      /\ CacheOK(artifactCache)
  BY DispatchConstants DEF DispatchInv
<1>1. CASE PollApplies
  <2> DEFINE p == polled.project
             s == polled.snapshot
  <2>1. p \in Projects /\ s \in Snapshots /\ s # NoSnapshot /\ (s \in Artifacts => Owner[s] = p)
    BY <1>0, <1>1 DEF PollApplies, SnapshotsOK
  <2>2. /\ served' = [served EXCEPT ![p] = s]
        /\ polled' = NoPoll \/ (s \in Artifacts /\ polled' = [polled EXCEPT !.applied = TRUE])
        /\ timers' = {t \in timers : t[1] # p} \cup TimersOf(p, s)
        /\ UNCHANGED <<updates, artifactCache, chains, handlers, closed, forgot>>
    BY <1>1 DEF PollApplies
  <2>8. /\ polled' \in [project : Projects, snapshot : Snapshots, applied : BOOLEAN]
        /\ polled'.applied => polled'.snapshot \in Artifacts
        /\ polled' # NoPoll => polled'.snapshot # NoSnapshot
        /\ polled'.snapshot \in Artifacts => Owner[polled'.snapshot] = polled'.project
    <3>1. CASE polled' = NoPoll
      BY <3>1, NoPollShape
    <3>2. CASE s \in Artifacts /\ polled' = [polled EXCEPT !.applied = TRUE]
      <4>1. polled \in [project : Projects, snapshot : Snapshots, applied : BOOLEAN]
        BY <1>0 DEF SnapshotsOK
      <4>2. polled'.snapshot = s /\ polled'.project = p
        BY <3>2, <4>1
      <4>3. polled' \in [project : Projects, snapshot : Snapshots, applied : BOOLEAN]
        BY <3>2, <4>1
      <4> HIDE DEF p, s
      <4> QED BY <2>1, <3>2, <4>2, <4>3
    <3> QED BY <2>2, <3>1, <3>2
  <2> HIDE DEF p, s
  <2>3. served' \in [Projects -> Snapshots] /\ served'[MainProject] # NoSnapshot
    BY <1>0, <2>1, <2>2 DEF SnapshotsOK
  <2>4. \A x \in Projects : served'[x] \in Artifacts => Owner[served'[x]] = x
    BY <1>0, <2>1, <2>2 DEF SnapshotsOK
  <2>5. timers' \subseteq Projects \X Artifacts /\ \A t \in timers' : Owner[t[2]] = t[1]
    BY <1>0, <2>1, <2>2 DEF SnapshotsOK, TimersOf
  <2>6. SnapshotsOK(served', polled', timers')
    BY <2>3, <2>4, <2>5, <2>8 DEF SnapshotsOK
  <2>7. updates' \in 0..MaxUpdates /\ closed' \in BOOLEAN
    BY <1>0, <2>2
  <2> QED BY <1>0, <2>2, <2>6, <2>7, SnapshotsReplaced
<1>2. CASE CloseServer
  <2>1. SnapshotsOK(served', polled', timers')
    BY <1>0, <1>2 DEF CloseServer, SnapshotsOK
  <2>2. updates' \in 0..MaxUpdates /\ closed' \in BOOLEAN /\ UNCHANGED <<artifactCache, chains, handlers, forgot>>
    BY <1>0, <1>2 DEF CloseServer
  <2> QED BY <1>0, <2>1, <2>2, SnapshotsReplaced
<1>3. ASSUME NEW p \in Projects, DropProject(p) PROVE DispatchInv' /\ handlers' = handlers
  <2>0. /\ p # MainProject /\ served' = [served EXCEPT ![p] = NoSnapshot]
        /\ UNCHANGED <<timers, polled, updates, artifactCache, chains, handlers, closed, forgot>>
    BY <1>3 DEF DropProject
  <2>1. NoSnapshot \in Snapshots
    BY DEF Snapshots
  <2>2. served' \in [Projects -> Snapshots] /\ served'[MainProject] # NoSnapshot
    BY <1>0, <2>0, <2>1 DEF SnapshotsOK
  <2>3. \A x \in Projects : served'[x] \in Artifacts => Owner[served'[x]] = x
    BY <1>0, <2>0 DEF SnapshotsOK
  <2>4. SnapshotsOK(served', polled', timers')
    BY <1>0, <2>0, <2>2, <2>3 DEF SnapshotsOK
  <2>5. updates' \in 0..MaxUpdates /\ closed' \in BOOLEAN
    BY <1>0, <2>0
  <2> QED BY <1>0, <2>0, <2>4, <2>5, SnapshotsReplaced
<1>4. ASSUME NEW p \in Projects, NEW s \in Artifacts \cup {NoRoute}, PollAnswers(p, s) PROVE DispatchInv' /\ handlers' = handlers
  <2>0. /\ (s \in Artifacts => Owner[s] = p) /\ polled' = [project |-> p, snapshot |-> s, applied |-> FALSE] /\ updates' = updates + 1
        /\ updates < MaxUpdates /\ UNCHANGED <<served, timers, artifactCache, chains, handlers, closed, forgot>>
    BY <1>4 DEF PollAnswers
  <2>1. /\ polled' \in [project : Projects, snapshot : Snapshots, applied : BOOLEAN] /\ ~polled'.applied
        /\ polled'.snapshot = s /\ polled'.project = p /\ s # NoSnapshot
    BY <1>0, <2>0 DEF Snapshots
  <2>2. SnapshotsOK(served', polled', timers')
    BY <1>0, <2>0, <2>1 DEF SnapshotsOK
  <2>3. updates' \in 0..MaxUpdates /\ closed' \in BOOLEAN
    BY <1>0, <2>0
  <2> QED BY <1>0, <2>0, <2>2, <2>3, SnapshotsReplaced
<1>5. CASE PrewarmEnds
  <2> DEFINE s == polled.snapshot
  <2>1. /\ s \in Artifacts /\ polled' = NoPoll
        /\ artifactCache' = artifactCache \/ artifactCache' = CacheArtifact(s, s)
        /\ UNCHANGED <<served, timers, updates, chains, handlers, closed, forgot>>
    BY <1>0, <1>5 DEF PrewarmEnds, SnapshotsOK, CacheKey, Prewarmed
  <2> HIDE DEF s
  <2>2. CacheOK(artifactCache')
    BY <1>0, <2>1, CacheArtifactOK
  <2>3. SnapshotsOK(served', polled', timers')
    BY <1>0, <2>1, NoPollShape DEF SnapshotsOK
  <2> QED BY <1>0, <2>1, <2>2, <2>3, SnapshotsReplaced
<1> QED BY <1>1, <1>2, <1>3, <1>4, <1>5

----------------------------------------------------------------------------
LEMMA DispatchStep == DispatchInv /\ [DispatchNext]_dispatchVars => DispatchInv' /\ NoCronAfterClose
<1> SUFFICES ASSUME DispatchInv, [DispatchNext]_dispatchVars PROVE DispatchInv' /\ NoCronAfterClose
  OBVIOUS
<1>1. CASE UNCHANGED dispatchVars
  BY <1>1 DEF dispatchVars, DispatchInv, NoCronAfterClose
<1>2. CASE \/ PollApplies \/ PrewarmEnds \/ CloseServer
           \/ \E p \in Projects : DropProject(p) \/ \E s \in Artifacts \cup {NoRoute} : PollAnswers(p, s)
  BY <1>2, PollStep DEF NoCronAfterClose
<1>3. ASSUME NEW h \in Handlers,
             \/ \E asked \in AskedProjects :
                  \/ \E id \in RequestIds : ClientCalls(h, id, asked)
                  \/ \E caller \in Handlers : FunctionCalls(h, caller, asked)
             \/ Route(h)
      PROVE  DispatchInv' /\ NoCronAfterClose
  <2>1. DispatchInv' /\ \A g \in Handlers : handlers'[g] = handlers[g] \/ handlers'[g].trigger = "http"
    BY <1>3, ClientStep, FunctionStep, RouteStep
  <2> QED BY <2>1 DEF NoCronAfterClose
<1>4. ASSUME NEW h \in Handlers, Fetched(h) \/ FetchFails(h) PROVE DispatchInv' /\ NoCronAfterClose
  BY <1>4, FetchStep DEF NoCronAfterClose
<1>5. ASSUME NEW h \in Handlers, AnswersItself(h) \/ Refuse(h) \/ RunEnds(h) PROVE DispatchInv' /\ NoCronAfterClose
  <2>1. /\ handlers' = [handlers EXCEPT ![h] = IdleHandler]
        /\ UNCHANGED <<served, timers, polled, updates, artifactCache, chains, closed, forgot>>
    BY <1>5 DEF AnswersItself, Refuse, RunEnds
  <2>2. DispatchInv'
    BY <2>1, EndsStep
  <2>3. \A g \in Handlers : handlers'[g] = handlers[g] \/ handlers'[g] = IdleHandler
    BY <2>1 DEF DispatchInv
  <2> QED BY <2>2, <2>3, IdleHandlerOK DEF NoCronAfterClose
<1>6. ASSUME NEW h \in Handlers, NEW t \in timers, CronFires(h, t) PROVE DispatchInv' /\ NoCronAfterClose
  BY <1>6, CronFireDispatch DEF NoCronAfterClose
<1>7. ASSUME NEW h \in Handlers, NEW p \in Projects, QueueDispatch(h, p) PROVE DispatchInv' /\ NoCronAfterClose
  BY <1>7, QueueDispatchStep DEF NoCronAfterClose
<1> QED BY <1>1, <1>2, <1>3, <1>4, <1>5, <1>6, <1>7 DEF DispatchNext

LEMMA DispatchStart == DispatchInit => DispatchInv
<1> SUFFICES ASSUME DispatchInit PROVE DispatchInv
  OBVIOUS
<1>0. NoRoute \notin Artifacts /\ NoSnapshot \notin Artifacts /\ MainProject \in Projects /\ MaxUpdates \in Nat /\ CallDepthMax \in Nat /\ MaxArtifacts \in Nat
  BY DispatchConstants
<1>1. PICK a \in Artifacts : /\ Owner[a] = MainProject
                             /\ served = [p \in Projects |-> IF p = MainProject THEN a ELSE NoSnapshot]
                             /\ timers = TimersOf(MainProject, a)
  BY DEF DispatchInit
<1>2. SnapshotsOK(served, polled, timers)
  <2>1. served \in [Projects -> Snapshots] /\ served[MainProject] # NoSnapshot
    BY <1>0, <1>1 DEF Snapshots
  <2>2. \A p \in Projects : served[p] \in Artifacts => Owner[served[p]] = p
    BY <1>0, <1>1
  <2>3. timers = {<<MainProject, a>>}
    BY <1>1 DEF TimersOf
  <2>4. polled = NoPoll
    BY DEF DispatchInit
  <2> QED BY <1>0, <1>1, <2>1, <2>2, <2>3, <2>4, NoPollShape DEF SnapshotsOK
<1>3. CacheOK(artifactCache)
  BY <1>0, EmptySeq DEF DispatchInit, CacheOK
<1>4. chains \in [RequestIds -> 0..CallDepthMax]
  BY <1>0 DEF DispatchInit
<1>5. handlers \in [Handlers -> Handler] /\ \A h \in Handlers : HandlerOK(handlers[h]) /\ ChainOK(handlers[h], chains)
  BY IdleHandlerOK DEF DispatchInit
<1>6. closed \in BOOLEAN /\ forgot \in BOOLEAN
  BY DEF DispatchInit
<1>7. updates \in 0..MaxUpdates
  BY <1>0 DEF DispatchInit
<1> QED BY <1>2, <1>3, <1>4, <1>5, <1>6, <1>7 DEF DispatchInv

LEMMA DispatchPromises == DispatchInv => DispatchTypeOK /\ DepthBounded /\ RunsRoutedCode /\ OwnFunction
<1> SUFFICES ASSUME DispatchInv PROVE DispatchTypeOK /\ DepthBounded /\ RunsRoutedCode /\ OwnFunction
  OBVIOUS
<1>1. \A i \in DOMAIN artifactCache : artifactCache[i] \in [id : Artifacts \cup Projects, code : Artifacts]
  <2>1. \A i \in DOMAIN artifactCache : artifactCache[i] \in CacheEntry
    BY DEF DispatchInv, CacheOK
  <2> QED BY <2>1 DEF CacheEntry
<1>2. DispatchTypeOK
  BY <1>1 DEF DispatchInv, DispatchTypeOK, SnapshotsOK, CacheOK
<1>3. DepthBounded
  BY DEF DispatchInv, DepthBounded, ChainOK
<1>4. RunsRoutedCode /\ OwnFunction
  BY DEF DispatchInv, HandlerOK, RunsRoutedCode, OwnFunction
<1> QED BY <1>2, <1>3, <1>4

\* A request runs the code of the artifact it was routed to, a project with a route is served
\* by its own function, a chain of calls stays within the limit as long as the map of chains
\* was not cleared, and a closed server fires no cron: for any number of projects, artifacts,
\* requests in flight, polls and evictions (runtime-server.ts).
THEOREM DispatchIsSafe == DispatchSpec => DispatchSafe
<1>1. DispatchInit => DispatchInv
  BY DispatchStart
<1>2. DispatchInv /\ [DispatchNext]_dispatchVars => DispatchInv' /\ [NoCronAfterClose]_dispatchVars
  BY DispatchStep
<1>3. DispatchInv => DispatchTypeOK /\ DepthBounded /\ RunsRoutedCode /\ OwnFunction
  BY DispatchPromises
<1> QED BY <1>1, <1>2, <1>3, PTL DEF DispatchSpec, DispatchSafe
==============================================================================
