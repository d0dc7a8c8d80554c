------------------------------ MODULE Gateway ------------------------------
(***************************************************************************)
(* The ingress gateway (apps/gateway/gateway-server.ts) with its token     *)
(* buckets (apps/gateway/rate-limiter.ts, whose formulas and eviction are  *)
(* those of packages/policy/rate-limiter.ts).                              *)
(*                                                                         *)
(* Time is a number of ticks that never decreases; a bucket knows how long *)
(* ago it was used, up to the idle time after which it is evicted.  Tokens *)
(* are counted in fractions: Unit of them make the token a request costs.  *)
(***************************************************************************)
EXTENDS Integers, FiniteSetsExt

CONSTANTS Tiers,        \* key of a bucket -> its scope's rate (per tick) and burst
          AnonymousKey, IdentityKey, ProjectKey,
          Unit,         \* fractions in a token
          Second,       \* ticks in a second
          MaxIdle,      \* ticks after which an unused bucket is evicted
          Requests      \* requests handled at a time

Keys == {AnonymousKey, IdentityKey, ProjectKey}

\* The defaults (10/s and 20, 50/s and 100, 200/s and 400, evicted after 60 s)
\* fill a bucket long before it is evicted, and hold more than one request.
ASSUME GatewayConstants ==
  /\ Unit \in Nat \ {0} /\ Second \in Nat \ {0} /\ MaxIdle \in Nat
  /\ Tiers \in [Keys -> [rate : Nat \ {0}, burst : Nat \ {0}]]
  /\ \A k \in Keys : Tiers[k].rate * MaxIdle >= Tiers[k].burst /\ Tiers[k].burst >= Unit

VARIABLES
  buckets,    \* the limiter's map
  inFlight,   \* request -> where its handler is
  gateway,    \* whether the server accepts, drains or is closed
  ideal,      \* history: the tokens of a bucket that is never evicted
  promised    \* history: ticks until the Retry-After of a rejection has passed

gatewayVars == <<buckets, inFlight, gateway, ideal, promised>>

Absent == [tokens |-> 0, age |-> -1]
NoPromise == -1
Buckets(k) == [tokens : 0..Tiers[k].burst, age : 0..MaxIdle + 1]
Longest(k) == Second * ((Unit + Tiers[k].rate * Second - 1) \div (Tiers[k].rate * Second))

GatewayTypeOK ==
  /\ \A k \in Keys : /\ buckets[k] \in Buckets(k) \cup {Absent}
                     /\ ideal[k] \in Int
                     /\ promised[k] \in NoPromise..Longest(k)
  /\ inFlight \in [Requests -> {"none", "hashing", "hashing for project", "proxying"}]
  /\ gateway \in {"open", "closing", "closed"}

GatewayInit ==
  /\ buckets = [k \in Keys |-> Absent]
  /\ inFlight = [r \in Requests |-> "none"]
  /\ gateway = "open"
  /\ ideal = [k \in Keys |-> Tiers[k].burst]
  /\ promised = [k \in Keys |-> NoPromise]

----------------------------------------------------------------------------
(* MultiTenantRateLimiter.check *)

\* Mutant of Refilled: a rejected request loses what its bucket had gained.
RefilledLosing(b, k) ==
  IF b = Absent THEN Tiers[k].burst
  ELSE LET t == Min({Tiers[k].burst, b.tokens + Tiers[k].rate * b.age})
       IN  IF t < Unit THEN b.tokens ELSE t

\* A bucket nobody has used is full; one in use gained its rate since then.
Refilled(b, k) ==
  IF b = Absent THEN Tiers[k].burst
  ELSE Min({Tiers[k].burst, b.tokens + Tiers[k].rate * b.age})

RequestAllowed(b, k) == Refilled(b, k) >= Unit

CheckedBucket(b, k) ==
  [tokens |-> IF RequestAllowed(b, k) THEN Refilled(b, k) - Unit ELSE Refilled(b, k), age |-> 0]

\* Whole seconds until a token will be there.
RetryAfterSeconds(b, k) ==
  LET perSecond == Tiers[k].rate * Second
  IN  (Unit - Refilled(b, k) + perSecond - 1) \div perSecond

\* evaluateRateLimits: the identity tier comes before the project tier, which is
\* not asked when the first one rejects.
Reached(asked) ==
  {k \in asked : k = ProjectKey /\ IdentityKey \in asked => RequestAllowed(buckets[IdentityKey], IdentityKey)}

\* What an earlier tier took is not given back when a later one rejects.
Evaluate(asked) ==
  /\ buckets' = [k \in Keys |-> IF k \in Reached(asked) THEN CheckedBucket(buckets[k], k) ELSE buckets[k]]
  /\ ideal' = [k \in Keys |-> IF k \in Reached(asked) /\ RequestAllowed(buckets[k], k)
                                THEN ideal[k] - Unit ELSE ideal[k]]
  /\ promised' = [k \in Keys |->
       IF k \notin Reached(asked) THEN promised[k]
       ELSE IF RequestAllowed(buckets[k], k) THEN NoPromise
       ELSE LET wait == Second * RetryAfterSeconds(buckets[k], k)
            IN  IF promised[k] = NoPromise THEN wait ELSE Min({wait, promised[k]})]

\* A request that every tier allows goes upstream; another one gets a 429 at once.
AfterTiers(r, asked) ==
  inFlight' = [inFlight EXCEPT ![r] =
                 IF \A k \in asked : RequestAllowed(buckets[k], k) THEN "proxying" ELSE "none"]

----------------------------------------------------------------------------
\* A request without token and without project asks the tier of its address, one
\* with a project only the tier of the project, both before any await.
ArriveAnonymous(r, asked) ==
  /\ gateway = "open" /\ inFlight[r] = "none"
  /\ Evaluate(asked) /\ AfterTiers(r, asked)
  /\ UNCHANGED gateway

\* One with a token is hashed first, and other requests are handled meanwhile.
ArriveWithToken(r, withProject) ==
  /\ gateway = "open" /\ inFlight[r] = "none"
  /\ inFlight' = [inFlight EXCEPT ![r] = IF withProject THEN "hashing for project" ELSE "hashing"]
  /\ UNCHANGED <<buckets, gateway, ideal, promised>>

Hashed(r) ==
  LET asked == IF inFlight[r] = "hashing" THEN {IdentityKey} ELSE {IdentityKey, ProjectKey}
  IN  /\ inFlight[r] \in {"hashing", "hashing for project"}
      /\ Evaluate(asked) /\ AfterTiers(r, asked)
      /\ UNCHANGED gateway

\* The upstream answers, or the connection fails and the caller gets a 503.
ProxyEnds(r) ==
  /\ inFlight[r] = "proxying"
  /\ inFlight' = [inFlight EXCEPT ![r] = "none"]
  /\ UNCHANGED <<buckets, gateway, ideal, promised>>

\* Mutant of Prune: a bucket is evicted as soon as it is not used.
PruneAtOnce ==
  /\ gateway = "open"
  /\ buckets' = [k \in Keys |-> IF buckets[k].age >= 1 THEN Absent ELSE buckets[k]]
  /\ UNCHANGED <<inFlight, gateway, ideal, promised>>

\* The timer of the server evicts the buckets that were idle for too long.
Prune ==
  /\ gateway = "open"
  /\ buckets' = [k \in Keys |-> IF buckets[k].age > MaxIdle THEN Absent ELSE buckets[k]]
  /\ UNCHANGED <<inFlight, gateway, ideal, promised>>

\* reset: a key is forgiven what it used.
ResetKey(k) ==
  /\ buckets' = [buckets EXCEPT ![k] = Absent]
  /\ ideal' = [ideal EXCEPT ![k] = Tiers[k].burst]
  /\ UNCHANGED <<inFlight, gateway, promised>>

\* close: the timer is cleared, and the server is shut down once it is idle.
CloseGateway ==
  /\ \/ gateway = "open" /\ gateway' = "closing"
     \/ gateway = "closing" /\ (\A r \in Requests : inFlight[r] = "none") /\ gateway' = "closed"
  /\ UNCHANGED <<buckets, inFlight, ideal, promised>>

GatewayTick ==
  /\ gateway # "closed"
  /\ buckets' = [k \in Keys |-> IF buckets[k] = Absent THEN Absent
                                ELSE [buckets[k] EXCEPT !.age = Min({@ + 1, MaxIdle + 1})]]
  /\ ideal' = [k \in Keys |-> Min({Tiers[k].burst, ideal[k] + Tiers[k].rate})]
  /\ promised' = [k \in Keys |-> IF promised[k] > 0 THEN promised[k] - 1 ELSE promised[k]]
  /\ UNCHANGED <<inFlight, gateway>>

GatewayNext ==
  \/ Prune \/ CloseGateway \/ GatewayTick
  \/ \E k \in Keys : ResetKey(k)
  \/ \E r \in Requests :
       \/ \E k \in {AnonymousKey, ProjectKey} : ArriveAnonymous(r, {k})
       \/ \E withProject \in BOOLEAN : ArriveWithToken(r, withProject)
       \/ Hashed(r) \/ ProxyEnds(r)

GatewaySpec == GatewayInit /\ [][GatewayNext]_gatewayVars

----------------------------------------------------------------------------
\* A key never gets more than its burst and its rate allow, in whatever window:
\* it never overdraws a bucket that is not evicted, although the limiter forgets
\* idle buckets and starts them full again.
WithinRate == \A k \in Keys : ideal[k] >= 0

\* Once the Retry-After of a 429 has passed and nobody else has used the key, the
\* request is let through, though other requests were rejected meanwhile and the
\* bucket was evicted.
RetryAfterHonoured == \A k \in Keys : promised[k] = 0 => RequestAllowed(buckets[k], k)

\* The limiter neither lets a caller exceed its rate, though idle buckets are
\* evicted and start full, nor refuses one that waited as long as it was told.
GatewaySafe == GatewayTypeOK /\ WithinRate /\ RetryAfterHonoured
=============================================================================
