------------------------- MODULE ResilientProvider -------------------------
(***************************************************************************)
(* The resilient wrappers of the key-value, object and queue providers     *)
(* (providers/resilient/resilient-provider.ts) with their retry policy     *)
(* (packages/policy/retry.ts), over the circuit breaker they share.  One   *)
(* call of the breaker surrounds all attempts of an operation.             *)
(*                                                                         *)
(* A backend that does not answer in time may have performed the           *)
(* operation: the wrapper only sees the error.                             *)
(***************************************************************************)
EXTENDS CircuitBreaker

CONSTANTS MaxAttempts, BaseSleep, SleepCap,  \* of the retry policy
          Wrappers     \* the callers that are wrappers; others use the breaker themselves

\* No caller overrides DEFAULT_BASE_MS and DEFAULT_CAP_MS with a base above the cap:
\* the first sleep is the base, whatever the cap is.
ASSUME ResilientConstants ==
  /\ Wrappers \subseteq Callers
  /\ MaxAttempts \in Nat \ {0} /\ BaseSleep \in Nat \ {0} /\ SleepCap \in Nat \ {0}
  /\ BaseSleep <= SleepCap

VARIABLE work   \* caller -> the operation it has under way

resilientVars == <<breakerVars, work>>

\* How an operation is executed: with retries, or once.
Kinds == {"idempotent", "other"}

\* The methods of the three wrappers.  receive is repeated too: a message whose delivery
\* was lost waits for its visibility timeout.
KvMethods == [get |-> "idempotent", set |-> "other", delete |-> "other", list |-> "idempotent", commit |-> "other"]
ObjectMethods == [put |-> "other", get |-> "idempotent", delete |-> "other", head |-> "idempotent",
                  list |-> "idempotent", presign |-> "other", createMultipartUpload |-> "other"]
QueueMethods == [send |-> "other", sendBatch |-> "other", receive |-> "idempotent", ack |-> "other"]
MethodKinds == UNION {{KvMethods[m] : m \in DOMAIN KvMethods}, {ObjectMethods[m] : m \in DOMAIN ObjectMethods},
                      {QueueMethods[m] : m \in DOMAIN QueueMethods}}

Work == [kind : Kinds, attempt : 0..MaxAttempts - 1, lastSleep : 0..SleepCap,
         sleeping : BOOLEAN, performed : 0..MaxAttempts]
NewWork(kind) == [kind |-> kind, attempt |-> 0, lastSleep |-> 0, sleeping |-> FALSE, performed |-> 0]
NoWork == NewWork("idempotent")

\* The wrappers keep their types: in particular no sleep of the retry policy exceeds its
\* cap and no call makes more than MaxAttempts attempts.
ResilientTypeOK == BreakerTypeOK /\ work \in [Wrappers -> Work]

ResilientInit == BreakerInit /\ work = [c \in Wrappers |-> NoWork]

----------------------------------------------------------------------------
(* normalizeProviderError: the class of what the provider threw.  An error can   *)
(* show several signs at once; the first sign of the list decides.  An error of  *)
(* RailFog's own without any sign keeps its class, which is then its one sign.   *)

Signs == {"unavailable", "notFound", "timeout", "rateLimited", "conflict"}
SignOrder == <<"unavailable", "notFound", "timeout", "rateLimited", "conflict">>

ErrorClass(signs) ==
  IF signs = {} THEN "other"
  ELSE SignOrder[Min({i \in DOMAIN SignOrder : SignOrder[i] \in signs})]

Transient(signs) == ErrorClass(signs) \in {"unavailable", "timeout"}

\* Mutant of Retries: whatever the operation is, it is tried again.
RetriesAll(w, signs) == Transient(signs) /\ w.attempt + 1 < MaxAttempts

\* executeIdempotent: an attempt is repeated for a transient error only, and not
\* after the last one; executeNonIdempotent: never.
Retries(w, signs) ==
  w.kind = "idempotent" /\ Transient(signs) /\ w.attempt + 1 < MaxAttempts

\* Mutant of NextSleeps: the cap is forgotten.
NextSleepsUncapped(w) ==
  IF w.attempt = 0 THEN {BaseSleep} ELSE BaseSleep..Max({BaseSleep, 3 * w.lastSleep})

\* calculateNextSleep: decorrelated jitter.
NextSleeps(w) ==
  IF w.attempt = 0 THEN {BaseSleep}
  ELSE {Min({SleepCap, s}) : s \in BaseSleep..Max({BaseSleep, 3 * w.lastSleep})}

----------------------------------------------------------------------------
\* The breaker admits the call.
BeginCall(c, kind) ==
  /\ Admit(c)
  /\ work' = [work EXCEPT ![c] = NewWork(kind)]

Awake(c) == operations[c].pc = "running" /\ ~work[c].sleeping

\* How often the backend has performed the operation after one more attempt.
Performed(w, isDone) == IF isDone THEN w.performed + 1 ELSE w.performed

\* The last attempt is over.
Ended(w, isDone) ==
  [kind |-> w.kind, attempt |-> 0, lastSleep |-> 0, sleeping |-> FALSE,
   performed |-> Performed(w, isDone)]

\* The next attempt comes after a sleep of s.
Waiting(w, s, isDone) ==
  [kind |-> w.kind, attempt |-> w.attempt + 1, lastSleep |-> s, sleeping |-> TRUE,
   performed |-> Performed(w, isDone)]

OperationSucceeds(c) ==
  /\ Awake(c) /\ Succeed(c)
  /\ work' = [work EXCEPT ![c] = Ended(@, TRUE)]

\* The backend fails, or performs the operation and its answer is lost (isDone).
AttemptFails(c, signs, isDone) ==
  /\ Awake(c) /\ ~Retries(work[c], signs)
  /\ FailOperation(c)
  /\ work' = [work EXCEPT ![c] = Ended(@, isDone)]

\* Mutant of RetryLater: the attempts are not counted.
RetryLaterForever(c, signs, isDone) ==
  /\ Awake(c) /\ Retries(work[c], signs)
  /\ work' = [work EXCEPT ![c].performed = Performed(work[c], isDone), ![c].sleeping = TRUE]
  /\ UNCHANGED breakerVars

RetryLater(c, signs, isDone) ==
  /\ Awake(c) /\ Retries(work[c], signs)
  /\ \E s \in NextSleeps(work[c]) :
       work' = [work EXCEPT ![c] = Waiting(@, s, isDone)]
  /\ UNCHANGED breakerVars

SleepEnds(c) ==
  /\ work[c].sleeping
  /\ work' = [work EXCEPT ![c].sleeping = FALSE]
  /\ UNCHANGED breakerVars

BreakerStep(c) ==
  \/ ReadState(c) \/ FailFast(c) \/ Prepare(c) \/ Commit(c) \/ Conflict(c)

\* What was under way is gone once the call has returned.
WrapperBreakerStep(c) ==
  /\ BreakerStep(c) \/ KvError(c)
  /\ work' = [work EXCEPT ![c] = IF operations'[c].pc = "idle" THEN NoWork ELSE @]

\* An error with one sign or two; a lost answer looks like a timeout.
Errors == {s \in SUBSET Signs : Cardinality(s) <= 2}

Attempt(c) ==
  \/ OperationSucceeds(c)
  \/ \E signs \in Errors : AttemptFails(c, signs, FALSE) \/ RetryLater(c, signs, FALSE)
  \/ AttemptFails(c, {"timeout"}, TRUE) \/ RetryLater(c, {"timeout"}, TRUE)
  \/ SleepEnds(c)

WrapperStep(c) ==
  \/ Attempt(c) \/ WrapperBreakerStep(c)
  \/ \E kind \in MethodKinds : BeginCall(c, kind)

ResilientNext ==
  \/ \E c \in Wrappers : WrapperStep(c)
  \/ /\ \/ Tick
        \/ \E c \in Callers \ Wrappers : Step(c) \/ KvError(c) \/ Reset(c)
     /\ UNCHANGED work

ResilientSpec == ResilientInit /\ [][ResilientNext]_resilientVars

\* Callers keep calling, attempts and store accesses end, timers fire, time passes.
ResilientFairness ==
  /\ WF_resilientVars(Tick /\ UNCHANGED work)
  /\ \A c \in Wrappers : WF_resilientVars(WrapperStep(c))
  /\ \A c \in Callers \ Wrappers : WF_resilientVars(Step(c) /\ UNCHANGED work)

ResilientFairSpec == ResilientSpec /\ ResilientFairness

----------------------------------------------------------------------------
\* A call that writes changes the backend at most once, whatever answers are lost
\* and whatever the breaker does with the outcome.
WritesOnce == \A c \in Wrappers : work[c].kind = "other" => work[c].performed <= 1

\* A call is never stuck: its attempts and its sleeps are bounded, and the breaker
\* gets its one outcome.
CallsEnd == \A c \in Wrappers : operations[c].pc = "running" ~> operations[c].pc # "running"

\* Retries are safe: the sleeps between attempts keep to their cap, and a call with
\* side effects is sent once.
RetriesSafe == ResilientTypeOK /\ WritesOnce

\* Once the dependency is well again the circuit closes and every wrapped call ends.
CallsRecover == Recovers /\ CallsEnd
=============================================================================
