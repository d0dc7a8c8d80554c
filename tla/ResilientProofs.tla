-------------------------- MODULE ResilientProofs --------------------------
(***************************************************************************)
(* Proofs about CircuitBreaker and ResilientProvider, for every number of  *)
(* callers and every threshold, cooldown and retry policy.                 *)
(***************************************************************************)
EXTENDS ResilientProvider, TLAPS

\* The smaller of two numbers, as Min of the set that holds them.
LEMMA MinOfTwo ==
  ASSUME NEW a \in Int, NEW b \in Int
  PROVE  Min({a, b}) = IF a <= b THEN a ELSE b
BY SMT DEF Min

----------------------------------------------------------------------------
(* What the mutators of the record return.                                  *)

\* A failure is counted on top of the record it was computed from, and a closed
\* circuit stays below its threshold; any other outcome closes at zero.
Counted(call, latest) ==
  call.copy.state = "Closed" =>
    IF call.outcome = "failure"
      THEN /\ latest.state = "Closed"
           /\ call.copy.failures = latest.failures + 1
           /\ call.copy.failures < FailureThreshold
      ELSE call.copy.failures = 0

LEMMA MutationEffect ==
  ASSUME NEW latest \in Records, NEW call \in Calls,
         latest.state = "Closed" => latest.failures < FailureThreshold,
         Mutation(latest, call) # NoChange
  PROVE  /\ Mutation(latest, call) \in Records
         /\ Mutation(latest, call).state = "Closed" =>
              IF call.outcome = "failure"
                THEN /\ latest.state = "Closed"
                     /\ Mutation(latest, call).failures = latest.failures + 1
                     /\ Mutation(latest, call).failures < FailureThreshold
                ELSE Mutation(latest, call).failures = 0
<1> USE BreakerConstants DEF Records, States
<1>1. CASE call.outcome = "success"
  <2>1. Mutation(latest, call) = OnSuccess(latest, call.before)
    BY <1>1 DEF Mutation
  <2>2. OnSuccess(latest, call.before) # NoChange
    BY <2>1
  <2>3. OnSuccess(latest, call.before) \in Records
    BY <2>2 DEF OnSuccess
  <2>4. OnSuccess(latest, call.before).state = "Closed" =>
          OnSuccess(latest, call.before).failures = 0
    BY <2>2 DEF OnSuccess
  <2> QED BY <1>1, <2>1, <2>3, <2>4
<1>2. CASE call.outcome = "failure"
  <2>1. Mutation(latest, call) = OnFailure(latest, call.before)
    BY <1>2 DEF Mutation
  <2>2. OnFailure(latest, call.before) # NoChange
    BY <2>1
  <2>3. OnFailure(latest, call.before) \in Records
    BY <2>2 DEF OnFailure, Trial
  <2>4. OnFailure(latest, call.before).state = "Closed" =>
          /\ latest.state = "Closed"
          /\ OnFailure(latest, call.before).failures = latest.failures + 1
          /\ OnFailure(latest, call.before).failures < FailureThreshold
    BY <2>2 DEF OnFailure, Trial
  <2> QED BY <1>2, <2>1, <2>3, <2>4
<1>3. CASE call.outcome = "reset"
  BY <1>3 DEF Mutation
<1> QED BY <1>1, <1>2, <1>3 DEF Calls

\* Time only changes the age of a record.
LEMMA OlderEffect ==
  ASSUME NEW r \in Records
  PROVE  /\ Older(r) \in Records
         /\ Older(r).state = r.state /\ Older(r).failures = r.failures
<1>1. r.age \in Int /\ r.age + 1 \in Int /\ Cooldown \in Int
  BY BreakerConstants DEF Records
<1>2. Min({r.age + 1, Cooldown}) \in 0..Cooldown
  BY <1>1, MinOfTwo, BreakerConstants DEF Records
<1> QED BY <1>2 DEF Older, Records

----------------------------------------------------------------------------
(* The inductive invariant of the breaker.                                  *)

\* Compare-and-set lets a copy through only if the record it was computed from
\* is still there, so what holds of a current copy holds of the commit.
CopyInv ==
  \A c \in Callers :
    operations[c].pc = "committing" /\ operations[c].current => Counted(operations[c], record)

BreakerInv == BreakerTypeOK /\ BreakerSafe /\ CopyInv

LEMMA IdleCallerType == IdleCaller \in Calls /\ IdleCaller.pc = "idle"
BY BreakerConstants DEF IdleCaller, Calls, NoRecord, Records, States

LEMMA InitBreakerInv == BreakerInit => BreakerInv
<1>1. NoRecord \in Records
  BY BreakerConstants DEF NoRecord, Records, States
<1> QED
  BY <1>1, IdleCallerType, BreakerConstants
  DEF BreakerInit, BreakerInv, BreakerTypeOK, BreakerSafe, CountsEveryFailure, BelowThreshold,
      CopyInv, NoRecord

\* A caller that does not come to commit disturbs nothing.
LEMMA CallerMoves ==
  ASSUME BreakerInv, NEW c \in Callers, NEW k \in Calls,
         operations' = [operations EXCEPT ![c] = k],
         k.pc = "committing" /\ k.current => Counted(k, record),
         UNCHANGED <<record, run>>,
         tally' \in [failures : 0..MaxFailures, resets : 0..MaxResets, kvErrors : 0..MaxKvErrors]
  PROVE  BreakerInv'
<1>1. BreakerTypeOK'
  BY DEF BreakerInv, BreakerTypeOK
<1>2. CopyInv'
  BY DEF BreakerInv, BreakerTypeOK, CopyInv, Counted
<1> QED BY <1>1, <1>2 DEF BreakerInv, BreakerSafe, CountsEveryFailure, BelowThreshold

LEMMA StepBreakerInv == BreakerInv /\ [BreakerNext]_breakerVars => BreakerInv'
<1> SUFFICES ASSUME BreakerInv, [BreakerNext]_breakerVars PROVE BreakerInv'
  OBVIOUS
<1>0. /\ operations \in [Callers -> Calls] /\ record \in Records
      /\ tally \in [failures : 0..MaxFailures, resets : 0..MaxResets, kvErrors : 0..MaxKvErrors]
      /\ run \in 0..FailureThreshold
  BY DEF BreakerInv, BreakerTypeOK
<1>1. ASSUME NEW c \in Callers, ReadState(c) PROVE BreakerInv'
  <2> DEFINE k == [operations[c] EXCEPT !.pc = "read", !.copy = record]
  <2>1. operations' = [operations EXCEPT ![c] = k] /\ UNCHANGED <<record, run, tally>>
    BY <1>0, <1>1 DEF ReadState
  <2>2. k \in Calls /\ k.pc = "read"
    BY <1>0 DEF Calls
  <2> QED BY <1>0, <2>1, <2>2, CallerMoves
<1>2. ASSUME NEW c \in Callers, FailFast(c) PROVE BreakerInv'
  BY <1>0, <1>2, CallerMoves, IdleCallerType DEF FailFast
<1>3. ASSUME NEW c \in Callers, Admit(c) PROVE BreakerInv'
  <2> DEFINE k == [IdleCaller EXCEPT !.pc = "running", !.before = operations[c].copy.state]
  <2>1. operations' = [operations EXCEPT ![c] = k] /\ UNCHANGED <<record, run, tally>>
    BY <1>3 DEF Admit
  <2>2. k \in Calls /\ k.pc = "running"
    BY <1>0, IdleCallerType DEF Calls, Records
  <2> QED BY <1>0, <2>1, <2>2, CallerMoves
<1>4. ASSUME NEW c \in Callers, Succeed(c) PROVE BreakerInv'
  <2> DEFINE k == [operations[c] EXCEPT !.pc = "recording", !.outcome = "success"]
  <2>1. operations' = [operations EXCEPT ![c] = k] /\ UNCHANGED <<record, run, tally>>
    BY <1>0, <1>4 DEF Succeed
  <2>2. k \in Calls /\ k.pc = "recording"
    BY <1>0 DEF Calls
  <2> QED BY <1>0, <2>1, <2>2, CallerMoves
<1>5. ASSUME NEW c \in Callers, FailOperation(c) PROVE BreakerInv'
  <2> DEFINE k == [operations[c] EXCEPT !.pc = "recording", !.outcome = "failure"]
  <2>1. operations' = [operations EXCEPT ![c] = k] /\ UNCHANGED <<record, run>>
    BY <1>0, <1>5 DEF FailOperation
  <2>2. k \in Calls /\ k.pc = "recording"
    BY <1>0 DEF Calls
  <2>3. tally' \in [failures : 0..MaxFailures, resets : 0..MaxResets, kvErrors : 0..MaxKvErrors]
    BY <1>0, <1>5, BreakerConstants DEF FailOperation
  <2> QED BY <2>1, <2>2, <2>3, CallerMoves
<1>6. ASSUME NEW c \in Callers, Reset(c) PROVE BreakerInv'
  <2> DEFINE k == [operations[c] EXCEPT !.pc = "recording", !.outcome = "reset"]
  <2>1. operations' = [operations EXCEPT ![c] = k] /\ UNCHANGED <<record, run>>
    BY <1>0, <1>6 DEF Reset
  <2>2. k \in Calls /\ k.pc = "recording"
    BY <1>0 DEF Calls
  <2>3. tally' \in [failures : 0..MaxFailures, resets : 0..MaxResets, kvErrors : 0..MaxKvErrors]
    BY <1>0, <1>6, BreakerConstants DEF Reset
  <2> QED BY <2>1, <2>2, <2>3, CallerMoves
<1>7. ASSUME NEW c \in Callers, Prepare(c) PROVE BreakerInv'
  <2> DEFINE next == Mutation(record, operations[c])
             k == [operations[c] EXCEPT !.pc = "committing", !.copy = next, !.current = TRUE]
  <2>1. UNCHANGED <<record, run, tally>>
    BY <1>7 DEF Prepare
  <2>2. CASE next = NoChange
    BY <1>0, <1>7, <2>1, <2>2, CallerMoves, IdleCallerType DEF Prepare
  <2>3. CASE next # NoChange
    <3>1. operations' = [operations EXCEPT ![c] = k]
      BY <1>0, <1>7, <2>3 DEF Prepare
    <3>2. operations[c] \in Calls /\ (record.state = "Closed" => record.failures < FailureThreshold)
      BY <1>0 DEF BreakerInv, BreakerSafe, BelowThreshold
    <3>3. next \in Records
      BY <1>0, <2>3, <3>2, MutationEffect
    <3>4. next.state = "Closed" =>
            IF operations[c].outcome = "failure"
              THEN /\ record.state = "Closed"
                   /\ next.failures = record.failures + 1
                   /\ next.failures < FailureThreshold
              ELSE next.failures = 0
      BY <1>0, <2>3, <3>2, MutationEffect
    <3> HIDE DEF next
    <3>5. k \in Calls
      BY <3>2, <3>3 DEF Calls
    <3>6. k.copy = next /\ k.outcome = operations[c].outcome
      BY <3>2 DEF Calls
    <3>7. Counted(k, record)
      BY <3>4, <3>6 DEF Counted
    <3> QED BY <1>0, <2>1, <3>1, <3>5, <3>7, CallerMoves
  <2> QED BY <2>2, <2>3
<1>8. ASSUME NEW c \in Callers, Commit(c) PROVE BreakerInv'
  <2>1. /\ record' = operations[c].copy /\ UNCHANGED tally
        /\ run' = IF operations[c].outcome = "failure" THEN Min({run + 1, FailureThreshold}) ELSE 0
        /\ operations' = [x \in Callers |->
             IF x = c THEN IdleCaller ELSE [operations[x] EXCEPT !.current = FALSE]]
    BY <1>8 DEF Commit, Committed
  <2>2. Counted(operations[c], record) /\ operations[c] \in Calls
    BY <1>0, <1>8 DEF Commit, BreakerInv, CopyInv
  <2>3. Min({run + 1, FailureThreshold}) = IF run + 1 <= FailureThreshold THEN run + 1
                                                                   ELSE FailureThreshold
    BY <1>0, MinOfTwo, BreakerConstants
  <2>4. run' \in 0..FailureThreshold
    BY <1>0, <2>1, <2>3, BreakerConstants
  <2>5. record' \in Records
    BY <2>1, <2>2 DEF Calls
  <2>6. \A x \in Callers : operations'[x] \in Calls
    BY <1>0, <2>1, IdleCallerType DEF Calls
  <2>7. CopyInv'
    BY <1>0, <2>1, IdleCallerType DEF CopyInv, Calls
  <2>8. BreakerSafe'
    BY <1>0, <2>1, <2>2, <2>3, BreakerConstants
    DEF BreakerInv, BreakerSafe, CountsEveryFailure, BelowThreshold, Counted, Calls, Records
  <2> QED BY <1>0, <2>1, <2>4, <2>5, <2>6, <2>7, <2>8 DEF BreakerInv, BreakerTypeOK
<1>9. ASSUME NEW c \in Callers, Conflict(c) PROVE BreakerInv'
  <2> DEFINE k == [operations[c] EXCEPT !.pc = "recording"]
  <2>1. operations' = [operations EXCEPT ![c] = k] /\ UNCHANGED <<record, run, tally>>
    BY <1>0, <1>9 DEF Conflict
  <2>2. k \in Calls /\ k.pc = "recording"
    BY <1>0 DEF Calls
  <2> QED BY <1>0, <2>1, <2>2, CallerMoves
<1>10. ASSUME NEW c \in Callers, KvError(c) PROVE BreakerInv'
  <2> DEFINE failed == [operations[c] EXCEPT !.pc = "recording", !.outcome = "failure"]
  <2>1. /\ UNCHANGED <<record, run>>
        /\ tally' \in [failures : 0..MaxFailures, resets : 0..MaxResets, kvErrors : 0..MaxKvErrors]
    BY <1>0, <1>10, BreakerConstants DEF KvError
  <2>2. failed \in Calls /\ failed.pc = "recording"
    BY <1>0 DEF Calls
  <2>3. \/ UNCHANGED operations
        \/ operations' = [operations EXCEPT ![c] = failed]
        \/ operations' = [operations EXCEPT ![c] = IdleCaller]
    BY <1>10 DEF KvError
  <2>4. CASE UNCHANGED operations
    BY <2>1, <2>4 DEF BreakerInv, BreakerTypeOK, BreakerSafe, CountsEveryFailure, BelowThreshold,
       CopyInv
  <2> QED BY <2>1, <2>2, <2>3, <2>4, CallerMoves, IdleCallerType
<1>11. CASE Tick
  <2>1. /\ record' = Older(record) /\ UNCHANGED <<run, tally>>
        /\ operations' = [c \in Callers |-> [operations[c] EXCEPT !.copy = Older(operations[c].copy)]]
    BY <1>11 DEF Tick
  <2>2. /\ record' \in Records
        /\ record'.state = record.state /\ record'.failures = record.failures
    BY <1>0, <2>1, OlderEffect
  <2>3. ASSUME NEW c \in Callers
        PROVE  /\ operations'[c] \in Calls
               /\ operations'[c].copy.state = operations[c].copy.state
               /\ operations'[c].copy.failures = operations[c].copy.failures
               /\ operations'[c].pc = operations[c].pc
               /\ operations'[c].outcome = operations[c].outcome
               /\ operations'[c].current = operations[c].current
    <3> DEFINE copy == Older(operations[c].copy)
    <3>1. /\ copy \in Records /\ copy.state = operations[c].copy.state
          /\ copy.failures = operations[c].copy.failures
      BY <1>0, OlderEffect DEF Calls
    <3>2. operations'[c] = [operations[c] EXCEPT !.copy = copy]
      BY <2>1
    <3> HIDE DEF copy
    <3> QED BY <1>0, <3>1, <3>2 DEF Calls
  <2>4. CopyInv'
    BY <2>2, <2>3 DEF BreakerInv, CopyInv, Counted
  <2> QED BY <1>0, <2>1, <2>2, <2>3, <2>4
          DEF BreakerInv, BreakerTypeOK, BreakerSafe, CountsEveryFailure, BelowThreshold
<1>12. CASE UNCHANGED breakerVars
  BY <1>12 DEF breakerVars, BreakerInv, BreakerTypeOK, BreakerSafe, CountsEveryFailure,
     BelowThreshold, CopyInv
<1> QED
  BY <1>1, <1>2, <1>3, <1>4, <1>5, <1>6, <1>7, <1>8, <1>9, <1>10, <1>11, <1>12
  DEF BreakerNext, Step

\* However many callers race for the breaker's record, no failure is lost to a
\* concurrent update and a closed circuit is below its threshold.
THEOREM BreakerCounts == BreakerSpec => []BreakerSafe
<1>1. BreakerInv => BreakerSafe
  BY DEF BreakerInv
<1> QED BY <1>1, InitBreakerInv, StepBreakerInv, PTL DEF BreakerSpec

----------------------------------------------------------------------------
(* The wrappers: what they do to the breaker is what the breaker allows.     *)

\* Every method is executed in one of the two ways.
LEMMA MethodsHaveKinds == MethodKinds \subseteq Kinds
<1>1. \A m \in DOMAIN KvMethods : KvMethods[m] \in Kinds
  BY DEF KvMethods, Kinds
<1>2. \A m \in DOMAIN ObjectMethods : ObjectMethods[m] \in Kinds
  BY DEF ObjectMethods, Kinds
<1>3. \A m \in DOMAIN QueueMethods : QueueMethods[m] \in Kinds
  BY DEF QueueMethods, Kinds
<1> QED BY <1>1, <1>2, <1>3 DEF MethodKinds

LEMMA StepSimulates == [ResilientNext]_resilientVars => [BreakerNext]_breakerVars
<1> SUFFICES ASSUME [ResilientNext]_resilientVars PROVE [BreakerNext]_breakerVars
  OBVIOUS
<1>1. ASSUME NEW c \in Wrappers, WrapperStep(c) PROVE [BreakerNext]_breakerVars
  <2>0. c \in Callers
    BY ResilientConstants
  <2>1. CASE \E kind \in MethodKinds : BeginCall(c, kind)
    BY <2>0, <2>1 DEF BeginCall, BreakerNext, Step
  <2>2. CASE WrapperBreakerStep(c)
    BY <2>0, <2>2 DEF WrapperBreakerStep, BreakerStep, BreakerNext, Step
  <2>3. CASE OperationSucceeds(c)
    BY <2>0, <2>3 DEF OperationSucceeds, BreakerNext, Step
  <2>4. ASSUME NEW signs, NEW isDone, AttemptFails(c, signs, isDone) PROVE BreakerNext
    BY <2>0, <2>4 DEF AttemptFails, BreakerNext, Step
  <2>5. ASSUME NEW signs, NEW isDone, RetryLater(c, signs, isDone) PROVE UNCHANGED breakerVars
    BY <2>5 DEF RetryLater
  <2>6. CASE SleepEnds(c)
    BY <2>6 DEF SleepEnds
  <2> QED BY <1>1, <2>1, <2>2, <2>3, <2>4, <2>5, <2>6 DEF WrapperStep, Attempt
<1>2. CASE (Tick \/ \E c \in Callers \ Wrappers : Step(c) \/ KvError(c) \/ Reset(c))
  BY <1>2 DEF BreakerNext
<1>3. CASE UNCHANGED resilientVars
  BY <1>3 DEF resilientVars
<1> QED BY <1>1, <1>2, <1>3 DEF ResilientNext

\* The resilient wrappers use the breaker as it is meant to be used: whatever they
\* do is a behaviour of the breaker's own specification.
THEOREM WrappersUseBreaker == ResilientSpec => BreakerSpec
<1>1. ResilientInit => BreakerInit
  BY DEF ResilientInit
<1> QED BY <1>1, StepSimulates, PTL DEF ResilientSpec, BreakerSpec

\* The breaker counts right under the wrappers and their retries as well.
THEOREM WrappedBreakerCounts == ResilientSpec => []BreakerSafe
BY WrappersUseBreaker, BreakerCounts, PTL

----------------------------------------------------------------------------
(* Retries.                                                                  *)

\* The larger of two numbers, as Max of the set that holds them.
LEMMA MaxOfTwo ==
  ASSUME NEW a \in Int, NEW b \in Int
  PROVE  Max({a, b}) = IF a >= b THEN a ELSE b
BY SMT DEF Max

\* The jitter of calculateNextSleep stays under the cap.
LEMMA SleepsCapped ==
  ASSUME NEW w \in Work
  PROVE  NextSleeps(w) \subseteq 0..SleepCap
<1> USE ResilientConstants
<1>1. CASE w.attempt = 0
  BY <1>1 DEF NextSleeps
<1>2. CASE w.attempt # 0
  <2>1. Max({BaseSleep, 3 * w.lastSleep}) \in Int
    BY MaxOfTwo DEF Work
  <2>2. ASSUME NEW s \in BaseSleep..Max({BaseSleep, 3 * w.lastSleep})
        PROVE  Min({SleepCap, s}) \in 0..SleepCap
    <3>1. s \in Nat
      BY <2>1, <2>2
    <3> QED BY <3>1, MinOfTwo
  <2> QED BY <1>2, <2>2 DEF NextSleeps
<1> QED BY <1>1, <1>2

LEMMA NewWorkType ==
  ASSUME NEW kind \in Kinds
  PROVE  NewWork(kind) \in Work /\ NewWork(kind).performed = 0 /\ NewWork(kind).attempt = 0
BY ResilientConstants DEF NewWork, Work

\* While a call runs it has performed its operation at most once per attempt that
\* is over, and one with side effects has had no attempt yet.
WorkInv ==
  /\ work \in [Wrappers -> Work]
  /\ \A c \in Wrappers : operations[c].pc = "running" =>
       /\ work[c].performed <= work[c].attempt
       /\ work[c].kind = "other" => work[c].attempt = 0
  /\ WritesOnce

ResilientInv == BreakerInv /\ WorkInv

\* A step of the breaker moves one caller.
LEMMA OthersStay ==
  ASSUME BreakerTypeOK, NEW c \in Callers, Step(c) \/ Reset(c) \/ KvError(c)
  PROVE  \A x \in Callers \ {c} : operations'[x].pc = operations[x].pc
<1>0. operations \in [Callers -> Calls]
  BY DEF BreakerTypeOK
<1>1. CASE Commit(c)
  BY <1>0, <1>1 DEF Commit, Committed, Calls
<1>2. CASE ReadState(c) \/ FailFast(c) \/ Admit(c) \/ Succeed(c) \/ FailOperation(c) \/ Reset(c)
  BY <1>0, <1>2 DEF ReadState, FailFast, Admit, Succeed, FailOperation, Reset
<1>3. CASE Prepare(c) \/ Conflict(c)
  BY <1>0, <1>3 DEF Prepare, Conflict
<1>4. CASE KvError(c)
  BY <1>0, <1>4 DEF KvError
<1> QED BY <1>1, <1>2, <1>3, <1>4 DEF Step

\* The work of one wrapper changes, and the others go on.
LEMMA WrapperMoves ==
  ASSUME WorkInv, NEW c \in Wrappers, NEW k \in Work,
         work' = [work EXCEPT ![c] = k],
         \A x \in Wrappers \ {c} : operations'[x].pc = operations[x].pc,
         operations'[c].pc = "running" =>
           k.performed <= k.attempt /\ (k.kind = "other" => k.attempt = 0),
         k.kind = "other" => k.performed <= 1
  PROVE  WorkInv'
<1>1. work' \in [Wrappers -> Work] /\ work'[c] = k /\ \A x \in Wrappers \ {c} : work'[x] = work[x]
  BY DEF WorkInv
<1> QED BY <1>1 DEF WorkInv, WritesOnce

LEMMA StepWorkInv ==
  ASSUME BreakerTypeOK, WorkInv, [ResilientNext]_resilientVars
  PROVE  WorkInv'
<1> USE ResilientConstants
<1>0. /\ operations \in [Callers -> Calls] /\ work \in [Wrappers -> Work]
      /\ \A c \in Wrappers : work[c] \in Work /\ c \in Callers
  BY DEF BreakerTypeOK, WorkInv
<1>1. ASSUME NEW c \in Wrappers, NEW kind \in MethodKinds, BeginCall(c, kind) PROVE WorkInv'
  <2>0. kind \in Kinds
    BY MethodsHaveKinds
  <2> DEFINE k == NewWork(kind)
  <2>1. /\ k \in Work /\ k.attempt = 0
        /\ k.performed <= k.attempt /\ k.performed <= 1
    BY <2>0, NewWorkType
  <2>2. work' = [work EXCEPT ![c] = k] /\ Admit(c)
    BY <1>1 DEF BeginCall
  <2>3. \A x \in Wrappers \ {c} : operations'[x].pc = operations[x].pc
    BY <1>0, <2>2, OthersStay DEF Step
  <2> HIDE DEF k
  <2> QED BY <2>1, <2>2, <2>3, WrapperMoves
<1>2. ASSUME NEW c \in Wrappers, OperationSucceeds(c) PROVE WorkInv'
  <2> DEFINE k == Ended(work[c], TRUE)
  <2>1. /\ operations[c].pc = "running" /\ Succeed(c)
        /\ work' = [work EXCEPT ![c] = k]
    BY <1>0, <1>2 DEF OperationSucceeds, Awake
  <2>2. operations'[c].pc # "running"
    BY <1>0, <2>1 DEF Succeed, Calls
  <2>3. /\ work[c].performed + 1 <= MaxAttempts
        /\ work[c].kind = "other" => work[c].performed + 1 <= 1
    BY <1>0, <2>1 DEF WorkInv, Work
  <2>4. k \in Work
    BY <1>0, <2>3 DEF Work, Ended, Performed
  <2>5. k.kind = work[c].kind /\ k.performed = work[c].performed + 1
    BY DEF Ended, Performed
  <2>6. \A x \in Wrappers \ {c} : operations'[x].pc = operations[x].pc
    BY <1>0, <2>1, OthersStay DEF Step
  <2> HIDE DEF k
  <2> QED BY <2>1, <2>2, <2>3, <2>4, <2>5, <2>6, WrapperMoves
<1>3. ASSUME NEW c \in Wrappers, NEW signs, NEW isDone \in BOOLEAN, AttemptFails(c, signs, isDone)
      PROVE  WorkInv'
  <2> DEFINE done == Performed(work[c], isDone)
             k == Ended(work[c], isDone)
  <2>1. /\ operations[c].pc = "running" /\ FailOperation(c)
        /\ work' = [work EXCEPT ![c] = k]
    BY <1>0, <1>3 DEF AttemptFails, Awake
  <2>2. operations'[c].pc # "running"
    BY <1>0, <2>1 DEF FailOperation, Calls
  <2>3. done \in 0..MaxAttempts /\ (work[c].kind = "other" => done <= 1)
    BY <1>0, <2>1 DEF WorkInv, Work, Performed
  <2>4. k \in Work
    BY <1>0, <2>3 DEF Work, Ended
  <2>5. k.kind = work[c].kind /\ k.performed = done
    BY DEF Ended
  <2>6. \A x \in Wrappers \ {c} : operations'[x].pc = operations[x].pc
    BY <1>0, <2>1, OthersStay DEF Step
  <2> HIDE DEF k
  <2> QED BY <2>1, <2>2, <2>3, <2>4, <2>5, <2>6, WrapperMoves
<1>4. ASSUME NEW c \in Wrappers, NEW signs, NEW isDone \in BOOLEAN, RetryLater(c, signs, isDone)
      PROVE  WorkInv'
  <2>0. PICK s \in NextSleeps(work[c]) :
          work' = [work EXCEPT ![c] = Waiting(work[c], s, isDone)]
    BY <1>4 DEF RetryLater
  <2> DEFINE done == Performed(work[c], isDone)
             k == Waiting(work[c], s, isDone)
  <2>1. work' = [work EXCEPT ![c] = k]
    BY <2>0
  <2>2. /\ operations[c].pc = "running" /\ UNCHANGED operations
        /\ work[c].kind = "idempotent" /\ work[c].attempt + 1 < MaxAttempts
    BY <1>4 DEF RetryLater, Awake, Retries, breakerVars
  <2>3. s \in 0..SleepCap
    BY <1>0, SleepsCapped
  <2>4. done \in 0..MaxAttempts /\ done <= work[c].attempt + 1
    BY <1>0, <2>2 DEF WorkInv, Work, Performed
  <2>5. k \in Work
    BY <1>0, <2>2, <2>3, <2>4 DEF Work, Waiting
  <2>6. k.kind = "idempotent" /\ k.performed = done /\ k.attempt = work[c].attempt + 1
    BY <2>2 DEF Waiting
  <2> HIDE DEF k
  <2> QED BY <2>1, <2>2, <2>4, <2>5, <2>6, WrapperMoves
<1>5. ASSUME NEW c \in Wrappers, SleepEnds(c) PROVE WorkInv'
  <2> DEFINE k == [work[c] EXCEPT !.sleeping = FALSE]
  <2>1. work' = [work EXCEPT ![c] = k] /\ UNCHANGED operations
    BY <1>0, <1>5 DEF SleepEnds, breakerVars
  <2>2. /\ k \in Work /\ k.kind = work[c].kind
        /\ k.performed = work[c].performed /\ k.attempt = work[c].attempt
    BY <1>0 DEF Work
  <2> HIDE DEF k
  <2> QED BY <2>1, <2>2, WrapperMoves DEF WorkInv, WritesOnce
<1>6. ASSUME NEW c \in Wrappers, WrapperBreakerStep(c) PROVE WorkInv'
  <2>1. BreakerStep(c) \/ KvError(c)
    BY <1>6 DEF WrapperBreakerStep
  <2>2. \A x \in Wrappers \ {c} : operations'[x].pc = operations[x].pc
    BY <1>0, <2>1, OthersStay DEF BreakerStep, Step
  <2>3. operations'[c].pc # "running"
    <3>1. IdleCaller.pc = "idle"
      BY DEF IdleCaller
    <3>2. CASE ReadState(c) \/ Conflict(c)
      BY <1>0, <3>2 DEF ReadState, Conflict, Calls
    <3>3. CASE FailFast(c) \/ Commit(c)
      BY <1>0, <3>1, <3>3 DEF FailFast, Commit, Committed
    <3>4. CASE Prepare(c)
      BY <1>0, <3>1, <3>4 DEF Prepare, Calls
    <3>5. CASE KvError(c)
      BY <1>0, <3>1, <3>5 DEF KvError, Calls
    <3> QED BY <2>1, <3>2, <3>3, <3>4, <3>5 DEF BreakerStep
  <2>4. NoWork \in Work /\ NoWork.kind = "idempotent"
    BY NewWorkType DEF NoWork, NewWork, Kinds
  <2>5. CASE operations'[c].pc = "idle"
    BY <1>6, <2>2, <2>3, <2>4, <2>5, WrapperMoves DEF WrapperBreakerStep
  <2>6. CASE operations'[c].pc # "idle"
    <3>1. work' = [work EXCEPT ![c] = work[c]]
      BY <1>0, <1>6, <2>6 DEF WrapperBreakerStep
    <3> QED BY <1>0, <2>2, <2>3, <3>1, WrapperMoves DEF WorkInv, WritesOnce
  <2> QED BY <2>5, <2>6
<1>7. CASE Tick /\ UNCHANGED work
  <2>1. \A c \in Callers : operations'[c].pc = operations[c].pc
    BY <1>0, <1>7 DEF Tick, Calls
  <2> QED BY <1>0, <1>7, <2>1 DEF WorkInv, WritesOnce
<1>8. ASSUME NEW c \in Callers \ Wrappers, Step(c) \/ KvError(c) \/ Reset(c), UNCHANGED work
      PROVE  WorkInv'
  <2>1. \A x \in Wrappers : operations'[x].pc = operations[x].pc
    BY <1>0, <1>8, OthersStay
  <2> QED BY <1>8, <2>1 DEF WorkInv, WritesOnce
<1>9. CASE UNCHANGED resilientVars
  BY <1>9 DEF resilientVars, breakerVars, WorkInv, WritesOnce
<1> QED
  BY <1>1, <1>2, <1>3, <1>4, <1>5, <1>6, <1>7, <1>8, <1>9
  DEF ResilientNext, WrapperStep, Attempt

\* Retries are safe for every retry policy: no sleep exceeds the cap, no call makes
\* more than MaxAttempts attempts, and an operation with side effects reaches the
\* backend at most once, even when its answer is lost.
THEOREM RetriesAreSafe == ResilientSpec => []RetriesSafe
<1>1. ResilientInit => ResilientInv
  <2>1. NoWork \in Work /\ NoWork.performed = 0 /\ NoWork.attempt = 0
    BY NewWorkType DEF NoWork, Kinds
  <2>2. ResilientInit => WorkInv
    BY <2>1 DEF ResilientInit, WorkInv, WritesOnce
  <2> QED BY <2>2, InitBreakerInv DEF ResilientInit, ResilientInv
<1>2. ResilientInv /\ [ResilientNext]_resilientVars => ResilientInv'
  BY StepBreakerInv, StepSimulates, StepWorkInv DEF ResilientInv, BreakerInv
<1>3. ResilientInv => RetriesSafe
  BY DEF ResilientInv, BreakerInv, WorkInv, RetriesSafe, ResilientTypeOK
<1> QED BY <1>1, <1>2, <1>3, PTL DEF ResilientSpec

=============================================================================
