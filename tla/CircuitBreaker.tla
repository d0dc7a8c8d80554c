--------------------------- MODULE CircuitBreaker ---------------------------
(***************************************************************************)
(* The circuit breaker (packages/policy/circuit-breaker.ts): a record in   *)
(* the key-value store that concurrent callers read before an operation    *)
(* and update after it with compare-and-set.                               *)
(*                                                                         *)
(* A time stamp in the record is its age: how long ago it was, up to the   *)
(* cooldown.  A version is only compared for equality with one read        *)
(* before, and every commit increments it, so a copy of the record knows   *)
(* whether a commit has happened since it was read.                        *)
(***************************************************************************)
EXTENDS Naturals, FiniteSetsExt

CONSTANTS Callers,           \* concurrent users of one breaker
          FailureThreshold, HalfOpenSuccessThreshold,
          Cooldown,          \* in ticks
          MaxKvErrors,       \* reads and commits that the store rejects
          MaxFailures,       \* operations that fail
          MaxResets,
          NoChange

ASSUME BreakerConstants ==
  /\ FailureThreshold \in Nat \ {0} /\ HalfOpenSuccessThreshold \in Nat \ {0}
  /\ Cooldown \in Nat
  /\ MaxFailures \in Nat /\ MaxResets \in Nat /\ MaxKvErrors \in Nat

VARIABLES
  record,   \* what the key holds
  operations,    \* caller -> how far it is
  run,      \* history: failures committed since the circuit last counted a success
  tally     \* failing operations, resets and rejections so far

breakerVars == <<record, operations, run, tally>>

States == {"Closed", "Open", "Half-Open"}
Records == [state : States, failures : 0..FailureThreshold,
            successes : 0..HalfOpenSuccessThreshold, age : 0..Cooldown]
Calls == [pc : {"idle", "read", "running", "recording", "committing"},
          copy : Records,               \* the record read, or to be committed
          before : States,              \* the state the operation was admitted in
          outcome : {"success", "failure", "reset"},
          current : BOOLEAN]            \* no commit since copy was read

\* A key that was never written: closed, changed at time zero.
NoRecord == [state |-> "Closed", failures |-> 0, successes |-> 0, age |-> Cooldown]
IdleCaller == [pc |-> "idle", copy |-> NoRecord, before |-> "Closed", outcome |-> "success", current |-> FALSE]

BreakerTypeOK ==
  /\ record \in Records
  /\ operations \in [Callers -> Calls]
  /\ run \in 0..FailureThreshold
  /\ tally \in [failures : 0..MaxFailures, resets : 0..MaxResets, kvErrors : 0..MaxKvErrors]

BreakerInit ==
  /\ record = NoRecord
  /\ operations = [c \in Callers |-> IdleCaller]
  /\ run = 0
  /\ tally = [failures |-> 0, resets |-> 0, kvErrors |-> 0]

----------------------------------------------------------------------------
(* The mutators of recordSuccess and recordFailure. *)

Trial(latest, before) == latest.state = "Half-Open" \/ before \in {"Open", "Half-Open"}

\* Mutant of OnSuccess: the successes of earlier trials are forgotten.
OnSuccessForgetful(latest, before) ==
  IF Trial(latest, before)
    THEN IF 1 >= HalfOpenSuccessThreshold
           THEN [state |-> "Closed", failures |-> 0, successes |-> 0, age |-> 0]
           ELSE [state |-> "Half-Open", failures |-> 0, successes |-> 1,
                 age |-> IF latest.state = "Half-Open" THEN latest.age ELSE 0]
  ELSE IF latest.state = "Closed" /\ latest.failures > 0
    THEN [state |-> "Closed", failures |-> 0, successes |-> 0, age |-> latest.age]
  ELSE NoChange

\* A success of a trial counts towards closing; another one clears the count of
\* failures.
OnSuccess(latest, before) ==
  LET successes == (IF latest.state = "Half-Open" THEN latest.successes ELSE 0) + 1
  IN  IF Trial(latest, before)
        THEN IF successes >= HalfOpenSuccessThreshold
               THEN [state |-> "Closed", failures |-> 0, successes |-> 0, age |-> 0]
               ELSE [state |-> "Half-Open", failures |-> 0, successes |-> successes,
                     age |-> IF latest.state = "Half-Open" THEN latest.age ELSE 0]
      ELSE IF latest.state = "Closed" /\ latest.failures > 0
        THEN [state |-> "Closed", failures |-> 0, successes |-> 0, age |-> latest.age]
      ELSE NoChange

\* Mutant of OnFailure: one failure too many is let through.
OnFailureLate(latest, before) ==
  IF Trial(latest, before)
    THEN [state |-> "Open", failures |-> FailureThreshold, successes |-> 0, age |-> 0]
  ELSE IF latest.state = "Open"
    THEN NoChange
  ELSE IF latest.failures + 1 > FailureThreshold
    THEN [state |-> "Open", failures |-> latest.failures + 1, successes |-> 0, age |-> 0]
  ELSE [state |-> "Closed", failures |-> latest.failures + 1, successes |-> 0,
        age |-> latest.age]

\* A failure of a trial opens the circuit; another one counts.
OnFailure(latest, before) ==
  IF Trial(latest, before)
    THEN [state |-> "Open", failures |-> FailureThreshold, successes |-> 0, age |-> 0]
  ELSE IF latest.state = "Open"
    THEN NoChange
  ELSE IF latest.failures + 1 >= FailureThreshold
    THEN [state |-> "Open", failures |-> latest.failures + 1, successes |-> 0, age |-> 0]
  ELSE [state |-> "Closed", failures |-> latest.failures + 1, successes |-> 0,
        age |-> latest.age]

Mutation(latest, call) ==
  CASE call.outcome = "success" -> OnSuccess(latest, call.before)
    [] call.outcome = "failure" -> OnFailure(latest, call.before)
    [] call.outcome = "reset" -> [state |-> "Closed", failures |-> 0, successes |-> 0, age |-> 0]

----------------------------------------------------------------------------
\* execute: the state is read ...
ReadState(c) ==
  /\ operations[c].pc = "idle"
  /\ operations' = [operations EXCEPT ![c].pc = "read", ![c].copy = record]
  /\ UNCHANGED <<record, run, tally>>

CoolingDown(r) == r.state = "Open" /\ r.age < Cooldown

\* ... an open circuit fails fast until the cooldown is over ...
FailFast(c) ==
  /\ operations[c].pc = "read" /\ CoolingDown(operations[c].copy)
  /\ operations' = [operations EXCEPT ![c] = IdleCaller]
  /\ UNCHANGED <<record, run, tally>>

\* ... otherwise the operation runs, and the state it was admitted in is kept.
Admit(c) ==
  /\ operations[c].pc = "read" /\ ~CoolingDown(operations[c].copy)
  /\ operations' = [operations EXCEPT ![c] = [IdleCaller EXCEPT !.pc = "running", !.before = operations[c].copy.state]]
  /\ UNCHANGED <<record, run, tally>>

Succeed(c) ==
  /\ operations[c].pc = "running"
  /\ operations' = [operations EXCEPT ![c].pc = "recording", ![c].outcome = "success"]
  /\ UNCHANGED <<record, run, tally>>

FailOperation(c) ==
  /\ operations[c].pc = "running" /\ tally.failures < MaxFailures
  /\ operations' = [operations EXCEPT ![c].pc = "recording", ![c].outcome = "failure"]
  /\ tally' = [tally EXCEPT !.failures = @ + 1]
  /\ UNCHANGED <<record, run>>

Reset(c) ==
  /\ operations[c].pc = "idle" /\ tally.resets < MaxResets
  /\ operations' = [operations EXCEPT ![c].pc = "recording", ![c].outcome = "reset"]
  /\ tally' = [tally EXCEPT !.resets = @ + 1]
  /\ UNCHANGED <<record, run>>

\* mutateState: read the record, compute the next one or leave it ...
Prepare(c) ==
  LET next == Mutation(record, operations[c])
  IN  /\ operations[c].pc = "recording"
      /\ \/ /\ next = NoChange
            /\ operations' = [operations EXCEPT ![c] = IdleCaller]
         \/ /\ next # NoChange
            /\ operations' = [operations EXCEPT ![c].pc = "committing", ![c].copy = next, ![c].current = TRUE]
      /\ UNCHANGED <<record, run, tally>>

\* The record a commit of a caller writes outdates every copy.
Committed(c) ==
  /\ record' = operations[c].copy
  /\ run' = IF operations[c].outcome = "failure" THEN Min({run + 1, FailureThreshold}) ELSE 0
  /\ operations' = [x \in Callers |-> IF x = c THEN IdleCaller ELSE [operations[x] EXCEPT !.current = FALSE]]

\* Mutant of Commit: the version is not checked.
CommitUnchecked(c) ==
  /\ operations[c].pc = "committing"
  /\ Committed(c)
  /\ UNCHANGED tally

\* ... commit it if the version is still the one read ...
Commit(c) ==
  /\ operations[c].pc = "committing" /\ operations[c].current
  /\ Committed(c)
  /\ UNCHANGED tally

\* ... and read again if it is not.
Conflict(c) ==
  /\ operations[c].pc = "committing" /\ ~operations[c].current
  /\ operations' = [operations EXCEPT ![c].pc = "recording"]
  /\ UNCHANGED <<record, run, tally>>

\* The store rejects.  Recording a success is part of the try block, so its
\* rejection is handled as a failure of the operation.
KvError(c) ==
  /\ tally.kvErrors < MaxKvErrors
  /\ tally' = [tally EXCEPT !.kvErrors = @ + 1]
  /\ \/ /\ operations[c].pc = "idle" /\ UNCHANGED operations
     \/ /\ operations[c].pc \in {"recording", "committing"}
        /\ operations' = [operations EXCEPT ![c] =
                       IF operations[c].outcome = "success"
                         THEN [operations[c] EXCEPT !.pc = "recording", !.outcome = "failure"]
                         ELSE IdleCaller]
  /\ UNCHANGED <<record, run>>

\* Time passes.
Older(r) == [r EXCEPT !.age = Min({@ + 1, Cooldown})]

Tick ==
  /\ record' = Older(record)
  /\ operations' = [c \in Callers |-> [operations[c] EXCEPT !.copy = Older(@)]]
  /\ UNCHANGED <<run, tally>>

Step(c) == \/ ReadState(c) \/ FailFast(c) \/ Admit(c) \/ Succeed(c) \/ FailOperation(c)
           \/ Prepare(c) \/ Commit(c) \/ Conflict(c)

BreakerNext == Tick \/ \E c \in Callers : Step(c) \/ Reset(c) \/ KvError(c)

BreakerSpec == BreakerInit /\ [][BreakerNext]_breakerVars

\* Callers keep calling, operations and store accesses end, time passes.
BreakerFairSpec == BreakerSpec /\ WF_breakerVars(Tick) /\ \A c \in Callers : WF_breakerVars(Step(c))

----------------------------------------------------------------------------
\* No failure is lost to a concurrent update: while the circuit is closed, its
\* count is the number of failures committed since the last success.
CountsEveryFailure == record.state = "Closed" => record.failures = run

\* A closed circuit is below the threshold: the failure that reaches it trips.
BelowThreshold == record.state = "Closed" => record.failures < FailureThreshold

\* A circuit whose operations stop failing closes again.
Recovers == []<>(record.state = "Closed")

\* The breaker counts right under concurrent updates of its record: no failure is
\* lost and a closed circuit is always below its threshold.
BreakerSafe == CountsEveryFailure /\ BelowThreshold
=============================================================================
