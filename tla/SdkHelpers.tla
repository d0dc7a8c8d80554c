----------------------------- MODULE SdkHelpers -----------------------------
(***************************************************************************)
(* The reliability helpers of the SDK (sdk/typescript/helpers.ts), library *)
(* code over a key-value binding: mutate, withIdempotency and              *)
(* withCircuitBreaker, each used by several invocations on one key.        *)
(*                                                                         *)
(* The binding is a store whose sets and commits count the version of a    *)
(* key on and whose delete starts it anew.  Its list tells the version     *)
(* only if the provider's does: the binding of permission-resolver.ts says *)
(* 1 of every key otherwise (versioned = FALSE).                           *)
(***************************************************************************)
EXTENDS Naturals, FiniteSets

CONSTANTS
  SdkCallers,     \* invocations that use the helper
  MaxRetries,     \* maxRetries of mutate
  TripThreshold,  \* failureThreshold of withCircuitBreaker
  OpenTime,       \* cooldownMs, in ticks
  MaxSdkWrites    \* bound on versions and values

ASSUME SdkConstants ==
  /\ MaxRetries \in Nat /\ TripThreshold \in Nat \ {0}
  /\ OpenTime \in Nat \ {0} /\ MaxSdkWrites \in Nat \ {0}

VARIABLES
  helper,     \* the helper in use
  versioned,  \* the binding's list tells the version
  entry,      \* the key: its value, its version (0: absent) and, of a circuit, openUntil
  calls,      \* the calls of the helper
  completed,  \* history: an action of withIdempotency has completed
  answered,   \* history: a call of withIdempotency has returned, so its message is acked
  streak,     \* history: failures of withCircuitBreaker recorded since its last success
  overlapped  \* history: an action under way met another call's, or the end of the key's life

sdkVars == <<helper, versioned, entry, calls, completed, answered, streak, overlapped>>

Helpers == {"mutate", "idempotency", "breaker"}

\* value is a count of updates or of failures, or 1 for a marker; opened says that
\* openUntil is set, open how long it still lies ahead.
Absent == [value |-> 0, version |-> 0, opened |-> FALSE, open |-> 0]
Entry == [value : 0..MaxSdkWrites, version : 0..MaxSdkWrites, opened : BOOLEAN, open : 0..OpenTime]

\* removed and raced are history: the key was deleted, or written, since the attempt read it.
Call == [pc : {"idle", "reading", "getting", "updating", "sleeping", "conflict", "acting", "marking"},
         seen : Entry, expected : 0..MaxSdkWrites, attempt : 0..MaxRetries + 1,
         elapsed : 0..OpenTime, removed : BOOLEAN, raced : BOOLEAN]
NoCall == [pc |-> "idle", seen |-> Absent, expected |-> 0, attempt |-> 0,
           elapsed |-> 0, removed |-> FALSE, raced |-> FALSE]

\* No retry passes maxRetries, no circuit is open for longer than the cooldown.
SdkTypeOK ==
  /\ helper \in Helpers /\ versioned \in BOOLEAN
  /\ entry \in Entry /\ calls \in [SdkCallers -> Call]
  /\ completed \in BOOLEAN /\ answered \in BOOLEAN /\ streak \in Nat /\ overlapped \in BOOLEAN

SdkInit ==
  /\ helper \in Helpers /\ versioned \in BOOLEAN
  /\ entry = Absent /\ calls = [c \in SdkCallers |-> NoCall]
  /\ completed = FALSE /\ answered = FALSE /\ streak = 0 /\ overlapped = FALSE

----------------------------------------------------------------------------
(* The binding: who is under way learns that the key changed. *)

Learns(q, gone) == IF q.pc = "idle" THEN q ELSE [q EXCEPT !.raced = TRUE, !.removed = @ \/ gone]
Told(gone) == [d \in SdkCallers |-> Learns(calls[d], gone)]

\* The calls whose action is under way.
Running == {c \in SdkCallers : calls[c].pc = "acting"}

Stored(value) == [Absent EXCEPT !.value = value, !.version = entry.version + 1]

\* Somebody else sets the key that mutate is used on.
SdkSet ==
  /\ helper = "mutate" /\ entry' = Stored(0)
  /\ calls' = Told(FALSE)
  /\ UNCHANGED <<helper, versioned, completed, answered, streak, overlapped>>

\* The key is deleted or its time to live ends.
SdkExpire ==
  /\ entry.version > 0 /\ entry' = Absent
  /\ calls' = Told(TRUE)
  /\ streak' = 0 /\ overlapped' = (overlapped \/ Running # {})
  /\ UNCHANGED <<helper, versioned, completed, answered>>

----------------------------------------------------------------------------
(* mutate *)

CallMutate(c) ==
  /\ helper = "mutate" /\ calls[c].pc = "idle"
  /\ calls' = [calls EXCEPT ![c] = [NoCall EXCEPT !.pc = "reading"]]
  /\ UNCHANGED <<helper, versioned, entry, completed, answered, streak, overlapped>>

\* Mutant of ListedVersion: the version in the entry is not looked at.
ListedVersionOne == 1

\* What check() is given for a key that the list contains.
ListedVersion == IF versioned THEN entry.version ELSE 1

\* list(key, { limit: 1 }); the key may turn up only in the get that follows.
MutateList(c) ==
  /\ calls[c].pc = "reading"
  /\ calls' = [calls EXCEPT ![c] =
       [@ EXCEPT !.pc = IF entry.version > 0 THEN "updating" ELSE "getting",
                 !.seen = entry, !.expected = ListedVersion, !.removed = FALSE, !.raced = FALSE]]
  /\ UNCHANGED <<helper, versioned, entry, completed, answered, streak, overlapped>>

\* Mutant of MutateGet: the updater is not given the value that only get found.
MutateGetNone(c) ==
  /\ calls[c].pc = "getting"
  /\ calls' = [calls EXCEPT ![c] =
       [@ EXCEPT !.pc = "updating", !.seen = entry, !.expected = entry.version,
                 !.removed = FALSE, !.seen.value = 0]]
  /\ UNCHANGED <<helper, versioned, entry, completed, answered, streak, overlapped>>

\* A value that only get finds is taken for version 1.
MutateGet(c) ==
  /\ calls[c].pc = "getting"
  /\ calls' = [calls EXCEPT ![c] =
       [@ EXCEPT !.pc = "updating", !.seen = entry, !.expected = IF entry.version > 0 THEN 1 ELSE 0,
                 !.removed = FALSE]]
  /\ UNCHANGED <<helper, versioned, entry, completed, answered, streak, overlapped>>

\* The updater has run; here it adds one.  The commit compares the version.
MutateCommits(c) ==
  /\ calls[c].pc = "updating" /\ entry.version = calls[c].expected
  /\ entry' = Stored(calls[c].seen.value + 1)
  /\ calls' = [Told(FALSE) EXCEPT ![c] = NoCall]
  /\ UNCHANGED <<helper, versioned, completed, answered, streak, overlapped>>

MutateConflicts(c) ==
  /\ calls[c].pc = "updating" /\ entry.version # calls[c].expected
  /\ calls' = [calls EXCEPT ![c] =
       [@ EXCEPT !.attempt = calls[c].attempt + 1,
                 !.pc = IF calls[c].attempt + 1 > MaxRetries THEN "conflict" ELSE "sleeping"]]
  /\ UNCHANGED <<helper, versioned, entry, completed, answered, streak, overlapped>>

\* The back-off ends, or ConflictError reaches the caller.
MutateGoesOn(c) ==
  /\ calls[c].pc \in {"sleeping", "conflict"}
  /\ calls' = [calls EXCEPT ![c] = IF @.pc = "conflict" THEN NoCall ELSE [@ EXCEPT !.pc = "reading"]]
  /\ UNCHANGED <<helper, versioned, entry, completed, answered, streak, overlapped>>

----------------------------------------------------------------------------
(* withIdempotency, around the action of a message that is delivered until a call returns *)

\* Nothing is claimed before the action: two calls may both find no marker.
IdempotentCall(c) ==
  /\ helper = "idempotency" /\ calls[c].pc = "idle"
  /\ IF entry = Absent
       THEN calls' = [calls EXCEPT ![c] = [NoCall EXCEPT !.pc = "acting"]] /\ UNCHANGED answered
       ELSE answered' = TRUE /\ UNCHANGED calls
  /\ UNCHANGED <<helper, versioned, entry, completed, streak, overlapped>>

\* Mutant of ActionEnds: the marker is written although the action threw.
ActionEndsAnyway(c) ==
  /\ helper = "idempotency" /\ calls[c].pc = "acting"
  /\ \E done \in BOOLEAN : completed' = (completed \/ done)
  /\ calls' = [calls EXCEPT ![c].pc = "marking"]
  /\ UNCHANGED <<helper, versioned, entry, answered, streak, overlapped>>

\* An action that throws leaves no marker.
ActionEnds(c) ==
  /\ helper = "idempotency" /\ calls[c].pc = "acting"
  /\ \E done \in BOOLEAN :
       /\ calls' = [calls EXCEPT ![c] = IF done THEN [@ EXCEPT !.pc = "marking"] ELSE NoCall]
       /\ completed' = (completed \/ done)
  /\ UNCHANGED <<helper, versioned, entry, answered, streak, overlapped>>

\* The set of the marker may fail: then the call fails, though the action is done.
MarkDone(c) ==
  /\ calls[c].pc = "marking"
  /\ \/ /\ entry' = Stored(1) /\ answered' = TRUE
        /\ calls' = [Told(FALSE) EXCEPT ![c] = NoCall]
     \/ /\ calls' = [calls EXCEPT ![c] = NoCall]
        /\ UNCHANGED <<entry, answered>>
  /\ UNCHANGED <<helper, versioned, completed, streak, overlapped>>

----------------------------------------------------------------------------
(* withCircuitBreaker *)

\* An open circuit answers at once; otherwise the state read now decides what is
\* written when the action has ended.
BreakerCall(c) ==
  /\ helper = "breaker" /\ calls[c].pc = "idle" /\ entry.open = 0
  /\ calls' = [calls EXCEPT ![c] = [NoCall EXCEPT !.pc = "acting", !.seen = entry]]
  /\ overlapped' = (overlapped \/ Running # {})
  /\ UNCHANGED <<helper, versioned, entry, completed, answered, streak>>

\* Mutant of AfterSuccess: failures are forgotten only once the circuit has tripped.
AfterSuccessTripped(c) == IF calls[c].seen.opened THEN Absent ELSE entry

\* A success deletes the state, if there was one when the call began.
AfterSuccess(c) == IF calls[c].seen.value > 0 \/ calls[c].seen.opened THEN Absent ELSE entry

\* A failure stores the count read before plus one; the cooldown runs from the
\* beginning of the call.
AfterFailure(c) ==
  LET failures == calls[c].seen.value + 1
  IN  [value |-> failures, version |-> entry.version + 1, opened |-> failures >= TripThreshold,
       open |-> IF failures >= TripThreshold THEN OpenTime - calls[c].elapsed ELSE 0]

\* A success whose delete throws is recorded as a failure too; a set that throws
\* records nothing.
BreakerEnds(c) ==
  /\ helper = "breaker" /\ calls[c].pc = "acting"
  /\ calls' = [calls EXCEPT ![c] = NoCall]
  /\ \/ entry' = AfterSuccess(c) /\ streak' = 0
     \/ entry' = AfterFailure(c) /\ streak' = streak + 1
     \/ UNCHANGED <<entry, streak>>
  /\ UNCHANGED <<helper, versioned, completed, answered, overlapped>>

SdkTick ==
  /\ helper = "breaker"
  /\ entry' = [entry EXCEPT !.open = IF @ > 0 THEN @ - 1 ELSE 0]
  /\ calls' = [c \in SdkCallers |->
       IF c \in Running /\ calls[c].elapsed < OpenTime THEN [calls[c] EXCEPT !.elapsed = @ + 1] ELSE calls[c]]
  /\ UNCHANGED <<helper, versioned, completed, answered, streak, overlapped>>

----------------------------------------------------------------------------
SdkNext ==
  /\ \/ SdkSet \/ SdkExpire \/ SdkTick
     \/ \E c \in SdkCallers :
          \/ CallMutate(c) \/ MutateList(c) \/ MutateGet(c) \/ MutateCommits(c)
          \/ MutateConflicts(c) \/ MutateGoesOn(c)
          \/ IdempotentCall(c) \/ ActionEnds(c) \/ MarkDone(c)
          \/ BreakerCall(c) \/ BreakerEnds(c)
  /\ entry'.version <= MaxSdkWrites /\ entry'.value <= MaxSdkWrites

SdkSpec == SdkInit /\ [][SdkNext]_sdkVars

----------------------------------------------------------------------------
\* "Atomically updates KV values": a commit of mutate that is about to succeed replaces
\* the very value its updater was given, unless the key was deleted since, which starts
\* the versions again.
MutateSeesCurrent ==
  \A c \in SdkCallers :
    calls[c].pc = "updating" /\ entry.version = calls[c].expected /\ ~calls[c].removed
      => entry.value = calls[c].seen.value

\* mutate gives up only because others wrote during its last attempt - where the binding
\* tells the version, or a key was written at most once.  (With a binding that does not,
\* the third update of a key and all later ones fail, though nobody interferes.)
ConflictsAreReal ==
  \A c \in SdkCallers :
    calls[c].pc = "conflict" /\ ~calls[c].raced => ~versioned /\ calls[c].seen.version > 1

\* A message is acked only after its action has completed, however calls overlap, fail and
\* skip each other; that it completes only once is not so.
AckedMeansDone == helper = "idempotency" /\ answered => completed

\* Calls that do not overlap, nor outlive the state they read, are counted exactly, and the
\* one that reaches the threshold opens the circuit; overlapping ones overwrite each other's
\* count.
CountsAlone ==
  helper = "breaker" /\ ~overlapped =>
    entry.value = streak /\ (entry.opened <=> streak >= TripThreshold)

\* The helpers do what they report: an update replaces the value it was computed
\* from, a reported conflict is one, an acked message was processed, and the
\* breaker counts right as long as its calls do not overlap.
HelpersSafe == SdkTypeOK /\ MutateSeesCurrent /\ ConflictsAreReal /\ AckedMeansDone /\ CountsAlone
=============================================================================
