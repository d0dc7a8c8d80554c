---------------------------- MODULE SqliteQueue ----------------------------
(***************************************************************************)
(* The message table of SQLiteQueueProvider                                *)
(* (providers/queues/sqlite-queue-provider.ts) and the SQL statements that *)
(* change it.  Several processes may share one database file, so every     *)
(* statement is an action of its own; callers are in QueueDelivery.        *)
(*                                                                         *)
(* Time is relative: visible is visible_after - now, and Tick decreases    *)
(* it.  A message that has been visible for Horizon ticks ages no further; *)
(* messages at the horizon tie, and SQLite leaves the order of ties open.  *)
(* The retention window (days) is far longer than a visibility timeout     *)
(* (seconds), so its end is an event of its own, Expire.                   *)
(***************************************************************************)
EXTENDS Integers

CONSTANTS Messages,           \* the messages producers may send, by id
          Oversize,           \* those whose JSON body exceeds 128 KB
          Delays,             \* the delay options producers ask for
          MaxDelay,           \* MAX_DELAY_SECONDS
          VisibilityTimeout,  \* ticks a received message stays hidden
          MaxReceives,        \* receives before a message goes to the DLQ
          Horizon             \* how many ticks of age the ordering tells apart

ASSUME QueueConstants ==
  /\ Messages # {}
  /\ Oversize \subseteq Messages
  /\ Delays \subseteq Int
  /\ MaxDelay \in Nat
  /\ VisibilityTimeout \in Nat \ {0}
  /\ MaxReceives \in Nat \ {0}
  /\ Horizon \in Nat

VARIABLE table

\* A row of "messages".  "gone" rows are deleted ones; their other columns
\* are kept as history only.
Row == [state    : {"unsent", "stored", "gone"},
        attempts : Nat,
        visible  : Int,
        isDlq    : BOOLEAN,
        expired  : BOOLEAN]

QueueTypeOK == table \in [Messages -> Row]

NewRow(state, delay) ==
  [state |-> state, attempts |-> 0, visible |-> delay, isDlq |-> FALSE, expired |-> FALSE]

QueueInit == table = [m \in Messages |-> NewRow("unsent", 0)]

Stored(m) == table[m].state = "stored"

----------------------------------------------------------------------------
\* send, and one element of sendBatch: rejected unless the delay is within
\* 0..MAX_DELAY_SECONDS and the body within 128 KB; a rejected send, and the
\* rest of its batch, stores nothing.
Send(m, delay) ==
  /\ table[m].state = "unsent"
  /\ delay >= 0 /\ delay <= MaxDelay
  /\ m \notin Oversize
  /\ table' = [table EXCEPT ![m] = NewRow("stored", delay)]

\* purgeExpired, run at the head of every receive.
Purged ==
  [m \in Messages |->
     IF Stored(m) /\ table[m].expired THEN [table[m] EXCEPT !.state = "gone"]
                                      ELSE table[m]]

\* Mutant of Candidates: the WHERE clause forgets is_dlq.
CandidatesAnyRow(dlq) ==
  {m \in Messages : Stored(m) /\ ~table[m].expired /\ table[m].visible <= 0}

\* The rows the SELECT of receive (dlq = FALSE) or receiveDlq (dlq = TRUE)
\* considers, in the purged table.
Candidates(dlq) ==
  {m \in Messages : /\ Stored(m) /\ ~table[m].expired
                    /\ table[m].isDlq = dlq
                    /\ table[m].visible <= 0}

\* ORDER BY visible_after ASC LIMIT 1
First(dlq) ==
  {m \in Candidates(dlq) :
     \A n \in Candidates(dlq) : table[m].visible <= table[n].visible}

\* Mutant of Take: the UPDATE hides the row without counting the attempt.
TakeUncounted(m) ==
  /\ m \in First(FALSE)
  /\ table' = [Purged EXCEPT ![m].visible = VisibilityTimeout]

\* receive's UPDATE: one iteration of its loop takes message m.
Take(m) ==
  /\ m \in First(FALSE)
  /\ table' = [Purged EXCEPT ![m] = [state |-> "stored", attempts |-> table[m].attempts + 1,
                                       visible |-> VisibilityTimeout, isDlq |-> FALSE,
                                       expired |-> FALSE]]

\* receive finds no row and returns null.
TakeNothing ==
  /\ Candidates(FALSE) = {}
  /\ table' = Purged

\* receive's second UPDATE, for a message taken more than maxReceives times;
\* visible_after = 0 is the distant past.  No row, no effect.
MarkDlq(m) ==
  table' = IF Stored(m)
           THEN [table EXCEPT ![m] = [state |-> "stored", attempts |-> table[m].attempts,
                                      visible |-> -Horizon, isDlq |-> TRUE,
                                      expired |-> table[m].expired]]
           ELSE table

\* ack: DELETE by id, whoever asks and whatever the row's column values.
Ack(m) ==
  table' = IF Stored(m) THEN [table EXCEPT ![m].state = "gone"] ELSE table

\* receiveDlq: hides the message, leaves attempts alone.
TakeDlq(m) ==
  /\ m \in First(TRUE)
  /\ table' = [Purged EXCEPT ![m].visible = VisibilityTimeout]

----------------------------------------------------------------------------
\* The clock, for every stored row.
Tick ==
  table' = [m \in Messages |->
              IF Stored(m) /\ table[m].visible > -Horizon
              THEN [table[m] EXCEPT !.visible = @ - 1]
              ELSE table[m]]

\* The retention window of m ends.
Expire(m) ==
  /\ Stored(m) /\ ~table[m].expired
  /\ table' = [table EXCEPT ![m].expired = TRUE]
=============================================================================
