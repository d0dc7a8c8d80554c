------------------------ MODULE QueueDeliveryProofs ------------------------
(***************************************************************************)
(* Proofs about QueueDelivery, for every set of messages and workers and   *)
(* every value of the other constants.                                     *)
(***************************************************************************)
EXTENDS QueueDelivery, TLAPS

\* A row that was never sent is blank, and a dead-lettered one is exhausted.
RowInv ==
  \A m \in Messages :
    /\ table[m].state = "unsent" =>
         table[m].attempts = 0 /\ ~table[m].isDlq /\ ~table[m].expired
    /\ table[m].isDlq => table[m].attempts > MaxReceives

----------------------------------------------------------------------------
(* What each statement on the message table does, column by column.        *)

\* The table keeps its type, and only a row that is taken counts an attempt.
LEMMA TakeEffect ==
  ASSUME QueueTypeOK, NEW m \in Messages, Take(m)
  PROVE  /\ QueueTypeOK'
         /\ ~table[m].isDlq
         /\ table'[m].attempts = table[m].attempts + 1
         /\ \A n \in Messages :
              /\ n # m => table'[n].attempts = table[n].attempts
              /\ table'[n].isDlq = table[n].isDlq
              /\ table'[n].expired = table[n].expired
              /\ table'[n].state = table[n].state
                 \/ (table'[n].state = "gone" /\ table[n].expired)
<1> USE QueueConstants DEF QueueTypeOK, Row
<1>1. /\ Purged \in [Messages -> Row]
      /\ \A n \in Messages : /\ Purged[n].attempts = table[n].attempts
                             /\ Purged[n].isDlq = table[n].isDlq
                             /\ Purged[n].expired = table[n].expired
                             /\ Purged[n].state = table[n].state
                                \/ (Purged[n].state = "gone" /\ table[n].expired)
  BY DEF Purged, Stored
<1>2. table' = [Purged EXCEPT ![m] = [state |-> "stored", attempts |-> table[m].attempts + 1,
                                       visible |-> VisibilityTimeout, isDlq |-> FALSE,
                                       expired |-> FALSE]]
  BY DEF Take
<1>3. table[m].state = "stored" /\ ~table[m].isDlq /\ ~table[m].expired
  BY DEF Take, First, Candidates, Stored
<1>4. QueueTypeOK'
  BY <1>1, <1>2
<1>5. table'[m].attempts = table[m].attempts + 1
  BY <1>1, <1>2
<1>6. ASSUME NEW n \in Messages
      PROVE  /\ n # m => table'[n].attempts = table[n].attempts
             /\ table'[n].isDlq = table[n].isDlq
             /\ table'[n].expired = table[n].expired
             /\ table'[n].state = table[n].state
                \/ (table'[n].state = "gone" /\ table[n].expired)
  <2>1. CASE n = m
    BY <1>1, <1>2, <1>3, <2>1
  <2>2. CASE n # m
    BY <1>1, <1>2, <2>2
  <2> QED BY <2>1, <2>2
<1> QED BY <1>3, <1>4, <1>5, <1>6

\* MarkDlq sets the dead-letter mark of its row and changes no other row.
LEMMA MarkEffect ==
  ASSUME QueueTypeOK, NEW m \in Messages, MarkDlq(m)
  PROVE  /\ QueueTypeOK'
         /\ \A n \in Messages :
              /\ table'[n].attempts = table[n].attempts
              /\ table[n].isDlq => table'[n].isDlq
              /\ table'[n].expired = table[n].expired
              /\ table'[n].state = table[n].state
              /\ table'[n].isDlq => table[n].isDlq \/ (n = m /\ Stored(m))
<1> USE QueueConstants DEF QueueTypeOK, Row
<1>1. CASE Stored(m)
  <2> DEFINE row == [state |-> "stored", attempts |-> table[m].attempts,
                     visible |-> -Horizon, isDlq |-> TRUE, expired |-> table[m].expired]
  <2>1. table' = [table EXCEPT ![m] = row]
    BY <1>1 DEF MarkDlq
  <2>2. row \in Row
    OBVIOUS
  <2>3. \A n \in Messages : n # m => table'[n] = table[n]
    BY <2>1
  <2>4. table'[m] = row
    BY <2>1
  <2>5. QueueTypeOK'
    BY <2>1, <2>2
  <2> QED BY <1>1, <2>3, <2>4, <2>5 DEF Stored
<1>2. CASE ~Stored(m)
  BY <1>2 DEF MarkDlq
<1> QED BY <1>1, <1>2

\* Ack deletes its row and changes nothing else.
LEMMA AckEffect ==
  ASSUME QueueTypeOK, NEW m \in Messages, Ack(m)
  PROVE  /\ QueueTypeOK'
         /\ \A n \in Messages :
              /\ table'[n].attempts = table[n].attempts
              /\ table'[n].isDlq = table[n].isDlq
              /\ table'[n].expired = table[n].expired
              /\ table'[n].state = table[n].state \/ (n = m /\ table'[n].state = "gone")
BY DEF QueueTypeOK, Row, Ack, Stored

\* The statements that neither receive, mark nor ack a message.
QuietStatement(m) ==
  \/ \E delay \in Delays : Send(m, delay)
  \/ TakeNothing \/ TakeDlq(m) \/ Tick \/ Expire(m)
  \/ UNCHANGED table

\* They leave attempts and dead-letter marks alone and delete only expired rows.
LEMMA QuietEffect ==
  ASSUME QueueTypeOK, RowInv, NEW m \in Messages, QuietStatement(m)
  PROVE  /\ QueueTypeOK'
         /\ \A n \in Messages :
              /\ table'[n].attempts = table[n].attempts
              /\ table'[n].isDlq <=> table[n].isDlq
              /\ table[n].expired => table'[n].expired
              /\ table'[n].state = "unsent" =>
                   table[n].state = "unsent" /\ (table'[n].expired <=> table[n].expired)
              /\ table'[n].state = "gone" => table[n].state = "gone" \/ table[n].expired
<1> USE QueueConstants DEF QueueTypeOK, Row
<1>1. /\ Purged \in [Messages -> Row]
      /\ \A n \in Messages : /\ Purged[n].attempts = table[n].attempts
                             /\ Purged[n].isDlq = table[n].isDlq
                             /\ Purged[n].expired = table[n].expired
                             /\ Purged[n].state = table[n].state
                                \/ (Purged[n].state = "gone" /\ table[n].expired)
  BY DEF Purged, Stored
<1>2. CASE \E delay \in Delays : Send(m, delay)
  BY <1>2 DEF Send, NewRow, RowInv
<1>3. CASE TakeNothing
  BY <1>1, <1>3 DEF TakeNothing
<1>4. CASE TakeDlq(m)
  <2>1. table' = [Purged EXCEPT ![m].visible = VisibilityTimeout]
    BY <1>4 DEF TakeDlq
  <2> QED BY <1>1, <2>1
<1>5. CASE Tick
  BY <1>5 DEF Tick, Stored
<1>6. CASE Expire(m)
  BY <1>6 DEF Expire, Stored
<1>7. CASE UNCHANGED table
  BY <1>7
<1> QED BY <1>2, <1>3, <1>4, <1>5, <1>6, <1>7 DEF QuietStatement

\* What an ack and a quiet statement have in common.
LEMMA OtherEffect ==
  ASSUME QueueTypeOK, RowInv, NEW m \in Messages, QuietStatement(m) \/ Ack(m)
  PROVE  /\ QueueTypeOK'
         /\ RowInv'
         /\ \A n \in Messages : table'[n].attempts = table[n].attempts
         /\ \A n \in Messages : table'[n].isDlq <=> table[n].isDlq
<1>1. CASE QuietStatement(m)
  BY <1>1, QuietEffect DEF RowInv
<1>2. CASE Ack(m)
  BY <1>2, AckEffect DEF RowInv
<1> QED BY <1>1, <1>2

----------------------------------------------------------------------------
(* The inductive invariant.                                                *)

\* A worker inside a cycle holds a message and an attempt number that was
\* counted in the message's row; receive let it go on only within the limit.
HeldInv ==
  \A w \in Workers : work[w].pc # "idle" =>
    /\ work[w].msg \in Messages
    /\ work[w].attempts \in 1..table[work[w].msg].attempts
    /\ work[w].pc = "marking" => work[w].attempts > MaxReceives
    /\ work[w].pc # "marking" => work[w].attempts <= MaxReceives

\* An invocation's attempt number was counted in the message's row.
InvokedInv ==
  \A m \in Messages : invoked[m] \subseteq 1..table[m].attempts

DeliveryInv == HeldInv /\ InvokedInv /\ BoundedDeliveries /\ DistinctDeliveries

IInv == TypeOK /\ RowInv /\ DeliveryInv

LEMMA InitIInv == Init => IInv
BY QueueConstants, DeliveryConstants
   DEF Init, IInv, TypeOK, RowInv, DeliveryInv, HeldInv, InvokedInv, BoundedDeliveries,
       DistinctDeliveries, QueueInit, QueueTypeOK, Row, NewRow, Idle, WorkState

\* A worker that goes on with its delivery, past the call of the function, or
\* ends its cycle keeps the delivery invariant.
LEMMA WorkerGoesOn ==
  ASSUME IInv, NEW w \in Workers, NEW k \in WorkState,
         work' = [work EXCEPT ![w] = k],
         \/ k = Idle
         \/ /\ work[w].pc \notin {"idle", "marking"}
            /\ k.pc \notin {"idle", "marking", "received"}
            /\ k.msg = work[w].msg /\ k.attempts = work[w].attempts,
         UNCHANGED invoked,
         \A n \in Messages : table'[n].attempts = table[n].attempts
  PROVE  DeliveryInv'
<1> USE DEF IInv, TypeOK, DeliveryInv
<1>1. \A v \in Workers : v # w => work'[v] = work[v]
  OBVIOUS
<1>2. work'[w] = k
  OBVIOUS
<1>3. Idle.pc = "idle"
  BY DEF Idle
<1>4. HeldInv'
  BY <1>1, <1>2, <1>3 DEF HeldInv
<1>5. InvokedInv'
  BY DEF InvokedInv
<1>6. BoundedDeliveries'
  BY <1>1, <1>2, <1>3 DEF BoundedDeliveries
<1>7. DistinctDeliveries'
  BY <1>1, <1>2, <1>3 DEF DistinctDeliveries
<1> QED BY <1>4, <1>5, <1>6, <1>7

\* A step that touches no worker and counts no attempt keeps it too.
LEMMA WorkersStay ==
  ASSUME IInv, UNCHANGED <<work, invoked>>,
         \A n \in Messages : table'[n].attempts = table[n].attempts
  PROVE  DeliveryInv'
BY DEF IInv, TypeOK, DeliveryInv, HeldInv, InvokedInv, BoundedDeliveries,
       DistinctDeliveries, WorkState

\* The end of a failed cycle either gives the message up or goes on with the
\* same delivery.
LEMMA AfterErrorEffect ==
  ASSUME TypeOK, NEW w \in Workers
  PROVE  /\ AfterError(w) \in WorkState
         /\ \/ AfterError(w) = Idle
            \/ /\ AfterError(w).pc \in {"deadLetter", "finalAck"}
               /\ AfterError(w).msg = work[w].msg
               /\ AfterError(w).attempts = work[w].attempts
               /\ dlqProvider = "store" => AfterError(w).pc = "deadLetter"
<1>1. work[w] \in WorkState
  BY DEF TypeOK
<1> QED BY <1>1 DEF AfterError, Idle, WorkState

LEMMA IdleType == Idle \in WorkState /\ Idle.pc = "idle"
BY DEF Idle, WorkState

LEMMA StepIInv == IInv /\ [Next]_vars => IInv'
<1> SUFFICES ASSUME IInv, [Next]_vars PROVE IInv'
  OBVIOUS
<1> USE DEF IInv
<1>0. TypeOK /\ QueueTypeOK /\ RowInv
  BY DEF TypeOK
<1>1. ASSUME NEW w \in Workers, Receive(w) PROVE IInv'
  <2>1. PICK m \in Messages :
          /\ Take(m)
          /\ work' = [work EXCEPT ![w] =
               [pc |-> IF table[m].attempts + 1 > MaxReceives THEN "marking" ELSE "received",
                msg |-> m, attempts |-> table[m].attempts + 1, computed |-> FALSE]]
    BY <1>1 DEF Receive
  <2>2. UNCHANGED <<operator, invoked, succeeded, deadLettered, drained, crashes, dlqProvider>>
    BY <1>1 DEF Receive
  <2>3. /\ QueueTypeOK' /\ ~table[m].isDlq
        /\ table'[m].attempts = table[m].attempts + 1
        /\ \A n \in Messages :
             /\ n # m => table'[n].attempts = table[n].attempts
             /\ table'[n].isDlq = table[n].isDlq
             /\ table'[n].expired = table[n].expired
             /\ table'[n].state = table[n].state
                \/ (table'[n].state = "gone" /\ table[n].expired)
    BY <1>0, <2>1, TakeEffect
  <2>4. RowInv'
    <3>1. m \in First(FALSE)
      BY <2>1 DEF Take
    <3>2. table[m].state = "stored"
      BY <3>1 DEF First, Candidates, Stored
    <3> QED BY <1>0, <2>3, <3>2, QueueConstants DEF RowInv, QueueTypeOK, Row
  <2>5. table[m].attempts \in Nat
    BY <1>0 DEF QueueTypeOK, Row
  <2>6. TypeOK'
    BY <2>1, <2>2, <2>3, <2>5 DEF TypeOK, WorkState
  <2>7. /\ work'[w].msg = m /\ work'[w].attempts = table[m].attempts + 1
        /\ work'[w].pc \in {"marking", "received"}
        /\ work'[w].pc = "marking" <=> table[m].attempts + 1 > MaxReceives
        /\ \A v \in Workers : v # w => work'[v] = work[v]
    BY <2>1 DEF TypeOK
  <2>8. HeldInv'
    <3>1. ASSUME NEW v \in Workers, work'[v].pc # "idle"
          PROVE  /\ work'[v].msg \in Messages
                 /\ work'[v].attempts \in 1..table'[work'[v].msg].attempts
                 /\ work'[v].pc = "marking" => work'[v].attempts > MaxReceives
                 /\ work'[v].pc # "marking" => work'[v].attempts <= MaxReceives
      <4>1. CASE v = w
        BY <2>3, <2>5, <2>7, <4>1, QueueConstants
      <4>2. CASE v # w
        <5>1. /\ work'[v] = work[v] /\ work[v].msg \in Messages
              /\ work[v].attempts \in 1..table[work[v].msg].attempts
              /\ work[v].pc = "marking" => work[v].attempts > MaxReceives
              /\ work[v].pc # "marking" => work[v].attempts <= MaxReceives
          BY <2>7, <3>1, <4>2 DEF DeliveryInv, HeldInv
        <5>2. table[work[v].msg].attempts \in Nat
          BY <1>0, <5>1 DEF QueueTypeOK, Row
        <5> QED BY <2>3, <5>1, <5>2
      <4> QED BY <4>1, <4>2
    <3> QED BY <3>1 DEF HeldInv
  <2>9. InvokedInv'
    BY <2>2, <2>3, <2>5 DEF DeliveryInv, InvokedInv, TypeOK, QueueTypeOK, Row
  <2>10. BoundedDeliveries'
    <3>1. table[m].attempts + 1 \notin invoked[m]
      BY <2>5 DEF DeliveryInv, InvokedInv
    <3> QED BY <2>2, <2>7, <3>1 DEF DeliveryInv, BoundedDeliveries
  <2>11. DistinctDeliveries'
    <3>1. \A v \in Workers : work[v].pc # "idle" /\ work[v].msg = m
                               => work[v].attempts # table[m].attempts + 1
      BY <2>5 DEF DeliveryInv, HeldInv
    <3> QED BY <2>7, <3>1 DEF DeliveryInv, DistinctDeliveries
  <2> QED BY <2>4, <2>6, <2>8, <2>9, <2>10, <2>11 DEF DeliveryInv
<1>2. ASSUME NEW w \in Workers, ReceiveExhausted(w) PROVE IInv'
  <2> DEFINE m == work[w].msg
  <2>1. m \in Messages /\ table[m].attempts > MaxReceives
    <3>1. m \in Messages /\ work[w].attempts \in 1..table[m].attempts
          /\ work[w].attempts > MaxReceives
      BY <1>2 DEF ReceiveExhausted, DeliveryInv, HeldInv
    <3>2. table[m].attempts \in Nat
      BY <3>1 DEF TypeOK, QueueTypeOK, Row
    <3> QED BY <3>1, <3>2, QueueConstants
  <2>2. /\ MarkDlq(m) /\ work' = [work EXCEPT ![w] = Idle]
        /\ UNCHANGED <<operator, invoked, succeeded, deadLettered, drained, crashes, dlqProvider>>
    BY <1>2 DEF ReceiveExhausted
  <2>3. RowInv' /\ QueueTypeOK'
    <3>1. QueueTypeOK' /\ \A n \in Messages :
            /\ table'[n].attempts = table[n].attempts
            /\ table'[n].expired = table[n].expired
            /\ table'[n].state = table[n].state
            /\ table'[n].isDlq => table[n].isDlq \/ (n = m /\ Stored(m))
      BY <1>0, <2>1, <2>2, MarkEffect
    <3> QED BY <1>0, <2>1, <3>1 DEF RowInv, Stored
  <2>4. \A n \in Messages : table'[n].attempts = table[n].attempts
    BY <1>0, <2>1, <2>2, MarkEffect
  <2>5. DeliveryInv'
    BY <2>2, <2>4, IdleType, WorkerGoesOn
  <2> QED BY <2>2, <2>3, <2>5, IdleType DEF TypeOK
<1>3. ASSUME NEW w \in Workers, Invoke(w) PROVE IInv'
  <2> DEFINE m == work[w].msg
  <2>1. /\ work[w].pc = "received" /\ work' = [work EXCEPT ![w].pc = "running"]
        /\ invoked' = [invoked EXCEPT ![m] = @ \cup {work[w].attempts}]
        /\ UNCHANGED <<table, operator, succeeded, deadLettered, drained, crashes, dlqProvider>>
    BY <1>3 DEF Invoke
  <2>2. /\ m \in Messages /\ work[w].attempts \in 1..table[m].attempts
        /\ work[w].attempts <= MaxReceives
    BY <2>1 DEF DeliveryInv, HeldInv
  <2>3. table[m].attempts \in Nat /\ work[w].attempts \in Nat
    BY <2>2 DEF TypeOK, QueueTypeOK, Row, WorkState
  <2>4. TypeOK' /\ RowInv'
    BY <2>1, <2>2, <2>3 DEF TypeOK, RowInv, QueueTypeOK, WorkState
  <2>5. /\ work'[w].pc = "running" /\ work'[w].msg = m /\ work'[w].attempts = work[w].attempts
        /\ \A v \in Workers : v # w => work'[v] = work[v]
    BY <2>1 DEF TypeOK, WorkState
  <2>6. HeldInv'
    BY <2>1, <2>2, <2>5 DEF DeliveryInv, HeldInv
  <2>7. InvokedInv'
    BY <2>1, <2>2 DEF DeliveryInv, InvokedInv, TypeOK
  <2>8. BoundedDeliveries'
    <3>1. \A n \in Messages : invoked'[n] \subseteq 1..MaxReceives
      BY <2>1, <2>2, <2>3, QueueConstants DEF DeliveryInv, BoundedDeliveries, TypeOK
    <3>2. ASSUME NEW v \in Workers, work'[v].pc = "received"
          PROVE  work'[v].attempts \notin invoked'[work'[v].msg]
      <4>1. v # w /\ work'[v] = work[v]
        BY <2>5, <3>2
      <4>2. work[v].attempts \notin invoked[work[v].msg] /\ work[v].msg \in Messages
        BY <3>2, <4>1 DEF DeliveryInv, BoundedDeliveries, HeldInv
      <4>3. work[v].msg = m => work[v].attempts # work[w].attempts
        BY <2>1, <3>2, <4>1 DEF DeliveryInv, DistinctDeliveries
      <4> QED BY <2>1, <2>2, <4>1, <4>2, <4>3 DEF TypeOK
    <3> QED BY <3>1, <3>2 DEF BoundedDeliveries
  <2>9. DistinctDeliveries'
    BY <2>1, <2>5 DEF DeliveryInv, DistinctDeliveries
  <2> QED BY <2>4, <2>6, <2>7, <2>8, <2>9 DEF DeliveryInv
<1>4. ASSUME NEW w \in Workers, NEW k \in WorkState,
             work[w].pc # "idle",
             work' = [work EXCEPT ![w] = k],
             \/ k = Idle
             \/ /\ work[w].pc # "marking"
                /\ k.pc \notin {"idle", "marking", "received"}
                /\ k.msg = work[w].msg /\ k.attempts = work[w].attempts,
             Ack(work[w].msg) \/ UNCHANGED table,
             UNCHANGED <<operator, invoked, drained, dlqProvider>>,
             succeeded' \in {succeeded, succeeded \cup {work[w].msg}},
             deadLettered' \in {deadLettered, deadLettered \cup {work[w].msg}},
             crashes' \in 0..MaxCrashes
      PROVE  IInv'
  <2>1. work[w].msg \in Messages
    BY <1>4 DEF DeliveryInv, HeldInv
  <2>2. QuietStatement(work[w].msg) \/ Ack(work[w].msg)
    BY <1>4 DEF QuietStatement
  <2>3. /\ QueueTypeOK' /\ RowInv'
        /\ \A n \in Messages : table'[n].attempts = table[n].attempts
    BY <1>0, <2>1, <2>2, OtherEffect
  <2>4. DeliveryInv'
    BY <1>4, <2>3, WorkerGoesOn
  <2>5. TypeOK'
    BY <1>4, <2>1, <2>3 DEF TypeOK
  <2> QED BY <2>3, <2>4, <2>5
<1>5. ASSUME NEW w \in Workers, Complete(w) PROVE IInv'
  <2> DEFINE k == [pc |-> "acking", msg |-> work[w].msg,
                   attempts |-> work[w].attempts, computed |-> TRUE]
  <2>1. k \in WorkState
    BY DEF TypeOK, WorkState
  <2>2. work' = [work EXCEPT ![w] = k]
    BY <1>5 DEF Complete
  <2> HIDE DEF k
  <2>3. k.pc = "acking" /\ k.msg = work[w].msg /\ k.attempts = work[w].attempts
    BY DEF k
  <2> QED BY <1>4, <1>5, <2>1, <2>2, <2>3 DEF Complete, TypeOK
<1>6. ASSUME NEW w \in Workers, Fail(w) \/ AckError(w) PROVE IInv'
  <2>1. /\ work' = [work EXCEPT ![w] = AfterError(w)] \/ work' = [work EXCEPT ![w] = Idle]
        /\ work[w].pc \notin {"idle", "marking"}
        /\ UNCHANGED <<table, operator, invoked, succeeded, deadLettered, drained, crashes, dlqProvider>>
    BY <1>6 DEF Fail, AckError
  <2> QED BY <1>0, <1>4, <2>1, AfterErrorEffect, IdleType DEF TypeOK
<1>7. ASSUME NEW w \in Workers, DlqSend(w) \/ DlqSendError(w) PROVE IInv'
  <2> DEFINE k == [work[w] EXCEPT !.pc = "finalAck"]
  <2>1. k \in WorkState /\ k.pc = "finalAck" /\ k.msg = work[w].msg
        /\ k.attempts = work[w].attempts
    BY DEF TypeOK, WorkState
  <2>2. /\ work' = [work EXCEPT ![w] = k]
        /\ work[w].pc = "deadLetter"
        /\ UNCHANGED <<table, operator, invoked, succeeded, drained, crashes, dlqProvider>>
        /\ deadLettered' \in {deadLettered, deadLettered \cup {work[w].msg}}
    BY <1>7 DEF DlqSend, DlqSendError
  <2> HIDE DEF k
  <2> QED BY <1>4, <2>1, <2>2 DEF TypeOK
<1>8. ASSUME NEW w \in Workers,
             Abandon(w) \/ AckDone(w) \/ FinalAck(w) \/ FinalAckError(w) \/ Crash(w)
      PROVE  IInv'
  <2>1. /\ work' = [work EXCEPT ![w] = Idle]
        /\ work[w].pc # "idle"
        /\ Ack(work[w].msg) \/ UNCHANGED table
        /\ UNCHANGED <<operator, invoked, succeeded, deadLettered, drained, dlqProvider>>
    BY <1>8 DEF Abandon, AckDone, FinalAck, FinalAckError, Crash
  <2>2. crashes' \in 0..MaxCrashes
    BY <1>8, DeliveryConstants DEF Abandon, AckDone, FinalAck, FinalAckError, Crash, TypeOK
  <2> QED BY <1>4, <2>1, <2>2, IdleType
<1>9. ASSUME NEW m \in Messages, QuietStatement(m) \/ Ack(m),
             UNCHANGED <<work, invoked, succeeded, deadLettered, crashes, dlqProvider>>,
             operator' \in Messages \cup {NoMessage},
             drained' \subseteq Messages
      PROVE  IInv'
  <2>1. /\ QueueTypeOK' /\ RowInv'
        /\ \A n \in Messages : table'[n].attempts = table[n].attempts
    BY <1>0, <1>9, OtherEffect
  <2>2. DeliveryInv'
    BY <1>9, <2>1, WorkersStay
  <2> QED BY <1>9, <2>1, <2>2 DEF TypeOK
<1>10. CASE \/ \E w \in Workers : ReceiveNothing(w)
            \/ \E m \in Messages : Produce(m) \/ RetentionEnds(m)
            \/ ClockTick \/ UNCHANGED vars
  <2>1. \E m \in Messages : QuietStatement(m)
    BY <1>10, QueueConstants DEF ReceiveNothing, Produce, RetentionEnds, ClockTick,
       QuietStatement, vars
  <2>2. UNCHANGED <<work, operator, invoked, succeeded, deadLettered, drained, crashes, dlqProvider>>
    BY <1>10 DEF ReceiveNothing, Produce, RetentionEnds, ClockTick, vars
  <2> QED BY <1>9, <2>1, <2>2 DEF TypeOK
<1>11. CASE OperatorTakes
  BY <1>9, <1>11 DEF OperatorTakes, QuietStatement, TypeOK
<1>12. CASE OperatorAcks \/ OperatorDrops
  BY <1>9, <1>12 DEF OperatorAcks, OperatorDrops, QuietStatement, TypeOK
<1> QED
  BY <1>1, <1>2, <1>3, <1>5, <1>6, <1>7, <1>8, <1>10, <1>11, <1>12
  DEF Next, WorkerStep

----------------------------------------------------------------------------
\* The variables of the queue and its workers keep their types: no sequence
\* of deliveries, failures, crashes and acks produces a malformed row.
THEOREM TypeCorrect == Spec => []TypeOK
<1>1. Init => IInv
  BY InitIInv
<1>2. IInv /\ [Next]_vars => IInv'
  BY StepIInv
<1>3. IInv => TypeOK
  BY DEF IInv
<1> QED BY <1>1, <1>2, <1>3, PTL DEF Spec

\* Receiving counts every delivery in the row before a worker sees it, so no
\* function is invoked more than MaxReceives times for a message, and no two
\* workers ever hold the same delivery.
THEOREM DeliveriesBounded == Spec => []DeliveriesSound
<1>1. Init => IInv
  BY InitIInv
<1>2. IInv /\ [Next]_vars => IInv'
  BY StepIInv
<1>3. IInv => DeliveriesSound
  BY DEF IInv, DeliveryInv, DeliveriesSound
<1> QED BY <1>1, <1>2, <1>3, PTL DEF Spec

----------------------------------------------------------------------------
Settled == succeeded \cup deadLettered \cup drained

\* Whoever is about to ack a message has a reason to: the function completed
\* or the dead-letter queue has the message.
AckInv ==
  dlqProvider = "store" => \A w \in Workers :
    /\ work[w].pc = "acking" => work[w].msg \in succeeded
    /\ work[w].pc = "finalAck" => work[w].msg \in deadLettered

\* How any step treats the rows: only a settled message is deleted early.
LEMMA GoneOnlySettled ==
  ASSUME NoMessageLost, UNCHANGED dlqProvider, Settled \subseteq Settled',
         \A n \in Messages :
           /\ table[n].expired => table'[n].expired
           /\ table'[n].state = "gone" =>
                table[n].state = "gone" \/ table[n].expired \/ n \in Settled'
  PROVE  NoMessageLost'
BY DEF NoMessageLost, Settled

LEMMA StepCustody ==
  ASSUME IInv, AckInv, NoMessageLost, [Next]_vars
  PROVE  AckInv' /\ NoMessageLost'
<1> SUFFICES ASSUME dlqProvider' = "store" PROVE AckInv' /\ NoMessageLost'
  BY DEF AckInv, NoMessageLost
<1>0. TypeOK /\ QueueTypeOK /\ RowInv
  BY DEF IInv, TypeOK
<1>00. UNCHANGED dlqProvider
  BY DEF Next, WorkerStep, Receive, ReceiveNothing, ReceiveExhausted, Invoke, Complete, Fail,
     AckDone, AckError, DlqSend, DlqSendError, FinalAck, FinalAckError, Abandon, Crash,
     Produce, RetentionEnds, OperatorTakes, OperatorAcks, OperatorDrops, ClockTick, vars
<1> USE <1>00
<1>1. ASSUME NEW w \in Workers, Receive(w) PROVE AckInv' /\ NoMessageLost'
  <2>1. PICK m \in Messages :
          /\ Take(m)
          /\ work' = [work EXCEPT ![w] =
               [pc |-> IF table[m].attempts + 1 > MaxReceives THEN "marking" ELSE "received",
                msg |-> m, attempts |-> table[m].attempts + 1, computed |-> FALSE]]
    BY <1>1 DEF Receive
  <2>2. AckInv'
    BY <1>0, <1>1, <2>1 DEF Receive, AckInv, TypeOK
  <2>3. \A n \in Messages :
           /\ table'[n].expired = table[n].expired
           /\ table'[n].state = table[n].state
              \/ (table'[n].state = "gone" /\ table[n].expired)
    BY <1>0, <2>1, TakeEffect
  <2>4. UNCHANGED Settled
    BY <1>1 DEF Receive, Settled
  <2> QED BY <2>2, <2>3, <2>4, GoneOnlySettled
<1>2. ASSUME NEW w \in Workers, ReceiveExhausted(w) PROVE AckInv' /\ NoMessageLost'
  <2>1. work[w].msg \in Messages
    BY <1>2 DEF ReceiveExhausted, IInv, DeliveryInv, HeldInv
  <2>2. \A n \in Messages : /\ table'[n].expired = table[n].expired
                            /\ table'[n].state = table[n].state
    BY <1>0, <1>2, <2>1, MarkEffect DEF ReceiveExhausted
  <2>3. AckInv'
    BY <1>0, <1>2, IdleType DEF ReceiveExhausted, AckInv, TypeOK
  <2>4. UNCHANGED Settled
    BY <1>2 DEF ReceiveExhausted, Settled
  <2> QED BY <2>2, <2>3, <2>4, GoneOnlySettled
<1>3. ASSUME NEW w \in Workers, AckDone(w) \/ FinalAck(w) PROVE AckInv' /\ NoMessageLost'
  <2>1. /\ work[w].msg \in Messages /\ work[w].msg \in Settled
        /\ Ack(work[w].msg) /\ work' = [work EXCEPT ![w] = Idle]
        /\ UNCHANGED <<succeeded, deadLettered, drained>>
    BY <1>3 DEF AckDone, FinalAck, AckInv, Settled, IInv, DeliveryInv, HeldInv
  <2>2. AckInv'
    BY <1>0, <2>1, IdleType DEF AckInv, TypeOK
  <2>3. \A n \in Messages :
          /\ table[n].expired => table'[n].expired
          /\ table'[n].state = "gone" =>
               table[n].state = "gone" \/ table[n].expired \/ n = work[w].msg
    BY <1>0, <2>1, AckEffect
  <2>4. UNCHANGED Settled
    BY <2>1 DEF Settled
  <2> QED BY <2>1, <2>2, <2>3, <2>4, GoneOnlySettled
<1>4. CASE OperatorAcks
  <2>1. /\ operator \in Messages /\ Ack(operator)
        /\ drained' = drained \cup {operator}
        /\ UNCHANGED <<work, succeeded, deadLettered>>
    BY <1>0, <1>4 DEF OperatorAcks, TypeOK
  <2>2. \A n \in Messages :
          /\ table[n].expired => table'[n].expired
          /\ table'[n].state = "gone" =>
               table[n].state = "gone" \/ table[n].expired \/ n = operator
    BY <1>0, <2>1, AckEffect
  <2>3. Settled \subseteq Settled' /\ operator \in Settled'
    BY <2>1 DEF Settled
  <2>4. AckInv'
    BY <2>1 DEF AckInv
  <2> QED BY <2>2, <2>3, <2>4, GoneOnlySettled
<1>5. ASSUME NEW w \in Workers,
             \/ Abandon(w) \/ Invoke(w) \/ Complete(w) \/ Fail(w) \/ AckError(w)
             \/ DlqSend(w) \/ DlqSendError(w) \/ FinalAckError(w) \/ Crash(w)
      PROVE  AckInv' /\ NoMessageLost'
  <2>1. UNCHANGED table /\ Settled \subseteq Settled'
    BY <1>5 DEF Abandon, Invoke, Complete, Fail, AckError, DlqSend, DlqSendError,
       FinalAckError, Crash, Settled
  <2>2. NoMessageLost'
    BY <2>1, GoneOnlySettled
  <2>3. CASE Abandon(w) \/ FinalAckError(w) \/ Crash(w)
    BY <1>0, <2>2, <2>3, IdleType DEF Abandon, FinalAckError, Crash, AckInv, TypeOK
  <2>4. CASE Invoke(w)
    <3>1. /\ work'[w].pc = "running" /\ \A v \in Workers : v # w => work'[v] = work[v]
          /\ UNCHANGED <<succeeded, deadLettered>>
      BY <1>0, <2>4 DEF Invoke, TypeOK, WorkState
    <3> QED BY <2>2, <3>1 DEF AckInv
  <2>5. CASE Complete(w)
    <3>1. /\ work'[w].pc = "acking" /\ work'[w].msg = work[w].msg
          /\ \A v \in Workers : v # w => work'[v] = work[v]
          /\ succeeded' = succeeded \cup {work[w].msg} /\ UNCHANGED deadLettered
      BY <1>0, <2>5 DEF Complete, TypeOK, WorkState
    <3> QED BY <2>2, <3>1 DEF AckInv
  <2>6. CASE Fail(w) \/ AckError(w)
    <3>1. /\ work' = [work EXCEPT ![w] = AfterError(w)] \/ work' = [work EXCEPT ![w] = Idle]
          /\ UNCHANGED <<succeeded, deadLettered>>
      BY <2>6 DEF Fail, AckError
    <3>2. AfterError(w).pc \in {"idle", "deadLetter"}
      BY <1>0, AfterErrorEffect, IdleType
    <3>3. work'[w].pc \in {"idle", "deadLetter"}
          /\ \A v \in Workers : v # w => work'[v] = work[v]
      BY <1>0, <3>1, <3>2, IdleType DEF TypeOK
    <3> QED BY <2>2, <3>1, <3>3 DEF AckInv
  <2>7. CASE DlqSend(w) \/ DlqSendError(w)
    <3>1. DlqSend(w)
      BY <2>7 DEF DlqSendError
    <3>2. /\ work'[w].pc = "finalAck" /\ work'[w].msg = work[w].msg
          /\ \A v \in Workers : v # w => work'[v] = work[v]
          /\ deadLettered' = deadLettered \cup {work[w].msg} /\ UNCHANGED succeeded
      BY <1>0, <3>1 DEF DlqSend, TypeOK, WorkState
    <3> QED BY <2>2, <3>2 DEF AckInv
  <2> QED BY <1>5, <2>3, <2>4, <2>5, <2>6, <2>7
<1>6. CASE \/ \E w \in Workers : ReceiveNothing(w)
           \/ \E m \in Messages : Produce(m) \/ RetentionEnds(m)
           \/ OperatorTakes \/ OperatorDrops \/ ClockTick \/ UNCHANGED vars
  <2>1. PICK m \in Messages : QuietStatement(m)
    BY <1>6, QueueConstants DEF ReceiveNothing, Produce, RetentionEnds, ClockTick,
       OperatorTakes, OperatorDrops, QuietStatement, vars
  <2>2. UNCHANGED <<work, succeeded, deadLettered, drained>>
    BY <1>6 DEF ReceiveNothing, Produce, RetentionEnds, ClockTick, OperatorTakes,
       OperatorDrops, vars
  <2>3. \A n \in Messages :
          /\ table[n].expired => table'[n].expired
          /\ table'[n].state = "gone" => table[n].state = "gone" \/ table[n].expired
    BY <1>0, <2>1, QuietEffect
  <2>4. UNCHANGED Settled /\ AckInv'
    BY <2>2 DEF Settled, AckInv
  <2> QED BY <2>3, <2>4, GoneOnlySettled
<1> QED BY <1>1, <1>2, <1>3, <1>4, <1>5, <1>6 DEF Next, WorkerStep

\* With a dead-letter queue that stores what it is sent, no message is lost:
\* acks of workers that outlived their visibility timeout, failed acks, stops
\* and crashes only ever delete messages that are settled or expired (Q-1).
THEOREM NothingLost == Spec => []NoMessageLost
<1>1. Init => IInv /\ AckInv /\ NoMessageLost
  BY InitIInv DEF Init, AckInv, NoMessageLost, QueueInit, NewRow, Idle
<1>2. IInv /\ AckInv /\ NoMessageLost /\ [Next]_vars => (IInv /\ AckInv /\ NoMessageLost)'
  BY StepIInv, StepCustody
<1> QED BY <1>1, <1>2, PTL DEF Spec

\* Once receive has marked a message as dead-lettered, with all its receives
\* used up, no step of any worker counts another receive or takes the mark off.
THEOREM DlqFinal == Spec => DlqIsFinal
<1>1. ASSUME IInv, [Next]_vars PROVE DlqKept
  <2>0. TypeOK /\ QueueTypeOK /\ RowInv
    BY <1>1 DEF IInv, TypeOK
  <2>1. ASSUME NEW m \in Messages, Take(m) PROVE DlqKept
    BY <2>0, <2>1, TakeEffect DEF DlqKept, RowInv
  <2>2. ASSUME NEW m \in Messages, MarkDlq(m) PROVE DlqKept
    BY <2>0, <2>2, MarkEffect DEF DlqKept, RowInv
  <2>3. ASSUME NEW m \in Messages, QuietStatement(m) \/ Ack(m) PROVE DlqKept
    BY <2>0, <2>3, OtherEffect DEF DlqKept, RowInv
  <2>4. \A w \in Workers : work[w].pc # "idle" => work[w].msg \in Messages
    BY <1>1 DEF IInv, DeliveryInv, HeldInv
  <2>5. ASSUME NEW w \in Workers, WorkerStep(w) \/ Abandon(w) \/ Crash(w) PROVE DlqKept
    <3>1. CASE Receive(w)
      BY <2>1, <3>1 DEF Receive
    <3>2. CASE ReceiveExhausted(w)
      BY <2>2, <2>4, <3>2 DEF ReceiveExhausted
    <3>3. CASE AckDone(w) \/ FinalAck(w)
      BY <2>3, <2>4, <3>3 DEF AckDone, FinalAck
    <3>4. CASE ReceiveNothing(w)
      BY <2>3, <3>4, QueueConstants DEF ReceiveNothing, QuietStatement
    <3>5. CASE \/ Abandon(w) \/ Invoke(w) \/ Complete(w) \/ Fail(w) \/ AckError(w)
               \/ DlqSend(w) \/ DlqSendError(w) \/ FinalAckError(w) \/ Crash(w)
      <4>1. UNCHANGED table
        BY <3>5 DEF Abandon, Invoke, Complete, Fail, AckError, DlqSend, DlqSendError,
           FinalAckError, Crash
      <4> QED BY <2>3, <4>1, QueueConstants DEF QuietStatement
    <3> QED BY <2>5, <3>1, <3>2, <3>3, <3>4, <3>5 DEF WorkerStep
  <2>6. CASE OperatorAcks
    BY <2>0, <2>3, <2>6 DEF OperatorAcks, TypeOK
  <2>7. CASE \/ \E m \in Messages : Produce(m) \/ RetentionEnds(m)
             \/ OperatorTakes \/ OperatorDrops \/ ClockTick \/ UNCHANGED vars
    <3>1. \E m \in Messages : QuietStatement(m)
      BY <2>7, QueueConstants DEF Produce, RetentionEnds, OperatorTakes, OperatorDrops,
         ClockTick, vars, QuietStatement
    <3> QED BY <2>3, <3>1
  <2> QED BY <1>1, <2>5, <2>6, <2>7 DEF Next
<1> QED BY <1>1, InitIInv, StepIInv, PTL DEF Spec, DlqIsFinal

----------------------------------------------------------------------------
\* A consumer whose function has completed is on its way to the ack, and to
\* nowhere else.
ConsumerInv == \A w \in Consumers : work[w].computed => work[w].pc = "acking"

LEMMA StepConsumer ==
  ASSUME IInv, ConsumerInv, [Next]_vars
  PROVE  ConsumerInv'
<1>0. TypeOK /\ work \in [Workers -> WorkState] /\ Consumers \subseteq Workers
  BY DEF IInv, TypeOK, Workers
<1>1. CASE UNCHANGED work
  BY <1>1 DEF ConsumerInv
<1>2. ASSUME NEW w \in Workers, NEW k \in WorkState, work' = [work EXCEPT ![w] = k],
             w \in Consumers /\ k.computed => k.pc = "acking"
      PROVE  ConsumerInv'
  BY <1>0, <1>2 DEF ConsumerInv
<1>3. ASSUME NEW w \in Workers, Receive(w) PROVE ConsumerInv'
  <2>1. PICK m \in Messages :
          work' = [work EXCEPT ![w] =
            [pc |-> IF table[m].attempts + 1 > MaxReceives THEN "marking" ELSE "received",
             msg |-> m, attempts |-> table[m].attempts + 1, computed |-> FALSE]]
    BY <1>3 DEF Receive
  <2> QED BY <1>0, <2>1 DEF ConsumerInv
<1>4. ASSUME NEW w \in Workers, Invoke(w) \/ DlqSend(w) \/ DlqSendError(w) PROVE ConsumerInv'
  <2>1. /\ work[w].pc # "acking"
        /\ \/ work' = [work EXCEPT ![w].pc = "running"]
           \/ work' = [work EXCEPT ![w].pc = "finalAck"]
    BY <1>4 DEF Invoke, DlqSend, DlqSendError
  <2>2. work'[w].computed = work[w].computed /\ \A v \in Workers : v # w => work'[v] = work[v]
    BY <1>0, <2>1 DEF WorkState
  <2> QED BY <1>0, <2>1, <2>2 DEF ConsumerInv
<1>5. ASSUME NEW w \in Workers, Complete(w) PROVE ConsumerInv'
  BY <1>0, <1>5 DEF Complete, ConsumerInv
<1>6. Idle \in WorkState /\ ~Idle.computed
  BY IdleType DEF Idle
<1>7. ASSUME NEW w \in Workers, Fail(w) PROVE ConsumerInv'
  <2>1. work[w].pc = "running" /\ work' = [work EXCEPT ![w] = AfterError(w)]
    BY <1>7 DEF Fail
  <2>2. AfterError(w) \in WorkState
    BY <1>0, AfterErrorEffect
  <2>3. work[w] \in WorkState
    BY <1>0
  <2>4. AfterError(w).computed => work[w].computed
    BY <1>6, <2>3 DEF AfterError, WorkState
  <2> QED BY <1>2, <2>1, <2>2, <2>4 DEF ConsumerInv
<1>8. ASSUME NEW w \in Workers, AckError(w) PROVE ConsumerInv'
  <2>1. CASE w \in Supervised
    <3>1. work' = [work EXCEPT ![w] = AfterError(w)] /\ w \notin Consumers
      BY <1>8, <2>1, DeliveryConstants DEF AckError
    <3> QED BY <1>0, <1>2, <3>1, AfterErrorEffect
  <2>2. CASE w \notin Supervised
    BY <1>2, <1>6, <1>8, <2>2 DEF AckError
  <2> QED BY <2>1, <2>2
<1>9. ASSUME NEW w \in Workers,
             \/ ReceiveExhausted(w) \/ Abandon(w) \/ AckDone(w) \/ FinalAck(w)
             \/ FinalAckError(w) \/ Crash(w)
      PROVE  ConsumerInv'
  BY <1>2, <1>6, <1>9 DEF ReceiveExhausted, Abandon, AckDone, FinalAck, FinalAckError, Crash
<1>10. CASE \/ \E w \in Workers : ReceiveNothing(w)
            \/ \E m \in Messages : Produce(m) \/ RetentionEnds(m)
            \/ OperatorTakes \/ OperatorAcks \/ OperatorDrops \/ ClockTick \/ UNCHANGED vars
  BY <1>1, <1>10 DEF ReceiveNothing, Produce, RetentionEnds, OperatorTakes, OperatorAcks,
     OperatorDrops, ClockTick, vars
<1> QED
  BY <1>3, <1>4, <1>5, <1>7, <1>8, <1>9, <1>10 DEF Next, WorkerStep

\* A queue consumer dead-letters a message only if the function failed in that
\* cycle: its ack is outside the try block of the computation, so a failed ack
\* never reaches the catch block that gives the message up.
THEOREM ConsumerDeadLetters == Spec => []ConsumersDeadLetterFailures
<1>1. Init => IInv /\ ConsumerInv
  <2>1. Init => ConsumerInv
    BY DEF Init, ConsumerInv, Idle, Workers
  <2> QED BY <2>1, InitIInv
<1>2. IInv /\ ConsumerInv /\ [Next]_vars => (IInv /\ ConsumerInv)'
  BY StepIInv, StepConsumer
<1>3. IInv /\ ConsumerInv => ConsumersDeadLetterFailures
  BY DEF ConsumerInv, ConsumersDeadLetterFailures
<1> QED BY <1>1, <1>2, <1>3, PTL DEF Spec

=============================================================================
