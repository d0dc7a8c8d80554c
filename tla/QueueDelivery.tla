--------------------------- MODULE QueueDelivery ---------------------------
(***************************************************************************)
(* Queue consumers over the SQLite queue: the worker cycles of             *)
(* WorkerSupervisor (apps/worker/worker-supervisor.ts) and                 *)
(* QueueConsumerWorker.processNext (apps/worker/queue-consumer.ts), and an *)
(* operator who drains the provider's dead-letter queue.  Each await of a  *)
(* cycle ends an action: other workers, the clock, a crash of the worker's *)
(* process and failures of the calls happen in between.                    *)
(***************************************************************************)
EXTENDS SqliteQueue

CONSTANTS Supervised,           \* workers that run WorkerSupervisor cycles
          Consumers,            \* workers that run QueueConsumerWorker.processNext
          ConsumerMaxReceives,  \* the consumers' maxReceives option
          DlqProviders,         \* what the workers' dlqProvider may be: "none", "store"
                                \* (a queue of its own), "failing" (one that may reject)
                                \* or "deadLetter" (SQLiteQueueProvider's)
          MaxCrashes,           \* bound on the worker crashes of a behaviour
          NoMessage

Workers == Supervised \cup Consumers

ASSUME DeliveryConstants ==
  /\ Supervised \cap Consumers = {}
  /\ ConsumerMaxReceives \in Nat \ {0}
  /\ DlqProviders \subseteq {"none", "store", "failing", "deadLetter"}
  /\ MaxCrashes \in Nat
  /\ NoMessage \notin Messages

VARIABLES
  work,          \* per worker: where its cycle is and the message it holds
  operator,      \* the message the operator took from the dead-letter queue
  invoked,       \* history: the attempt numbers each message was invoked with
  succeeded,     \* history: messages some invocation completed for
  deadLettered,  \* messages stored by dlqProvider.send
  drained,       \* history: messages the operator acked from the DLQ
  crashes,       \* worker crashes so far
  dlqProvider    \* the option all workers were given

vars == <<table, work, operator, invoked, succeeded, deadLettered, drained, crashes, dlqProvider>>

\* A worker between cycles; "marking" is inside receive, before its second
\* UPDATE.  computed records that the function completed in this cycle.
Idle == [pc |-> "idle", msg |-> NoMessage, attempts |-> 0, computed |-> FALSE]

WorkState == [pc : {"idle", "marking", "received", "running", "acking",
                    "deadLetter", "finalAck"},
              msg : Messages \cup {NoMessage},
              attempts : Nat,
              computed : BOOLEAN]

TypeOK ==
  /\ QueueTypeOK
  /\ work \in [Workers -> WorkState]
  /\ operator \in Messages \cup {NoMessage}
  /\ invoked \in [Messages -> SUBSET Nat]
  /\ succeeded \subseteq Messages
  /\ deadLettered \subseteq Messages
  /\ drained \subseteq Messages
  /\ crashes \in 0..MaxCrashes
  /\ dlqProvider \in DlqProviders

Init ==
  /\ QueueInit
  /\ work = [w \in Workers |-> Idle]
  /\ operator = NoMessage
  /\ invoked = [m \in Messages |-> {}]
  /\ succeeded = {}
  /\ deadLettered = {}
  /\ drained = {}
  /\ crashes = 0
  /\ dlqProvider \in DlqProviders

----------------------------------------------------------------------------
\* The attempt count at which a failed message is given up on.
ReceiveLimit(w) == IF w \in Supervised THEN MaxReceives ELSE ConsumerMaxReceives

\* Mutant of AfterError: an exhausted message is acked without the DLQ.
AfterErrorSkipsDlq(w) ==
  IF work[w].attempts < ReceiveLimit(w) THEN Idle ELSE [work[w] EXCEPT !.pc = "finalAck"]

\* The catch block: give up on an exhausted message, leave any other unacked.
AfterError(w) ==
  IF work[w].attempts < ReceiveLimit(w) THEN Idle
  ELSE [work[w] EXCEPT !.pc = IF dlqProvider = "none" THEN "finalAck" ELSE "deadLetter"]

\* One iteration of the receive call's loop, when there is a message.
Receive(w) ==
  /\ work[w].pc = "idle"
  /\ \E m \in Messages :
       /\ Take(m)
       /\ work' = [work EXCEPT ![w] =
            [pc |-> IF table[m].attempts + 1 > MaxReceives THEN "marking" ELSE "received",
             msg |-> m, attempts |-> table[m].attempts + 1, computed |-> FALSE]]
  /\ UNCHANGED <<operator, invoked, succeeded, deadLettered, drained, crashes, dlqProvider>>

\* Empty queue: the worker sleeps and polls again.
ReceiveNothing(w) ==
  /\ work[w].pc = "idle"
  /\ TakeNothing
  /\ UNCHANGED <<work, operator, invoked, succeeded, deadLettered, drained, crashes, dlqProvider>>

\* receive dead-letters the exhausted message and goes round its loop.
ReceiveExhausted(w) ==
  /\ work[w].pc = "marking"
  /\ MarkDlq(work[w].msg)
  /\ work' = [work EXCEPT ![w] = Idle]
  /\ UNCHANGED <<operator, invoked, succeeded, deadLettered, drained, crashes, dlqProvider>>

\* stop() was called while receive was pending: the supervisor's cycle
\* returns without processing the message it was handed.
Abandon(w) ==
  /\ w \in Supervised /\ work[w].pc = "received"
  /\ work' = [work EXCEPT ![w] = Idle]
  /\ UNCHANGED <<table, operator, invoked, succeeded, deadLettered, drained, crashes, dlqProvider>>

\* computeProvider.run / invokeFunction is called.
Invoke(w) ==
  /\ work[w].pc = "received"
  /\ work' = [work EXCEPT ![w].pc = "running"]
  /\ invoked' = [invoked EXCEPT ![work[w].msg] = @ \cup {work[w].attempts}]
  /\ UNCHANGED <<table, operator, succeeded, deadLettered, drained, crashes, dlqProvider>>

Complete(w) ==
  /\ work[w].pc = "running"
  /\ work' = [work EXCEPT ![w] = [pc |-> "acking", msg |-> @.msg,
                                    attempts |-> @.attempts, computed |-> TRUE]]
  /\ succeeded' = succeeded \cup {work[w].msg}
  /\ UNCHANGED <<table, operator, invoked, deadLettered, drained, crashes, dlqProvider>>

\* The function threw, or was stopped at its time limit.
Fail(w) ==
  /\ work[w].pc = "running"
  /\ work' = [work EXCEPT ![w] = AfterError(w)]
  /\ UNCHANGED <<table, operator, invoked, succeeded, deadLettered, drained, crashes, dlqProvider>>

AckDone(w) ==
  /\ work[w].pc = "acking"
  /\ Ack(work[w].msg)
  /\ work' = [work EXCEPT ![w] = Idle]
  /\ UNCHANGED <<operator, invoked, succeeded, deadLettered, drained, crashes, dlqProvider>>

\* Mutant of AckError: every worker runs the catch block of the computation.
AckErrorShared(w) ==
  /\ work[w].pc = "acking"
  /\ work' = [work EXCEPT ![w] = AfterError(w)]
  /\ UNCHANGED <<table, operator, invoked, succeeded, deadLettered, drained, crashes, dlqProvider>>

\* The ack of a processed message fails.  The supervisor acks inside the try
\* block of the computation, so its catch block runs; a consumer gives up.
AckError(w) ==
  /\ work[w].pc = "acking"
  /\ work' = [work EXCEPT ![w] = IF w \in Supervised THEN AfterError(w) ELSE Idle]
  /\ UNCHANGED <<table, operator, invoked, succeeded, deadLettered, drained, crashes, dlqProvider>>

\* dlqProvider.send resolves; SQLiteQueueProvider.deadLetter.send resolves
\* without storing anything.
DlqSend(w) ==
  /\ work[w].pc = "deadLetter"
  /\ work' = [work EXCEPT ![w].pc = "finalAck"]
  /\ deadLettered' = IF dlqProvider = "deadLetter" THEN deadLettered
                                                   ELSE deadLettered \cup {work[w].msg}
  /\ UNCHANGED <<table, operator, invoked, succeeded, drained, crashes, dlqProvider>>

\* dlqProvider.send rejects: swallowed, the message is acked all the same.
DlqSendError(w) ==
  /\ dlqProvider = "failing"
  /\ work[w].pc = "deadLetter"
  /\ work' = [work EXCEPT ![w].pc = "finalAck"]
  /\ UNCHANGED <<table, operator, invoked, succeeded, deadLettered, drained, crashes, dlqProvider>>

FinalAck(w) ==
  /\ work[w].pc = "finalAck"
  /\ Ack(work[w].msg)
  /\ work' = [work EXCEPT ![w] = Idle]
  /\ UNCHANGED <<operator, invoked, succeeded, deadLettered, drained, crashes, dlqProvider>>

FinalAckError(w) ==
  /\ work[w].pc = "finalAck"
  /\ work' = [work EXCEPT ![w] = Idle]
  /\ UNCHANGED <<table, operator, invoked, succeeded, deadLettered, drained, crashes, dlqProvider>>

\* The worker's process dies and is restarted; it held no other state.
Crash(w) ==
  /\ work[w].pc # "idle" /\ crashes < MaxCrashes
  /\ work' = [work EXCEPT ![w] = Idle]
  /\ crashes' = crashes + 1
  /\ UNCHANGED <<table, operator, invoked, succeeded, deadLettered, drained, dlqProvider>>

----------------------------------------------------------------------------
Produce(m) ==
  /\ \E delay \in Delays : Send(m, delay)
  /\ UNCHANGED <<work, operator, invoked, succeeded, deadLettered, drained, crashes, dlqProvider>>

\* deadLetter.receive and deadLetter.ack by an operator, who may also drop
\* the message without acking it.
OperatorTakes ==
  /\ operator = NoMessage
  /\ \E m \in Messages : TakeDlq(m) /\ operator' = m
  /\ UNCHANGED <<work, invoked, succeeded, deadLettered, drained, crashes, dlqProvider>>

\* Mutant of OperatorAcks: the null answer of an empty queue is acked too.
OperatorAcksUnchecked ==
  /\ operator' = NoMessage
  /\ drained' = drained \cup {operator}
  /\ UNCHANGED <<table, work, invoked, succeeded, deadLettered, crashes, dlqProvider>>

OperatorAcks ==
  /\ operator # NoMessage
  /\ Ack(operator)
  /\ operator' = NoMessage
  /\ drained' = drained \cup {operator}
  /\ UNCHANGED <<work, invoked, succeeded, deadLettered, crashes, dlqProvider>>

OperatorDrops ==
  /\ operator # NoMessage
  /\ operator' = NoMessage
  /\ UNCHANGED <<table, work, invoked, succeeded, deadLettered, drained, crashes, dlqProvider>>

ClockTick ==
  /\ Tick
  /\ UNCHANGED <<work, operator, invoked, succeeded, deadLettered, drained, crashes, dlqProvider>>

RetentionEnds(m) ==
  /\ Expire(m)
  /\ UNCHANGED <<work, operator, invoked, succeeded, deadLettered, drained, crashes, dlqProvider>>

\* What a worker does on its own; the other half of its alternatives are faults.
WorkerStep(w) ==
  \/ Receive(w) \/ ReceiveNothing(w) \/ ReceiveExhausted(w) \/ Invoke(w)
  \/ Complete(w) \/ Fail(w) \/ AckDone(w) \/ AckError(w)
  \/ DlqSend(w) \/ DlqSendError(w) \/ FinalAck(w) \/ FinalAckError(w)

Next ==
  \/ \E w \in Workers : WorkerStep(w) \/ Abandon(w) \/ Crash(w)
  \/ \E m \in Messages : Produce(m) \/ RetentionEnds(m)
  \/ OperatorTakes \/ OperatorAcks \/ OperatorDrops
  \/ ClockTick

Spec == Init /\ [][Next]_vars

\* The event loop runs every started worker and time passes.
Fairness == (\A w \in Workers : WF_vars(WorkerStep(w))) /\ WF_vars(ClockTick)

FairSpec == Spec /\ Fairness

----------------------------------------------------------------------------
\* A message leaves the table only once some invocation completed for it, or
\* a dead-letter queue or the operator has it, or its retention ended: late
\* acks by workers whose visibility timeout passed, crashes and failed acks
\* lose nothing (Q-1).  It needs a dlqProvider that stores what it is sent.
NoMessageLost ==
  dlqProvider = "store" => \A m \in Messages :
    table[m].state = "gone" =>
      m \in succeeded \cup deadLettered \cup drained \/ table[m].expired

\* Each attempt number is used for at most one invocation and never exceeds
\* MaxReceives, so a function sees a message at most MaxReceives times,
\* whatever crashes, late acks and redeliveries happen (Q-3).
BoundedDeliveries ==
  /\ \A m \in Messages : invoked[m] \subseteq 1..MaxReceives
  /\ \A w \in Workers :
       work[w].pc = "received" => work[w].attempts \notin invoked[work[w].msg]

\* Two workers never hold the same delivery: the attempt number tells apart
\* a redelivery from the delivery it overtook.
DistinctDeliveries ==
  \A v, w \in Workers :
    v # w /\ work[v].pc # "idle" /\ work[w].pc # "idle" /\ work[v].msg = work[w].msg
      => work[v].attempts # work[w].attempts

\* A message in the provider's dead-letter queue had all its receives, and
\* stays there, out of the workers' reach, until it is deleted.
DlqKept ==
  \A m \in Messages : table[m].isDlq =>
    /\ table[m].attempts > MaxReceives
    /\ table'[m].isDlq
    /\ table'[m].attempts = table[m].attempts

DlqIsFinal == [][DlqKept]_vars

\* A queue consumer sends a message to the dead-letter queue only when the
\* function failed in that very cycle: an ack that fails after the function
\* completed leaves the message to its visibility timeout.  (The supervisor
\* does dead-letter it then.)
ConsumersDeadLetterFailures ==
  \A w \in Consumers : work[w].pc = "deadLetter" => ~work[w].computed

\* Every stored message is eventually deleted or dead-lettered, even if its
\* consumers fail, stop or crash on it (no infinite redelivery).
Settles ==
  \A m \in Messages : Stored(m) ~> (~Stored(m) \/ table[m].isDlq)

\* Deliveries are bounded and told apart: no message is invoked more often than
\* its receives allow, and no two workers hold it with one attempt number.
DeliveriesSound == BoundedDeliveries /\ DistinctDeliveries
=============================================================================
