----------------------------- MODULE CloudQueue -----------------------------
(***************************************************************************)
(* ResilientQueueConsumerWorker over CloudflareQueueProvider: a worker     *)
(* polls, invokes the function, acknowledges a success, dead-letters a     *)
(* message that has failed too often and otherwise leaves it to the        *)
(* visibility timeout; it sleeps after every poll that did not end well,   *)
(* and can be stopped and started.  The provider remembers the lease of    *)
(* each delivery in a bounded map that all workers share.                  *)
(***************************************************************************)
EXTENDS Naturals, Sequences, FiniteSets, SequencesExt

CONSTANTS CloudMsgs, Consumers,
          MaxReceives,     \* maxReceives
          MaxLeases,       \* the 10,000 entries of #leaseMap
          MaxTries,     \* bound: deliveries of one message
          Nobody           \* no message

ASSUME CloudAssumption ==
  /\ MaxReceives \in Nat \ {0} /\ MaxLeases \in Nat \ {0} /\ MaxTries \in Nat \ {0}
  /\ Nobody \notin CloudMsgs /\ IsFiniteSet(CloudMsgs)

VARIABLES
  broker,     \* message -> state and number of deliveries; delivery n has lease n
  leases,     \* #leaseMap: message and lease, oldest entry first
  consumers,  \* the workers
  outcome     \* history: message -> what has become of it besides its place in the queue

cloudVars == <<broker, leases, consumers, outcome>>

IdleConsumer == [running |-> FALSE, stopping |-> FALSE, loops |-> 0, pc |-> "none", msg |-> Nobody, attempt |-> 0, good |-> FALSE]

CloudTypeOK ==
  /\ broker \in [CloudMsgs -> [state : {"absent", "ready", "leased", "gone"}, attempts : 0..MaxTries]]
  /\ leases \in Seq([msg : CloudMsgs, lease : 1..MaxTries]) /\ Len(leases) <= MaxLeases
  /\ Cardinality({leases[i].msg : i \in DOMAIN leases}) = Len(leases)
  /\ consumers \in [Consumers -> [running : BOOLEAN, stopping : BOOLEAN, loops : 0..2,
                                  pc : {"none", "poll", "invoking", "dlq", "ack", "sleep"},
                                  msg : CloudMsgs \cup {Nobody}, attempt : 0..MaxTries, good : BOOLEAN]]
  /\ outcome \in [CloudMsgs -> SUBSET {"handled", "dead-lettered", "dlq refused"}]

CloudInit ==
  /\ broker = [m \in CloudMsgs |-> [state |-> "absent", attempts |-> 0]]
  /\ leases = <<>> /\ consumers = [w \in Consumers |-> IdleConsumer] /\ outcome = [m \in CloudMsgs |-> {}]

----------------------------------------------------------------------------
\* The broker.

Send(m) ==
  /\ broker[m].state = "absent" /\ broker' = [broker EXCEPT ![m].state = "ready"]
  /\ UNCHANGED <<leases, consumers, outcome>>

\* sendBatch: one request; a batch that is not accepted as a whole is refused.
SendBatch(batch) ==
  /\ Cardinality(batch) > 1 /\ \A m \in batch : broker[m].state = "absent"
  /\ broker' = [m \in CloudMsgs |-> IF m \in batch THEN [broker[m] EXCEPT !.state = "ready"] ELSE broker[m]]
  /\ UNCHANGED <<leases, consumers, outcome>>

VisibilityTimeout(m) ==
  /\ broker[m].state = "leased" /\ broker[m].attempts < MaxTries
  /\ broker' = [broker EXCEPT ![m].state = "ready"]
  /\ UNCHANGED <<leases, consumers, outcome>>

\* The lease map: a full map loses its oldest entry; an entry that is set again keeps its place.
HasLease(m) == \E i \in DOMAIN leases : leases[i].msg = m
LeaseOf(m) == (CHOOSE i \in DOMAIN leases : leases[i].msg = m)
Remembered(m, lease) ==
  LET kept == IF Len(leases) >= MaxLeases THEN Tail(leases) ELSE leases
      at == {i \in DOMAIN kept : kept[i].msg = m}
  IN IF at = {} THEN Append(kept, [msg |-> m, lease |-> lease])
     ELSE [i \in DOMAIN kept |-> IF i \in at THEN [msg |-> m, lease |-> lease] ELSE kept[i]]
Forgotten(m) == IF HasLease(m) THEN RemoveAt(leases, LeaseOf(m)) ELSE leases

----------------------------------------------------------------------------
\* The worker.

Set(w, rec) == consumers' = [consumers EXCEPT ![w] = rec]

\* Mutant of Startable: a worker that is stopping may be started.
StartableStopping(w) == ~consumers[w].running

Startable(w) == ~consumers[w].running /\ ~consumers[w].stopping

StartConsumer(w) ==
  /\ Startable(w)
  /\ Set(w, [consumers[w] EXCEPT !.running = TRUE, !.loops = @ + 1, !.pc = IF @ = "none" THEN "poll" ELSE @])
  /\ UNCHANGED <<broker, leases, outcome>>

\* The loop goes on after processNext, or after its sleep, when the worker is still running.
LoopEnded(rec) == [rec EXCEPT !.pc = "none", !.loops = @ - 1, !.msg = Nobody, !.attempt = 0]
AfterProcessing(rec, processed) ==
  IF ~rec.running THEN LoopEnded(rec)
  ELSE [rec EXCEPT !.pc = IF processed THEN "poll" ELSE "sleep", !.msg = Nobody, !.attempt = 0]

\* Mutant of Stopped: a sleep is not cut short and its timer is dropped.
StoppedAsleep(rec) == [rec EXCEPT !.running = FALSE, !.stopping = TRUE]

\* stop(): a sleep ends at once.
Stopped(rec) ==
  LET off == [rec EXCEPT !.running = FALSE, !.stopping = TRUE]
  IN IF rec.pc = "sleep" THEN LoopEnded(off) ELSE off

StopConsumer(w) ==
  /\ consumers[w].running
  /\ Set(w, Stopped(consumers[w]))
  /\ UNCHANGED <<broker, leases, outcome>>

\* stop() returns when the loop has ended.
StopReturns(w) ==
  /\ consumers[w].stopping /\ consumers[w].loops = 0
  /\ Set(w, [consumers[w] EXCEPT !.stopping = FALSE])
  /\ UNCHANGED <<broker, leases, outcome>>

Wake(w) ==
  /\ consumers[w].pc = "sleep" /\ consumers[w].running
  /\ Set(w, [consumers[w] EXCEPT !.pc = "poll"])
  /\ UNCHANGED <<broker, leases, outcome>>

\* A message is pulled; the answer may be lost, which leaves the message leased.
Receive(w, m) ==
  /\ consumers[w].pc = "poll" /\ broker[m].state = "ready" /\ broker[m].attempts < MaxTries
  /\ LET n == broker[m].attempts + 1 IN
     /\ broker' = [broker EXCEPT ![m] = [state |-> "leased", attempts |-> n]]
     /\ \/ /\ leases' = Remembered(m, n)
           /\ Set(w, [consumers[w] EXCEPT !.pc = "invoking", !.msg = m, !.attempt = n])
        \/ UNCHANGED leases /\ Set(w, AfterProcessing(consumers[w], FALSE))
  /\ UNCHANGED outcome

ReceivesNothing(w) ==
  /\ consumers[w].pc = "poll" /\ \A m \in CloudMsgs : broker[m].state # "ready"
  /\ Set(w, AfterProcessing(consumers[w], FALSE))
  /\ UNCHANGED <<broker, leases, outcome>>

\* The pull does not get there, is refused, or its answer cannot be read.
RequestFails(w) ==
  /\ consumers[w].pc = "poll"
  /\ Set(w, AfterProcessing(consumers[w], FALSE))
  /\ UNCHANGED <<broker, leases, outcome>>

\* Mutant of Exhausted: every failure counts as the last.
ExhaustedAlways(attempt) == attempt > 0

Exhausted(attempt) == attempt >= MaxReceives

\* The function has run.
Invoked(w, ok) ==
  /\ consumers[w].pc = "invoking"
  /\ Set(w, IF ok THEN [consumers[w] EXCEPT !.pc = "ack", !.good = TRUE]
            ELSE IF Exhausted(consumers[w].attempt) THEN [consumers[w] EXCEPT !.pc = "dlq", !.good = FALSE]
            ELSE AfterProcessing(consumers[w], FALSE))
  /\ outcome' = IF ok THEN [outcome EXCEPT ![consumers[w].msg] = @ \cup {"handled"}] ELSE outcome
  /\ UNCHANGED <<broker, leases>>

\* A dead letter that is refused, or has nowhere to go, does not keep the message.
DeadLetter(w, ok) ==
  /\ consumers[w].pc = "dlq"
  /\ outcome' = [outcome EXCEPT ![consumers[w].msg] = @ \cup {IF ok THEN "dead-lettered" ELSE "dlq refused"}]
  /\ Set(w, [consumers[w] EXCEPT !.pc = "ack"])
  /\ UNCHANGED <<broker, leases>>

\* What the broker does with an acknowledgement: by lease, it removes the message of that delivery;
\* by id, it may or may not know it.
AckRemoves(m, byId) ==
  /\ broker[m].state \in {"leased", "ready"}
  /\ IF HasLease(m) THEN leases[LeaseOf(m)].lease = broker[m].attempts /\ broker[m].state = "leased" ELSE byId

\* ack(): the lease is forgotten before the request, whose answer may be lost.
Ack(w, carried, answered, byId) ==
  /\ consumers[w].pc = "ack"
  /\ LET m == consumers[w].msg IN
     /\ leases' = Forgotten(m)
     /\ broker' = IF carried /\ AckRemoves(m, byId) THEN [broker EXCEPT ![m].state = "gone"] ELSE broker
  /\ Set(w, AfterProcessing(consumers[w], carried /\ answered /\ consumers[w].good))
  /\ UNCHANGED outcome

WorkerStep(w) ==
  \/ StopReturns(w) \/ Wake(w) \/ ReceivesNothing(w) \/ RequestFails(w) \/ \E m \in CloudMsgs : Receive(w, m)
  \/ \E ok \in BOOLEAN : Invoked(w, ok) \/ DeadLetter(w, ok) \/ \E answered, byId \in BOOLEAN : Ack(w, ok, answered, byId)

CloudNext ==
  \/ \E m \in CloudMsgs : Send(m) \/ VisibilityTimeout(m)
  \/ \E batch \in SUBSET CloudMsgs : SendBatch(batch)
  \/ \E w \in Consumers : WorkerStep(w) \/ StartConsumer(w) \/ StopConsumer(w)

\* The event loop runs the worker, and an invocation ends, at the latest at its deadline.
CloudFairness == \A w \in Consumers : WF_cloudVars(WorkerStep(w))
CloudSpec == CloudInit /\ [][CloudNext]_cloudVars /\ CloudFairness

----------------------------------------------------------------------------
\* start and stop in any order never leave a worker with two polling loops, and a stop that has
\* returned leaves none.
OneLoop ==
  \A w \in Consumers : LET c == consumers[w] IN
    c.loops <= 1 /\ (~c.running /\ ~c.stopping => c.loops = 0 /\ c.pc = "none")

\* At least once: a message leaves the queue only after the function has handled it, or after its
\* last attempt has sent it to the dead letter queue (or tried to), whichever consumer's lease the
\* acknowledgement carried.
NeverDropped ==
  \A m \in CloudMsgs : broker[m].state = "gone" =>
    "handled" \in outcome[m] \/ (outcome[m] # {} /\ broker[m].attempts >= MaxReceives)

\* "Clean shutdown without hanging": stop() returns, from a sleep as from the middle of a message.
ConsumerStops == \A w \in Consumers : consumers[w].stopping ~> ~consumers[w].stopping

\* The consumer of a remote queue runs one loop at a time and removes no message that
\* was neither handled nor at its last attempt, though the bounded map of leases is shared.
CloudQueueSound == CloudTypeOK /\ OneLoop /\ NeverDropped
=============================================================================
