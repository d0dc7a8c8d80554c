-------------------------- MODULE WorkerLifecycle --------------------------
(***************************************************************************)
(* Starting, stopping and draining the queue workers: a supervisor with    *)
(* one loop per unit of concurrency (apps/worker/worker-supervisor.ts) or  *)
(* a consumer with one loop (apps/worker/queue-consumer.ts).  What a loop  *)
(* does with a message is in QueueDelivery.                                *)
(*                                                                         *)
(* The steps of one promise's continuations run before anything else, in   *)
(* the order in which they were registered, so a stop that resolves clears *)
(* stopPromise and then resumes the start() that waits for it: one action. *)
(* A loop is identified by the start that spawned it and its slot.         *)
(***************************************************************************)
EXTENDS Integers, FiniteSets

CONSTANTS Workers,   \* the slots: units of concurrency of the supervisor's queues
          MaxCalls   \* calls of start and stop

ASSUME LifecycleConstants == Workers # {} /\ IsFiniteSet(Workers) /\ MaxCalls \in Nat

VARIABLES
  kind,           \* "supervisor" or "consumer"
  running,        \* the flag the loops look at
  stopping,       \* stopPromise is not null
  restart,        \* a start() awaits stopPromise
  aborted,        \* the supervisor's AbortSignal
  generation,     \* starts that spawned loops
  loops,          \* <<generation, slot>> -> what the loop awaits
  activeWorkers,  \* what getActiveWorkerCount returns
  calls,
  lastCall,       \* history
  overtaken       \* history: the last stop() joined one that a start() awaits

lifeVars == <<kind, running, stopping, restart, aborted, generation, loops,
              activeWorkers, calls, lastCall, overtaken>>
callVars == <<kind, calls, lastCall, overtaken>>

Generations == 1..MaxCalls
LoopIds == Generations \X Workers
Awaits == {"off",          \* not spawned yet or returned
           "receiving",    \* queueProvider.receive
           "processing",   \* the invocation, the dead-letter send and the acks
           "asleep",       \* a sleep with its timer armed
           "awake"}        \* a sleep that was cancelled

LifeTypeOK ==
  /\ kind \in {"supervisor", "consumer"}
  /\ running \in BOOLEAN /\ stopping \in BOOLEAN /\ restart \in BOOLEAN /\ aborted \in BOOLEAN
  /\ generation \in 0..MaxCalls
  /\ loops \in [LoopIds -> Awaits]
  /\ activeWorkers \in Int
  /\ calls \in 0..MaxCalls
  /\ lastCall \in {"none", "start", "stop"} /\ overtaken \in BOOLEAN

LifeInit ==
  /\ kind \in {"supervisor", "consumer"}
  /\ running = FALSE /\ stopping = FALSE /\ restart = FALSE /\ aborted = FALSE
  /\ generation = 0
  /\ loops = [i \in LoopIds |-> "off"]
  /\ activeWorkers = 0
  /\ calls = 0
  /\ lastCall = "none" /\ overtaken = FALSE

Live == {i \in LoopIds : loops[i] # "off"}

\* The loops that one start spawns: a consumer has one.
Slots == IF kind = "supervisor" THEN Workers ELSE {CHOOSE w \in Workers : TRUE}
Spawned(g) == {g} \X Slots

\* A supervisor counts its loops, a consumer does not.
Counted(n) == IF kind = "supervisor" THEN n ELSE activeWorkers

----------------------------------------------------------------------------
(* Calls. *)

CountCall == calls < MaxCalls /\ calls' = calls + 1

Called(call, over) == lastCall' = call /\ overtaken' = over /\ UNCHANGED kind

\* The body of start: the loops run up to their first receive.
Spawn ==
  /\ running' = TRUE
  /\ generation' = generation + 1
  /\ loops' = [i \in LoopIds |-> IF i \in Spawned(generation + 1) THEN "receiving" ELSE loops[i]]
  /\ activeWorkers' = Counted(Cardinality(Slots))

\* Mutant of Start: the supervisor does not wait for the stop under way.
StartAtOnce ==
  /\ CountCall /\ Called("start", FALSE)
  /\ IF running \/ aborted
       THEN UNCHANGED <<running, generation, loops, activeWorkers>>
       ELSE Spawn
  /\ UNCHANGED <<stopping, restart, aborted>>

\* start: nothing if it runs; while it stops, the supervisor's start waits and the
\* consumer's is ignored.  A start under an aborted signal stops itself at once.
Start ==
  /\ CountCall /\ Called("start", FALSE)
  /\ IF running \/ stopping \/ aborted
       THEN UNCHANGED <<running, generation, loops, activeWorkers>>
       ELSE Spawn
  /\ restart' = (restart \/ (stopping /\ kind = "supervisor"))
  /\ UNCHANGED <<stopping, aborted>>

\* Cancelling the sleeps: the loops that sleep continue.
WokenUp == [i \in LoopIds |-> IF loops[i] = "asleep" THEN "awake" ELSE loops[i]]

\* The synchronous part of stop.
BeginStop ==
  /\ stopping' = TRUE /\ running' = FALSE
  /\ loops' = WokenUp

\* stop: joins the one under way; nothing if nothing runs.
StopCalled ==
  /\ Called("stop", stopping /\ restart)
  /\ IF running
       THEN BeginStop
       ELSE UNCHANGED <<stopping, running, loops>>
  /\ UNCHANGED <<restart, generation, activeWorkers>>

Stop == CountCall /\ StopCalled /\ UNCHANGED aborted

\* The signal given to the supervisor fires; its listener, present while it runs,
\* calls stop.
Abort ==
  /\ kind = "supervisor" /\ ~aborted
  /\ aborted' = TRUE
  /\ IF running
       THEN StopCalled
       ELSE UNCHANGED <<running, stopping, restart, generation, loops, activeWorkers,
                        kind, lastCall, overtaken>>
  /\ UNCHANGED calls

\* Mutant of StopResolves: the loops are not awaited.
StopResolvesEarly ==
  /\ stopping
  /\ stopping' = FALSE /\ restart' = FALSE
  /\ IF restart /\ ~aborted
       THEN Spawn
       ELSE /\ activeWorkers' = Counted(0)
            /\ UNCHANGED <<running, generation, loops>>
  /\ UNCHANGED <<aborted, callVars>>

\* Mutant of StopResolves: a start that waited does not look at the signal.
StopResolvesUnaborted ==
  /\ stopping /\ Live = {}
  /\ stopping' = FALSE /\ restart' = FALSE
  /\ IF restart
       THEN Spawn
       ELSE /\ activeWorkers' = Counted(0)
            /\ UNCHANGED <<running, generation, loops>>
  /\ UNCHANGED <<aborted, callVars>>

\* Mutant of StopResolves: the start that waits is forgotten.
StopResolvesForgetful ==
  /\ stopping /\ Live = {}
  /\ stopping' = FALSE /\ restart' = FALSE
  /\ activeWorkers' = Counted(0)
  /\ UNCHANGED <<running, generation, loops, aborted, callVars>>

\* All loops have returned: stopPromise resolves, and a start that awaits it goes on.
StopResolves ==
  /\ stopping /\ Live = {}
  /\ stopping' = FALSE /\ restart' = FALSE
  /\ IF restart /\ ~aborted
       THEN Spawn
       ELSE /\ activeWorkers' = Counted(0)
            /\ UNCHANGED <<running, generation, loops>>
  /\ UNCHANGED <<aborted, callVars>>

----------------------------------------------------------------------------
(* Loops. *)

Resume(i, await) ==
  /\ loops' = [loops EXCEPT ![i] = await]
  /\ activeWorkers' = Counted(activeWorkers - (IF await = "off" THEN 1 ELSE 0))
  /\ UNCHANGED <<running, stopping, restart, aborted, generation, callVars>>

\* The loop's condition, and what the loop does next if it still runs.
IfRunning(await) == IF running THEN await ELSE "off"

\* A message: a supervised loop looks at the flag again, a consumer does not.
Received(i) ==
  /\ loops[i] = "receiving"
  /\ Resume(i, IF kind = "supervisor" THEN IfRunning("processing") ELSE "processing")

\* Mutant of NothingReceived: the flag is not looked at before the sleep.
NothingReceivedSleeps(i) ==
  /\ loops[i] = "receiving"
  /\ Resume(i, "asleep")

\* No message, or receive rejects: a sleep before the next attempt.
NothingReceived(i) ==
  /\ loops[i] = "receiving"
  /\ Resume(i, IfRunning("asleep"))

\* The message was handled.  A consumer whose function or ack failed sleeps first.
Processed(i) ==
  /\ loops[i] = "processing"
  /\ \/ Resume(i, IfRunning("receiving"))
     \/ kind = "consumer" /\ Resume(i, IfRunning("asleep"))

\* A sleep ends by its timer ...
TimerFires(i) == loops[i] = "asleep" /\ Resume(i, IfRunning("receiving"))

\* ... or was cancelled.
Cancelled(i) == loops[i] = "awake" /\ Resume(i, IfRunning("receiving"))

LoopStep(i) == Received(i) \/ NothingReceived(i) \/ Processed(i) \/ Cancelled(i)

LifeNext ==
  \/ Start \/ Stop \/ Abort \/ StopResolves
  \/ \E i \in LoopIds : LoopStep(i) \/ TimerFires(i)

----------------------------------------------------------------------------
\* Loops of two starts never run at once, and no slot has two: the loops that live
\* are the ones the last start spawned.
OneGeneration == Live \subseteq Spawned(generation)

\* getActiveWorkerCount is the number of loops, though start and stop both set it
\* and every loop decrements it.
ActiveCount == kind = "supervisor" => activeWorkers = Cardinality(Live)

\* Once a stop is through no loop runs, unless start was called since, or had been
\* called before and was waiting.  An aborted supervisor never runs again.
StopStops ==
  ~stopping /\ (aborted \/ (lastCall = "stop" /\ ~overtaken)) => Live = {}

\* stop resolves, though no timer may ever fire (PLAT-10).
StopEnds == stopping ~> ~stopping

\* A supervisor that is told to start, whatever it is doing, runs then or is told
\* to stop.
StartStarts ==
  kind = "supervisor" /\ lastCall = "start" ~> running \/ aborted \/ lastCall = "stop"

\* The loops of a supervisor are accounted for: those that live belong to one start,
\* and getActiveWorkerCount is their number.
LoopsAccounted == OneGeneration /\ ActiveCount
=============================================================================
