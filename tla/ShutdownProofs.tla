--------------------------- MODULE ShutdownProofs ---------------------------
(***************************************************************************)
(* Theorems about what starts and stops: the life cycle of the workers and *)
(* the coordinator that shuts them down, the consumers of the Cloudflare   *)
(* queue, and the listener of a login, for any number of workers, servers, *)
(* calls, messages and callbacks.                                          *)
(***************************************************************************)
EXTENDS ShutdownCoordinator, CloudQueue, CliLogin, FiniteSetTheorems, FunctionTheorems, SequenceTheorems, TLAPS

\* The flags exclude each other, and loops live only while it runs or stops.
FlagInv ==
  /\ running => ~stopping /\ ~aborted
  /\ restart => stopping
  /\ ~running /\ ~stopping => Live = {}

\* Every spawn was paid for by a call of start.
BudgetInv == generation + (IF restart THEN 1 ELSE 0) <= calls

\* After a stop that no waiting start overtakes, nothing is to run.
CallInv == lastCall = "stop" /\ ~overtaken => ~running /\ ~restart

\* What the calls and the loops preserve by themselves.
LifeInv == LifeTypeOK /\ FlagInv /\ BudgetInv /\ CallInv /\ OneGeneration

USE LifecycleConstants, CoordinatorConstants

\* Initially nothing runs.
LEMMA InitLife == LifeInit => LifeInv
  <1> SUFFICES ASSUME LifeInit PROVE LifeInv
    OBVIOUS
  <1>1. LifeTypeOK
    <2>1. loops \in [LoopIds -> Awaits]
      BY DEF LifeInit, Awaits
    <2>2. /\ running \in BOOLEAN /\ stopping \in BOOLEAN /\ restart \in BOOLEAN
          /\ aborted \in BOOLEAN /\ overtaken \in BOOLEAN
      BY DEF LifeInit
    <2> QED BY <2>1, <2>2 DEF LifeInit, LifeTypeOK
  <1>3. BudgetInv /\ CallInv
    BY DEF LifeInit, BudgetInv, CallInv
  <1>2. Live = {}
    BY DEF LifeInit, Live
  <1> QED BY <1>1, <1>2, <1>3 DEF LifeInit, LifeInv, FlagInv, OneGeneration

\* A spawn when no loop lives leaves exactly its own.
LEMMA SpawnStep ==
  ASSUME LifeInv, Spawn, Live = {}, generation + 1 <= MaxCalls, UNCHANGED kind
  PROVE  /\ generation' = generation + 1
         /\ generation' \in 0..MaxCalls
         /\ loops' \in [LoopIds -> Awaits]
         /\ activeWorkers' \in Int
         /\ OneGeneration'
  <1>1. generation' = generation + 1 /\ generation' \in 0..MaxCalls
    BY DEF LifeInv, LifeTypeOK, Spawn
  <1>2. loops' \in [LoopIds -> Awaits]
    BY DEF LifeInv, LifeTypeOK, Spawn, Awaits
  <1>3. Cardinality(Slots) \in Int
    <2>1. IsFiniteSet(Slots)
      BY FS_Singleton DEF Slots
    <2> QED BY <2>1, FS_CardinalityType
  <1>4. activeWorkers' \in Int
    BY <1>3 DEF LifeInv, LifeTypeOK, Spawn, Counted
  <1>5. OneGeneration'
    BY <1>1, <1>2 DEF OneGeneration, Live, Spawn, Spawned, Slots
  <1> QED BY <1>1, <1>2, <1>4, <1>5

\* stop keeps the life-cycle invariant, whoever calls it.
LEMMA StopCalledStep ==
  ASSUME LifeInv, StopCalled, calls' \in 0..MaxCalls, calls' >= calls,
         aborted' \in BOOLEAN, ~running => aborted' = aborted \/ ~running'
  PROVE  LifeInv'
  <1>1. loops' \in [LoopIds -> Awaits]
    BY DEF LifeInv, LifeTypeOK, StopCalled, BeginStop, WokenUp, Awaits
  <1>2. Live' \subseteq Live
    BY DEF LifeInv, LifeTypeOK, StopCalled, BeginStop, WokenUp, Live, Awaits
  <1>3. LifeTypeOK'
    BY <1>1 DEF LifeInv, LifeTypeOK, StopCalled, BeginStop, Called
  <1>4. FlagInv'
    BY <1>2 DEF LifeInv, LifeTypeOK, FlagInv, StopCalled, BeginStop
  <1>5. BudgetInv'
    BY DEF LifeInv, LifeTypeOK, BudgetInv, StopCalled
  <1>6. CallInv'
    BY DEF LifeInv, LifeTypeOK, FlagInv, CallInv, StopCalled, BeginStop, Called
  <1>7. OneGeneration'
    <2>1. Spawned(generation)' = Spawned(generation)
      BY DEF StopCalled, Called, Spawned, Slots
    <2> QED BY <1>2, <2>1 DEF LifeInv, OneGeneration
  <1> QED BY <1>3, <1>4, <1>5, <1>6, <1>7 DEF LifeInv

\* start keeps it: it spawns only when nothing runs or stops.
LEMMA StartStep == ASSUME LifeInv, Start PROVE LifeInv'
  <1>1. CASE running \/ stopping \/ aborted
    <2>1. UNCHANGED <<running, generation, loops, activeWorkers, stopping, aborted, kind>>
      BY <1>1 DEF Start, Called
    <2>2. /\ calls' = calls + 1 /\ calls' \in 0..MaxCalls
          /\ restart' = (restart \/ (stopping /\ kind = "supervisor"))
          /\ lastCall' = "start" /\ overtaken' = FALSE
      BY DEF Start, CountCall, Called, LifeInv, LifeTypeOK
    <2>3. restart' \in BOOLEAN /\ (restart' => stopping)
      BY <2>2 DEF LifeInv, LifeTypeOK, FlagInv
    <2>4. LifeTypeOK'
      BY <2>1, <2>2, <2>3 DEF LifeInv, LifeTypeOK
    <2>5. Live' = Live /\ Spawned(generation)' = Spawned(generation)
      BY <2>1 DEF Live, Spawned, Slots
    <2>6. FlagInv' /\ CallInv' /\ OneGeneration'
      BY <2>1, <2>2, <2>3, <2>5 DEF LifeInv, FlagInv, CallInv, OneGeneration
    <2>7. BudgetInv'
      BY <2>1, <2>2 DEF LifeInv, LifeTypeOK, BudgetInv
    <2> QED BY <2>4, <2>6, <2>7 DEF LifeInv
  <1>2. CASE ~(running \/ stopping \/ aborted)
    <2>1. Live = {} /\ ~restart /\ generation + 1 <= calls + 1 /\ calls + 1 <= MaxCalls
      BY <1>2 DEF LifeInv, LifeTypeOK, FlagInv, BudgetInv, Start, CountCall
    <2>2. Spawn /\ UNCHANGED kind
      BY <1>2 DEF Start, Called
    <2>3. /\ generation' = generation + 1 /\ generation' \in 0..MaxCalls
          /\ loops' \in [LoopIds -> Awaits] /\ activeWorkers' \in Int /\ OneGeneration'
      BY <2>1, <2>2, SpawnStep DEF LifeInv, LifeTypeOK
    <2>4. LifeTypeOK'
      <3>1. restart' = FALSE
        BY <1>2, <2>1 DEF Start, LifeInv, LifeTypeOK
      <3>2. /\ running' \in BOOLEAN /\ stopping' \in BOOLEAN /\ restart' \in BOOLEAN
            /\ aborted' \in BOOLEAN /\ overtaken' \in BOOLEAN
        BY <2>2, <3>1 DEF Start, Called, Spawn, LifeInv, LifeTypeOK
      <3>3. calls' \in 0..MaxCalls /\ lastCall' = "start" /\ kind' = kind
        BY <2>1 DEF Start, CountCall, Called, LifeInv, LifeTypeOK
      <3> QED BY <2>3, <3>2, <3>3 DEF LifeInv, LifeTypeOK
    <2>5. FlagInv' /\ CallInv'
      BY <1>2, <2>1, <2>2 DEF Start, Called, Spawn, FlagInv, CallInv, LifeInv, LifeTypeOK
    <2>6. BudgetInv'
      BY <1>2, <2>1, <2>3 DEF Start, CountCall, BudgetInv, LifeInv, LifeTypeOK
    <2> QED BY <2>3, <2>4, <2>5, <2>6 DEF LifeInv
  <1> QED BY <1>1, <1>2

\* A stop that resolves keeps it: all loops have returned.
LEMMA StopResolvesStep == ASSUME LifeInv, StopResolves PROVE LifeInv'
  <1>1. ~running /\ stopping /\ Live = {} /\ UNCHANGED <<kind, aborted, callVars>>
    BY DEF LifeInv, FlagInv, StopResolves, callVars
  <1>2. CASE restart /\ ~aborted
    <2>1. generation + 1 <= calls /\ generation + 1 <= MaxCalls
      BY <1>2 DEF LifeInv, LifeTypeOK, BudgetInv
    <2>2. Spawn
      BY <1>2 DEF StopResolves
    <2>3. /\ generation' = generation + 1 /\ generation' \in 0..MaxCalls
          /\ loops' \in [LoopIds -> Awaits] /\ activeWorkers' \in Int /\ OneGeneration'
      BY <1>1, <2>1, <2>2, SpawnStep
    <2>4. LifeTypeOK'
      BY <1>1, <2>2, <2>3 DEF StopResolves, Spawn, LifeInv, LifeTypeOK, callVars
    <2>5. FlagInv' /\ CallInv'
      BY <1>1, <1>2, <2>2 DEF StopResolves, Spawn, FlagInv, CallInv, LifeInv, LifeTypeOK, callVars
    <2>6. BudgetInv'
      BY <1>1, <2>1, <2>3 DEF StopResolves, BudgetInv, LifeInv, LifeTypeOK, callVars
    <2> QED BY <2>3, <2>4, <2>5, <2>6 DEF LifeInv
  <1>3. CASE ~(restart /\ ~aborted)
    <2>1. /\ UNCHANGED <<running, generation, loops>>
          /\ activeWorkers' = Counted(0) /\ stopping' = FALSE /\ restart' = FALSE
      BY <1>3 DEF StopResolves
    <2>2. LifeTypeOK'
      <3>1. activeWorkers' \in Int
        BY <2>1 DEF Counted, LifeInv, LifeTypeOK
      <3>2. stopping' \in BOOLEAN /\ restart' \in BOOLEAN
        BY <2>1
      <3> QED BY <1>1, <2>1, <3>1, <3>2 DEF callVars, LifeInv, LifeTypeOK
    <2>3. Live' = {}
      BY <1>1, <2>1 DEF Live
    <2>4. FlagInv' /\ CallInv' /\ OneGeneration'
      BY <1>1, <2>1, <2>3 DEF callVars, LifeInv, FlagInv, CallInv, OneGeneration
    <2>5. BudgetInv'
      BY <1>1, <2>1 DEF callVars, LifeInv, LifeTypeOK, BudgetInv
    <2> QED BY <2>2, <2>4, <2>5 DEF LifeInv
  <1> QED BY <1>2, <1>3

\* A loop keeps it: a loop that has returned is not revived, and one that goes on
\* past the flag was running.
LEMMA ResumeStep ==
  ASSUME LifeInv, NEW i \in LoopIds, loops[i] # "off", NEW await \in Awaits, Resume(i, await)
  PROVE  LifeInv'
  <1>1. loops' \in [LoopIds -> Awaits] /\ Live' \subseteq Live
    BY DEF LifeInv, LifeTypeOK, Resume, Live
  <1>2. LifeTypeOK'
    BY <1>1 DEF Resume, Counted, callVars, LifeInv, LifeTypeOK
  <1>3. FlagInv' /\ BudgetInv' /\ CallInv'
    BY <1>1 DEF Resume, callVars, LifeInv, LifeTypeOK, FlagInv, BudgetInv, CallInv
  <1>4. OneGeneration'
    <2>1. Spawned(generation)' = Spawned(generation)
      BY DEF Resume, callVars, Spawned, Slots
    <2> QED BY <1>1, <2>1 DEF LifeInv, OneGeneration
  <1> QED BY <1>2, <1>3, <1>4 DEF LifeInv

\* Every step of the life cycle keeps it.
LEMMA LifeStep == ASSUME LifeInv, LifeNext PROVE LifeInv'
  <1>1. CASE Start
    BY <1>1, StartStep
  <1>2. CASE Stop
    <2>1. StopCalled /\ calls' \in 0..MaxCalls /\ calls' >= calls /\ aborted' = aborted
      BY <1>2 DEF Stop, CountCall, LifeInv, LifeTypeOK
    <2> QED BY <2>1, StopCalledStep DEF LifeInv, LifeTypeOK
  <1>3. CASE Abort
    <2>1. CASE running
      BY <1>3, <2>1, StopCalledStep DEF Abort, LifeInv, LifeTypeOK
    <2>2. CASE ~running
      BY <1>3, <2>2 DEF Abort, LifeInv, LifeTypeOK, FlagInv, BudgetInv, CallInv,
                        OneGeneration, Live, Spawned, Slots
    <2> QED BY <2>1, <2>2
  <1>4. CASE StopResolves
    BY <1>4, StopResolvesStep
  <1>5. ASSUME NEW i \in LoopIds, LoopStep(i) \/ TimerFires(i)
        PROVE  LifeInv'
    <2>1. /\ loops[i] # "off"
          /\ \E await \in Awaits : Resume(i, await)
      BY <1>5 DEF LoopStep, TimerFires, Received, NothingReceived, Processed, Cancelled,
                  IfRunning, Awaits
    <2>2. PICK await \in Awaits : Resume(i, await)
      BY <2>1
    <2> QED BY <2>1, <2>2, ResumeStep
  <1> QED BY <1>1, <1>2, <1>3, <1>4, <1>5 DEF LifeNext
\* A life-cycle step that spawns nothing sets no flag: it does not run that did not,
\* and it stops only if it ran.
LEMMA NoSpawn ==
  ASSUME LifeInv, LifeNext
  PROVE  /\ generation' \in Nat /\ generation <= generation'
         /\ generation' = generation => (running' => running) /\ (stopping' => stopping \/ running)
  <1>1. CASE Start
    BY <1>1 DEF Start, Spawn, LifeInv, LifeTypeOK
  <1>2. CASE Stop
    BY <1>2 DEF Stop, StopCalled, BeginStop, LifeInv, LifeTypeOK
  <1>3. CASE Abort
    BY <1>3 DEF Abort, StopCalled, BeginStop, LifeInv, LifeTypeOK
  <1>4. CASE StopResolves
    BY <1>4 DEF StopResolves, Spawn, LifeInv, LifeTypeOK
  <1>5. ASSUME NEW i \in LoopIds, LoopStep(i) \/ TimerFires(i)
        PROVE  UNCHANGED <<generation, running, stopping>>
    BY <1>5 DEF LoopStep, TimerFires, Received, NothingReceived, Processed, Cancelled, Resume
  <1> QED BY <1>1, <1>2, <1>3, <1>4, <1>5 DEF LifeNext, LifeInv, LifeTypeOK

----------------------------------------------------------------------------
(* The count of active workers. *)

\* The loops that live are finitely many.
LEMMA LiveFinite == IsFiniteSet(Live)
  <1>1. IsFiniteSet(LoopIds)
    <2>1. IsFiniteSet(1..MaxCalls)
      BY FS_Interval
    <2> QED BY <2>1, FS_Product DEF LoopIds, Generations
  <1> QED BY <1>1, FS_Subset DEF Live

\* A spawn counts the loops it spawns.
LEMMA SpawnCounts ==
  ASSUME LifeInv, Spawn, Live = {}, generation + 1 <= MaxCalls, UNCHANGED kind
  PROVE  ActiveCount'
  <1> SUFFICES ASSUME kind = "supervisor" PROVE activeWorkers' = Cardinality(Live')
    BY DEF ActiveCount
  <1>1. Slots = Workers /\ activeWorkers' = Cardinality(Workers)
    BY DEF Spawn, Counted, Slots
  <1>2. Live' = {generation + 1} \X Workers
    <2>1. {generation + 1} \X Workers \subseteq LoopIds
      BY DEF LifeInv, LifeTypeOK, LoopIds, Generations
    <2>2. Spawned(generation + 1) = {generation + 1} \X Workers
      BY <1>1 DEF Spawned
    <2> QED BY <2>1, <2>2 DEF Spawn, Live
  <1>3. Cardinality({generation + 1} \X Workers) = 1 * Cardinality(Workers)
    <2>1. IsFiniteSet({generation + 1}) /\ Cardinality({generation + 1}) = 1
      BY FS_Singleton
    <2> QED BY <2>1, FS_Product
  <1>4. Cardinality(Workers) \in Nat
    BY FS_CardinalityType
  <1> QED BY <1>1, <1>2, <1>3, <1>4

\* stop lets every loop live.
LEMMA StopCounts == ASSUME LifeInv, ActiveCount, StopCalled PROVE ActiveCount'
  <1>1. Live' = Live
    BY DEF LifeInv, LifeTypeOK, StopCalled, BeginStop, WokenUp, Live
  <1> QED BY <1>1 DEF ActiveCount, StopCalled, Called

\* A loop that returns is one less.
LEMMA ResumeCounts ==
  ASSUME LifeInv, ActiveCount, NEW i \in LoopIds, loops[i] # "off", NEW await \in Awaits,
         Resume(i, await)
  PROVE  ActiveCount'
  <1>1. kind' = kind
    BY DEF Resume, callVars
  <1>2. CASE await = "off"
    <2>1. Live' = Live \ {i} /\ i \in Live
      BY <1>2 DEF LifeInv, LifeTypeOK, Resume, Live
    <2>2. Cardinality(Live \ {i}) = Cardinality(Live) - 1
      BY <2>1, LiveFinite, FS_RemoveElement
    <2> QED BY <1>1, <1>2, <2>1, <2>2 DEF ActiveCount, Resume, Counted
  <1>3. CASE await # "off"
    <2>1. Live' = Live
      BY <1>3 DEF LifeInv, LifeTypeOK, Resume, Live
    <2>2. activeWorkers' = activeWorkers
      BY <1>3 DEF Resume, Counted, LifeInv, LifeTypeOK
    <2> QED BY <1>1, <2>1, <2>2 DEF ActiveCount
  <1> QED BY <1>2, <1>3

\* Every step of the life cycle keeps the count.
LEMMA CountStep == ASSUME LifeInv, ActiveCount, LifeNext PROVE ActiveCount'
  <1>1. CASE Start
    <2>1. CASE running \/ stopping \/ aborted
      <3>1. UNCHANGED <<loops, activeWorkers, kind>>
        BY <1>1, <2>1 DEF Start, Called
      <3> QED BY <3>1 DEF ActiveCount, Live
    <2>2. CASE ~(running \/ stopping \/ aborted)
      <3>1. Live = {} /\ ~restart /\ generation + 1 <= calls + 1 /\ calls + 1 <= MaxCalls
        BY <1>1, <2>2 DEF LifeInv, LifeTypeOK, FlagInv, BudgetInv, Start, CountCall
      <3>2. Spawn /\ UNCHANGED kind
        BY <1>1, <2>2 DEF Start, Called
      <3> QED BY <3>1, <3>2, SpawnCounts DEF LifeInv, LifeTypeOK
    <2> QED BY <2>1, <2>2
  <1>2. CASE Stop
    BY <1>2, StopCounts DEF Stop
  <1>3. CASE Abort
    <2>1. CASE running
      BY <1>3, <2>1, StopCounts DEF Abort
    <2>2. CASE ~running
      BY <1>3, <2>2 DEF Abort, ActiveCount, Live
    <2> QED BY <2>1, <2>2
  <1>4. CASE StopResolves
    <2>1. CASE restart /\ ~aborted
      <3>1. Spawn /\ Live = {} /\ UNCHANGED kind
        BY <1>4, <2>1 DEF StopResolves, callVars
      <3>2. generation + 1 <= MaxCalls
        BY <2>1 DEF LifeInv, LifeTypeOK, BudgetInv
      <3> QED BY <3>1, <3>2, SpawnCounts
    <2>2. CASE ~(restart /\ ~aborted)
      <3>1. Live' = {} /\ kind' = kind /\ activeWorkers' = Counted(0)
        BY <1>4, <2>2 DEF StopResolves, callVars, Live
      <3> QED BY <3>1, FS_EmptySet DEF ActiveCount, Counted
    <2> QED BY <2>1, <2>2
  <1>5. ASSUME NEW i \in LoopIds, LoopStep(i) \/ TimerFires(i)
        PROVE  ActiveCount'
    <2>1. /\ loops[i] # "off"
          /\ \E await \in Awaits : Resume(i, await)
      BY <1>5 DEF LoopStep, TimerFires, Received, NothingReceived, Processed, Cancelled,
                  IfRunning, Awaits
    <2>2. PICK await \in Awaits : Resume(i, await)
      BY <2>1
    <2> QED BY <2>1, <2>2, ResumeCounts
  <1> QED BY <1>1, <1>2, <1>3, <1>4, <1>5 DEF LifeNext

----------------------------------------------------------------------------
(* The coordinator. *)

ShutTypeOK ==
  /\ awaited \subseteq Targets /\ drained \subseteq Targets
  /\ accepting \in [Servers -> BOOLEAN]
  /\ inFlight \subseteq Servers
  /\ atDrain \in Nat

Draining == phase \in {"draining", "done"}

\* Nothing counts as drained before the drains begin, and a clean end counts all.
OrderInv == /\ drained # {} => Draining
            /\ clean => drained = Targets

\* From the call of its drain on the supervisor does not run, and once that drain
\* has resolved it has stopped, until the next spawn.
SupervisorInv ==
  /\ Draining => atDrain <= generation /\ (generation = atDrain => ~running)
  /\ Supervisor \in drained /\ generation = atDrain => ~stopping

\* A server that was drained and does not accept has no request in flight.
ServerInv == \A s \in Servers : s \in drained /\ ~accepting[s] => s \notin inFlight

Inv == LifeInv /\ ShutTypeOK /\ OrderInv /\ SupervisorInv /\ ServerInv

\* Initially nothing is shut down.
LEMMA InitInv == Init => Inv
  <1> SUFFICES ASSUME Init PROVE Inv
    OBVIOUS
  <1>1. LifeInv
    BY InitLife DEF Init
  <1>2. ShutTypeOK
    BY DEF Init, ShutTypeOK
  <1>3. OrderInv /\ SupervisorInv /\ ServerInv
    BY DEF Init, OrderInv, SupervisorInv, ServerInv, Draining
  <1> QED BY <1>1, <1>2, <1>3 DEF Inv

\* The life-cycle invariant is about its own variables only.
LEMMA LifeUnchanged == ASSUME LifeInv, UNCHANGED lifeVars PROVE LifeInv'
  <1>1. LifeTypeOK' /\ BudgetInv' /\ CallInv'
    BY DEF LifeInv, lifeVars, LifeTypeOK, BudgetInv, CallInv
  <1>2. Live' = Live /\ Spawned(generation)' = Spawned(generation)
    BY DEF lifeVars, Live, Spawned, Slots
  <1>3. FlagInv' /\ OneGeneration'
    BY <1>2 DEF LifeInv, lifeVars, FlagInv, OneGeneration
  <1> QED BY <1>1, <1>3 DEF LifeInv

\* A step of the life cycle keeps the invariant.
LEMMA LifeStepInv == ASSUME Inv, LifeNext, UNCHANGED shutVars PROVE Inv'
  <1>1. LifeInv'
    BY LifeStep DEF Inv
  <1>2. ShutTypeOK' /\ OrderInv' /\ ServerInv'
    BY DEF Inv, shutVars, ShutTypeOK, OrderInv, ServerInv, Draining
  <1>3. SupervisorInv'
    <2>1. /\ generation' \in Nat /\ generation <= generation'
          /\ generation' = generation => (running' => running) /\ (stopping' => stopping \/ running)
      BY NoSpawn DEF Inv
    <2>2. Supervisor \in drained => Draining
      BY DEF Inv, OrderInv
    <2>3. generation \in Nat /\ atDrain \in Nat
      BY DEF Inv, LifeInv, LifeTypeOK, ShutTypeOK
    <2> QED BY <2>1, <2>2, <2>3 DEF Inv, shutVars, SupervisorInv, Draining
  <1> QED BY <1>1, <1>2, <1>3 DEF Inv

\* Calling the drains keeps it: the supervisor is told to stop.
LEMMA BeginDrainInv == ASSUME Inv, BeginDrain PROVE Inv'
  <1>1. LifeInv'
    BY StopCalledStep DEF Inv, BeginDrain, LifeInv, LifeTypeOK
  <1>2. drained = {} /\ drained' = {}
    BY DEF Inv, OrderInv, Draining, BeginDrain
  <1>3. ShutTypeOK' /\ OrderInv' /\ ServerInv'
    BY <1>2 DEF Inv, BeginDrain, ShutTypeOK, OrderInv, ServerInv, Draining, Targets, LifeInv, LifeTypeOK
  <1>4. SupervisorInv'
    BY <1>2 DEF Inv, BeginDrain, StopCalled, BeginStop, SupervisorInv, LifeInv, LifeTypeOK
  <1> QED BY <1>1, <1>3, <1>4 DEF Inv

\* A drain that resolves keeps it.
LEMMA DrainResolvesInv == ASSUME Inv, NEW t \in Targets, DrainResolves(t) PROVE Inv'
  <1>1. LifeInv'
    BY LifeUnchanged DEF Inv, DrainResolves
  <1>2. ShutTypeOK'
    BY DEF Inv, DrainResolves, ShutTypeOK
  <1>3. OrderInv'
    BY DEF Inv, DrainResolves, ShutTypeOK, OrderInv, Draining
  <1>4. SupervisorInv'
    BY DEF Inv, DrainResolves, SupervisorInv, Draining, lifeVars
  <1>5. ServerInv'
    BY DEF Inv, DrainResolves, ServerInv, Active
  <1> QED BY <1>1, <1>2, <1>3, <1>4, <1>5 DEF Inv

\* Every step keeps the invariant.
LEMMA NextInv == Inv /\ [Next]_vars => Inv'
  <1> SUFFICES ASSUME Inv, [Next]_vars PROVE Inv'
    OBVIOUS
  <1>1. CASE LifeNext /\ UNCHANGED shutVars
    BY <1>1, LifeStepInv
  <1>2. CASE BeginDrain
    BY <1>2, BeginDrainInv
  <1>3. ASSUME NEW t \in Targets, DrainResolves(t) PROVE Inv'
    BY <1>3, DrainResolvesInv
  <1>4. CASE Shutdown
    <2>1. LifeInv'
      BY <1>4, LifeUnchanged DEF Inv, Shutdown
    <2>2. drained = {}
      BY <1>4 DEF Inv, OrderInv, Draining, Shutdown
    <2> QED BY <1>4, <2>1, <2>2
            DEF Inv, Shutdown, ShutTypeOK, OrderInv, SupervisorInv, ServerInv, Draining, lifeVars
  <1>5. CASE AllSettled \/ DrainTimeout
    <2>1. LifeInv'
      BY <1>5, LifeUnchanged DEF Inv, AllSettled, DrainTimeout
    <2>2. clean' => drained = Targets
      BY <1>5 DEF AllSettled, DrainTimeout
    <2>3. phase' = "done" /\ Draining /\ UNCHANGED <<awaited, drained, accepting, inFlight, atDrain>>
      BY <1>5 DEF AllSettled, DrainTimeout, Draining
    <2>4. UNCHANGED <<generation, running, stopping>>
      BY <1>5 DEF AllSettled, DrainTimeout, lifeVars
    <2> QED BY <2>1, <2>2, <2>3, <2>4
            DEF Inv, ShutTypeOK, OrderInv, SupervisorInv, ServerInv, Draining
  <1>6. ASSUME NEW t \in Targets, StopAccepting(t) PROVE Inv'
    <2>1. LifeInv'
      BY <1>6, LifeUnchanged DEF Inv, StopAccepting
    <2>2. drained = {}
      BY <1>6 DEF Inv, OrderInv, Draining, StopAccepting
    <2>3. ShutTypeOK'
      BY <1>6 DEF Inv, StopAccepting, ShutTypeOK
    <2> QED BY <1>6, <2>1, <2>2, <2>3
            DEF Inv, StopAccepting, OrderInv, SupervisorInv, ServerInv, Draining, lifeVars
  <1>7. ASSUME NEW s \in Servers, DrainRejects(s) PROVE Inv'
    <2>1. LifeInv'
      BY <1>7, LifeUnchanged DEF Inv, DrainRejects
    <2> QED BY <1>7, <2>1
            DEF Inv, DrainRejects, ShutTypeOK, OrderInv, SupervisorInv, ServerInv, Draining, lifeVars
  <1>8. ASSUME NEW s \in Servers, RequestArrives(s) \/ RequestEnds(s) PROVE Inv'
    <2>1. LifeInv'
      BY <1>8, LifeUnchanged DEF Inv, RequestArrives, RequestEnds
    <2>2. ShutTypeOK' /\ OrderInv' /\ SupervisorInv'
      BY <1>8 DEF Inv, RequestArrives, RequestEnds, ShutTypeOK, OrderInv, SupervisorInv, Draining, lifeVars
    <2>3. ServerInv'
      BY <1>8 DEF Inv, RequestArrives, RequestEnds, ServerInv
    <2> QED BY <2>1, <2>2, <2>3 DEF Inv
  <1>9. CASE UNCHANGED vars
    <2>1. LifeInv'
      BY <1>9, LifeUnchanged DEF Inv, vars
    <2> QED BY <1>9, <2>1
            DEF Inv, vars, lifeVars, shutVars, ShutTypeOK, OrderInv, SupervisorInv, ServerInv, Draining
  <1> QED BY <1>1, <1>2, <1>3, <1>4, <1>5, <1>6, <1>7, <1>8, <1>9 DEF Next

\* Loops of two starts never run at once, however start, stop, abort and shutdown
\* are interleaved: start waits for the stop under way.
THEOREM GenerationsApart == Spec => []OneGeneration
  <1>1. Inv => OneGeneration
    BY DEF Inv, LifeInv
  <1> QED BY <1>1, InitInv, NextInv, PTL DEF Spec

\* getActiveWorkerCount is the number of loops that live.
THEOREM CountIsExact == Spec => []ActiveCount
  <1>1. Init => ActiveCount
    <2>1. Init => Live = {} /\ activeWorkers = 0
      BY DEF Init, LifeInit, Live
    <2> QED BY <2>1, FS_EmptySet DEF ActiveCount
  <1>2. Inv /\ ActiveCount /\ [Next]_vars => ActiveCount'
    <2> SUFFICES ASSUME Inv, ActiveCount, [Next]_vars PROVE ActiveCount'
      OBVIOUS
    <2>1. CASE LifeNext /\ UNCHANGED shutVars
      BY <2>1, CountStep DEF Inv
    <2>2. CASE BeginDrain
      BY <2>2, StopCounts DEF Inv, BeginDrain
    <2>3. CASE UNCHANGED lifeVars
      BY <2>3 DEF ActiveCount, Live, lifeVars
    <2> QED BY <2>1, <2>2, <2>3
            DEF Next, vars, Shutdown, AllSettled, DrainTimeout, StopAccepting, DrainResolves,
                DrainRejects, RequestArrives, RequestEnds
  <1> QED BY <1>1, <1>2, InitInv, NextInv, PTL DEF Spec

\* The loops of a supervisor are accounted for: those that live are of one start and
\* getActiveWorkerCount is their number, however many workers there are and in whatever
\* order start, stop, abort and shutdown are called.
THEOREM LoopsAreAccounted == Spec => []LoopsAccounted
  <1>1. OneGeneration /\ ActiveCount => LoopsAccounted
    BY DEF LoopsAccounted
  <1> QED BY <1>1, GenerationsApart, CountIsExact, PTL

\* What the type of the coordinator needs beside the invariant.
CoordinatorInv ==
  /\ phase \in {"idle", "stopAccepting", "draining", "done"} /\ clean \in BOOLEAN
  /\ atDrain \in 0..MaxCalls
  /\ kind = "consumer" => activeWorkers = 0

\* A consumer counts nothing.
LEMMA ConsumerCounts == ASSUME LifeNext PROVE kind' = kind /\ (kind = "consumer" => activeWorkers' = activeWorkers)
  <1>1. Start \/ Stop \/ Abort \/ StopResolves \/ \E i \in LoopIds, await \in Awaits : Resume(i, await)
    BY DEF LifeNext, LoopStep, TimerFires, Received, NothingReceived, Processed, Cancelled, IfRunning, Awaits
  <1> QED BY <1>1 DEF Start, Stop, Abort, StopResolves, Spawn, StopCalled, Called, Resume, Counted, callVars

LEMMA CoordinatorStep == Inv /\ CoordinatorInv /\ [Next]_vars => CoordinatorInv'
  <1> SUFFICES ASSUME Inv, CoordinatorInv, [Next]_vars PROVE CoordinatorInv'
    OBVIOUS
  <1>1. CASE LifeNext /\ UNCHANGED shutVars
    BY <1>1, ConsumerCounts DEF CoordinatorInv, shutVars
  <1>2. CASE BeginDrain
    <2>1. generation \in 0..MaxCalls
      BY DEF Inv, LifeInv, LifeTypeOK
    <2> QED BY <1>2, <2>1 DEF BeginDrain, StopCalled, Called, CoordinatorInv
  <1>3. CASE AllSettled
    <2>1. clean' \in BOOLEAN
      BY <1>3 DEF AllSettled
    <2> QED BY <1>3, <2>1 DEF AllSettled, CoordinatorInv, lifeVars
  <1>4. CASE Shutdown \/ DrainTimeout
    BY <1>4 DEF Shutdown, DrainTimeout, CoordinatorInv, lifeVars
  <1>5. CASE UNCHANGED <<lifeVars, phase, clean, atDrain>>
    BY <1>5 DEF CoordinatorInv, lifeVars
  <1> QED BY <1>1, <1>2, <1>3, <1>4, <1>5
          DEF Next, vars, shutVars, StopAccepting, DrainResolves, DrainRejects, RequestArrives, RequestEnds

\* Every variable of the workers and the coordinator keeps its type; above all,
\* getActiveWorkerCount is never negative and never above the number of workers, though
\* start and stop set it and every loop that returns decrements it.
THEOREM LifecycleTypeCorrect == Spec => []TypeOK
  <1>1. Init => CoordinatorInv
    <2>1. Init => clean \in BOOLEAN /\ phase = "idle" /\ atDrain = 0 /\ activeWorkers = 0
      BY DEF Init, LifeInit
    <2>2. 0 \in 0..MaxCalls
      OBVIOUS
    <2> QED BY <2>1, <2>2 DEF CoordinatorInv
  <1>2. Inv /\ ActiveCount /\ CoordinatorInv => TypeOK
    <2> SUFFICES ASSUME Inv, ActiveCount, CoordinatorInv PROVE TypeOK
      OBVIOUS
    <2>1. IsFiniteSet(Workers) /\ Cardinality(Workers) \in Nat
      BY LifecycleConstants, FS_CardinalityType
    <2>2. activeWorkers \in 0..Cardinality(Workers)
      <3>1. CASE kind = "supervisor"
        <4> DEFINE S == {generation} \X Workers
        <4>1. Live \subseteq S
          BY <3>1 DEF Inv, LifeInv, OneGeneration, Spawned, Slots
        <4>2. IsFiniteSet({generation}) /\ Cardinality({generation}) = 1
          BY FS_Singleton
        <4>3. IsFiniteSet(S) /\ Cardinality(S) = 1 * Cardinality(Workers)
          BY <2>1, <4>2, FS_Product
        <4> HIDE DEF S
        <4>4. Cardinality(Live) <= Cardinality(S) /\ IsFiniteSet(Live)
          BY <4>1, <4>3, FS_Subset
        <4>5. Cardinality(Live) \in Nat
          BY <4>4, FS_CardinalityType
        <4> QED BY <2>1, <3>1, <4>3, <4>4, <4>5 DEF ActiveCount
      <3>2. CASE kind = "consumer"
        BY <2>1, <3>2 DEF CoordinatorInv
      <3> QED BY <3>1, <3>2 DEF Inv, LifeInv, LifeTypeOK
    <2>3. LifeTypeOK /\ ShutTypeOK
      BY DEF Inv, LifeInv
    <2> QED BY <2>2, <2>3 DEF CoordinatorInv, ShutTypeOK, TypeOK
  <1> QED BY <1>1, <1>2, InitInv, NextInv, CoordinatorStep, CountIsExact, PTL DEF Spec

\* After a stop that is through, or an abort, no loop runs, unless a start came
\* after it or was waiting before it.
THEOREM StoppedForGood == Spec => []StopStops
  <1>1. Inv => StopStops
    BY DEF Inv, LifeInv, FlagInv, CallInv, StopStops, LifeTypeOK
  <1> QED BY <1>1, InitInv, NextInv, PTL DEF Spec

\* A shutdown that resolves to true left no request on a server that stopped
\* accepting, and no loop that was not spawned during it.
THEOREM CleanIsIdle == Spec => []CleanMeansIdle
  <1>1. Inv => CleanMeansIdle
    <2> SUFFICES ASSUME Inv, phase = "done", clean PROVE CleanMeansIdle
      BY DEF CleanMeansIdle
    <2>1. drained = Targets /\ Draining
      BY DEF Inv, OrderInv, Draining
    <2>2. \A s \in inFlight : accepting[s]
      BY <2>1 DEF Inv, ServerInv, ShutTypeOK, Targets
    <2>3. generation = atDrain => Live = {}
      BY <2>1 DEF Inv, SupervisorInv, LifeInv, FlagInv, Targets
    <2> QED BY <2>2, <2>3 DEF CleanMeansIdle
  <1> QED BY <1>1, InitInv, NextInv, PTL DEF Spec

----------------------------------------------------------------------------
(* The map of leases.                                                       *)

Lease == [msg : CloudMsgs, lease : 1..MaxTries]

\* A message has one entry, and the map is bounded.
LeasesOK(s) ==
  /\ s \in Seq(Lease) /\ Len(s) <= MaxLeases
  /\ \A i, j \in 1..Len(s) : s[i].msg = s[j].msg => i = j

LEMMA LeasesCounted ==
  ASSUME NEW s, LeasesOK(s)
  PROVE  Cardinality({s[i].msg : i \in DOMAIN s}) = Len(s)
<1> DEFINE n == Len(s)
           T == {s[i].msg : i \in DOMAIN s}
           f == [i \in 1..n |-> s[i].msg]
<1>1. n \in Nat /\ DOMAIN s = 1..n
  BY LenProperties DEF LeasesOK
<1>2. f \in Bijection(1..n, T)
  <2>1. f \in [1..n -> T]
    BY <1>1
  <2>2. \A i, j \in 1..n : f[i] = f[j] => i = j
    BY DEF LeasesOK
  <2>3. \A t \in T : \E i \in 1..n : f[i] = t
    BY <1>1
  <2> HIDE DEF f, T
  <2> QED BY <2>1, <2>2, <2>3 DEF Bijection, Injection, Surjection, IsInjective
<1> HIDE DEF f, T, n
<1>3. ExistsBijection(1..n, T)
  BY <1>2 DEF ExistsBijection
<1>4. Cardinality(T) = n
  BY <1>1, <1>3, FS_CountingElements
<1> QED BY <1>4 DEF T, n

\* A sequence without one of its elements.
LEMMA RemoveAtProperties ==
  ASSUME NEW S, NEW s \in Seq(S), NEW k \in 1..Len(s)
  PROVE  /\ RemoveAt(s, k) \in Seq(S) /\ Len(RemoveAt(s, k)) = Len(s) - 1
         /\ \A i \in 1..Len(s) - 1 : RemoveAt(s, k)[i] = IF i < k THEN s[i] ELSE s[i + 1]
<1> DEFINE a == SubSeq(s, 1, k - 1)
           b == SubSeq(s, k + 1, Len(s))
<1>1. Len(s) \in Nat /\ k \in Nat /\ \A i \in 1..Len(s) : s[i] \in S
  BY LenProperties, ElementOfSeq
<1>2. a \in Seq(S) /\ Len(a) = k - 1 /\ \A i \in 1..k - 1 : a[i] = s[i]
  <2>1. \A i \in 1..k - 1 : s[i] \in S
    BY <1>1
  <2>2. /\ SubSeq(s, 1, k - 1) \in Seq(S)
        /\ Len(SubSeq(s, 1, k - 1)) = IF 1 <= k - 1 THEN (k - 1) - 1 + 1 ELSE 0
        /\ \A i \in 1..(k - 1) - 1 + 1 : SubSeq(s, 1, k - 1)[i] = s[1 + i - 1]
    BY <1>1, <2>1, SubSeqProperties
  <2> QED BY <1>1, <2>2
<1>3. b \in Seq(S) /\ Len(b) = Len(s) - k /\ \A i \in 1..Len(s) - k : b[i] = s[k + i]
  <2>1. \A i \in k + 1..Len(s) : s[i] \in S
    BY <1>1
  <2>2. /\ SubSeq(s, k + 1, Len(s)) \in Seq(S)
        /\ Len(SubSeq(s, k + 1, Len(s))) = IF k + 1 <= Len(s) THEN Len(s) - (k + 1) + 1 ELSE 0
        /\ \A i \in 1..Len(s) - (k + 1) + 1 : SubSeq(s, k + 1, Len(s))[i] = s[(k + 1) + i - 1]
    BY <1>1, <2>1, SubSeqProperties
  <2> QED BY <1>1, <2>2
<1>4. RemoveAt(s, k) = a \o b
  BY DEF RemoveAt
<1> HIDE DEF a, b
<1>5. /\ a \o b \in Seq(S) /\ Len(a \o b) = Len(a) + Len(b)
      /\ \A i \in 1..Len(a) + Len(b) : (a \o b)[i] = IF i <= Len(a) THEN a[i] ELSE b[i - Len(a)]
  BY <1>2, <1>3, ConcatProperties
<1>6. Len(a \o b) = Len(s) - 1
  BY <1>1, <1>2, <1>3, <1>5
<1>7. ASSUME NEW i \in 1..Len(s) - 1 PROVE (a \o b)[i] = IF i < k THEN s[i] ELSE s[i + 1]
  <2>1. (a \o b)[i] = IF i <= k - 1 THEN a[i] ELSE b[i - (k - 1)]
    BY <1>1, <1>2, <1>3, <1>5
  <2>2. CASE i < k
    BY <1>1, <1>2, <2>1, <2>2
  <2>3. CASE ~(i < k)
    <3>1. i - (k - 1) \in 1..Len(s) - k /\ k + (i - (k - 1)) = i + 1
      BY <1>1, <2>3
    <3>2. b[i - (k - 1)] = s[i + 1]
      BY <1>3, <3>1
    <3> QED BY <1>1, <2>1, <2>3, <3>2
  <2> QED BY <2>2, <2>3
<1> QED BY <1>4, <1>5, <1>6, <1>7

LEMMA ForgottenOK ==
  ASSUME LeasesOK(leases), NEW m
  PROVE  LeasesOK(Forgotten(m))
<1>1. CASE ~HasLease(m)
  BY <1>1 DEF Forgotten
<1>2. CASE HasLease(m)
  <2> DEFINE k == LeaseOf(m)
             r == RemoveAt(leases, k)
  <2>1. leases \in Seq(Lease) /\ Len(leases) \in Nat /\ DOMAIN leases = 1..Len(leases) /\ Len(leases) <= MaxLeases
    BY LenProperties DEF LeasesOK
  <2>2. k \in 1..Len(leases)
    BY <1>2, <2>1 DEF HasLease, LeaseOf
  <2> HIDE DEF k
  <2>3. /\ r \in Seq(Lease) /\ Len(r) = Len(leases) - 1
        /\ \A i \in 1..Len(leases) - 1 : r[i] = IF i < k THEN leases[i] ELSE leases[i + 1]
    BY <2>1, <2>2, RemoveAtProperties
  <2>4. Forgotten(m) = r
    BY <1>2 DEF Forgotten, k
  <2> HIDE DEF r
  <2>5. ASSUME NEW i \in 1..Len(r), NEW j \in 1..Len(r), r[i].msg = r[j].msg PROVE i = j
    <3> DEFINE x == IF i < k THEN i ELSE i + 1
               y == IF j < k THEN j ELSE j + 1
    <3>1. x \in 1..Len(leases) /\ y \in 1..Len(leases) /\ r[i] = leases[x] /\ r[j] = leases[y]
      BY <2>1, <2>2, <2>3
    <3>2. x = y
      BY <2>5, <3>1 DEF LeasesOK
    <3> QED BY <2>1, <2>2, <3>2
  <2>6. Len(r) <= MaxLeases
    BY <2>1, <2>3, CloudAssumption
  <2> QED BY <2>3, <2>4, <2>5, <2>6 DEF LeasesOK
<1> QED BY <1>1, <1>2

LEMMA RememberedOK ==
  ASSUME LeasesOK(leases), NEW m \in CloudMsgs, NEW l \in 1..MaxTries
  PROVE  LeasesOK(Remembered(m, l))
<1> DEFINE kept == IF Len(leases) >= MaxLeases THEN Tail(leases) ELSE leases
           at == {i \in DOMAIN kept : kept[i].msg = m}
           e == [msg |-> m, lease |-> l]
<1>1. leases \in Seq(Lease) /\ Len(leases) \in Nat /\ Len(leases) <= MaxLeases /\ MaxLeases \in Nat \ {0}
  BY LenProperties, CloudAssumption DEF LeasesOK
<1>2. e \in Lease
  BY DEF Lease
<1>3. kept \in Seq(Lease) /\ Len(kept) \in Nat /\ Len(kept) < MaxLeases /\ \A i, j \in 1..Len(kept) : kept[i].msg = kept[j].msg => i = j
  <2>1. CASE Len(leases) >= MaxLeases
    <3>1. leases # <<>>
      BY <1>1, <2>1, EmptySeq
    <3>2. /\ Tail(leases) \in Seq(Lease) /\ Len(Tail(leases)) = Len(leases) - 1
          /\ \A i \in 1..Len(Tail(leases)) : Tail(leases)[i] = leases[i + 1]
      BY <1>1, <3>1, HeadTailProperties
    <3>3. ASSUME NEW i \in 1..Len(Tail(leases)), NEW j \in 1..Len(Tail(leases)), Tail(leases)[i].msg = Tail(leases)[j].msg
          PROVE  i = j
      <4>1. i + 1 \in 1..Len(leases) /\ j + 1 \in 1..Len(leases) /\ leases[i + 1].msg = leases[j + 1].msg
        BY <1>1, <3>2, <3>3
      <4>2. i + 1 = j + 1
        BY <4>1 DEF LeasesOK
      <4> QED BY <1>1, <3>2, <4>2
    <3>4. kept = Tail(leases)
      BY <2>1
    <3>5. Len(Tail(leases)) \in Nat /\ Len(Tail(leases)) < MaxLeases
      BY <1>1, <2>1, <3>2, LenProperties
    <3>6. \A i, j \in 1..Len(Tail(leases)) : Tail(leases)[i].msg = Tail(leases)[j].msg => i = j
      BY <3>3
    <3> HIDE DEF kept
    <3> QED BY <3>2, <3>4, <3>5, <3>6
  <2>2. CASE ~(Len(leases) >= MaxLeases)
    BY <1>1, <2>2 DEF LeasesOK
  <2> QED BY <2>1, <2>2
<1>4. Remembered(m, l) = IF at = {} THEN Append(kept, e) ELSE [i \in DOMAIN kept |-> IF i \in at THEN e ELSE kept[i]]
  BY DEF Remembered
<1> HIDE DEF kept, e
<1>5. DOMAIN kept = 1..Len(kept)
  BY <1>3, LenProperties
<1>6. e.msg = m
  BY DEF e
<1>7. CASE at = {}
  <2> DEFINE a == Append(kept, e)
  <2>1. /\ a \in Seq(Lease) /\ Len(a) = Len(kept) + 1 /\ a[Len(kept) + 1] = e
        /\ \A i \in 1..Len(kept) : a[i] = kept[i]
    BY <1>2, <1>3, AppendProperties
  <2>2. \A i \in 1..Len(kept) : kept[i].msg # m
    BY <1>5, <1>7
  <2> HIDE DEF a
  <2>3. ASSUME NEW i \in 1..Len(a), NEW j \in 1..Len(a), a[i].msg = a[j].msg PROVE i = j
    <3>1. CASE i <= Len(kept) /\ j <= Len(kept)
      BY <1>3, <2>1, <2>3, <3>1
    <3>2. CASE i = Len(kept) + 1 /\ j <= Len(kept)
      BY <1>3, <1>6, <2>1, <2>2, <2>3, <3>2
    <3>3. CASE j = Len(kept) + 1 /\ i <= Len(kept)
      BY <1>3, <1>6, <2>1, <2>2, <2>3, <3>3
    <3>4. CASE i = Len(kept) + 1 /\ j = Len(kept) + 1
      BY <3>4
    <3> QED BY <1>3, <2>1, <3>1, <3>2, <3>3, <3>4
  <2>4. Len(a) <= MaxLeases
    BY <1>1, <1>3, <2>1
  <2> QED BY <1>4, <1>7, <2>1, <2>3, <2>4 DEF LeasesOK, a
<1>8. CASE at # {}
  <2>1. PICK k \in 1..Len(kept) : kept[k].msg = m
    BY <1>5, <1>8
  <2>2. at = {k}
    BY <1>3, <1>5, <2>1
  <2>3. Remembered(m, l) = [kept EXCEPT ![k] = e]
    BY <1>3, <1>4, <1>5, <1>8, <2>2
  <2> DEFINE a == [kept EXCEPT ![k] = e]
  <2>4. /\ a \in Seq(Lease) /\ Len(a) = Len(kept) /\ \A j \in 1..Len(kept) : a[j] = IF j = k THEN e ELSE kept[j]
    BY <1>2, <1>3, <2>1, ExceptSeq
  <2> HIDE DEF a
  <2>5. \A j \in 1..Len(kept) : a[j].msg = kept[j].msg
    BY <1>6, <2>1, <2>4
  <2>6. \A i, j \in 1..Len(a) : a[i].msg = a[j].msg => i = j
    BY <1>3, <2>4, <2>5
  <2>7. Len(a) <= MaxLeases
    BY <1>1, <1>3, <2>4
  <2> QED BY <2>3, <2>4, <2>6, <2>7 DEF LeasesOK, a
<1> QED BY <1>7, <1>8

----------------------------------------------------------------------------
(* The consumer of a remote queue: the inductive invariant, over the broker *)
(* b and the outcomes o.                                                    *)

Consumer == [running : BOOLEAN, stopping : BOOLEAN, loops : 0..2,
             pc : {"none", "poll", "invoking", "dlq", "ack", "sleep"},
             msg : CloudMsgs \cup {Nobody}, attempt : 0..MaxTries, good : BOOLEAN]
BrokerEntry == [state : {"absent", "ready", "leased", "gone"}, attempts : 0..MaxTries]
Outcomes == SUBSET {"handled", "dead-lettered", "dlq refused"}

\* There is a loop exactly while pc is somewhere, and only a worker that runs sleeps.
LoopOK(c) ==
  /\ c \in Consumer
  /\ c.loops = IF c.pc = "none" THEN 0 ELSE 1
  /\ c.running => c.pc # "none"
  /\ ~c.running /\ ~c.stopping => c.pc = "none"
  /\ c.pc = "sleep" => c.running

\* What may be removed from the queue after n deliveries with outcome s.
Accounted(s, n) == "handled" \in s \/ (s # {} /\ n >= MaxReceives)

\* The message a worker holds, which the broker has delivered at least as often.
HoldsOK(c, b, o) ==
  /\ c.pc \in {"invoking", "dlq", "ack"} => c.msg \in CloudMsgs /\ c.attempt <= b[c.msg].attempts
  /\ c.pc = "dlq" => c.attempt >= MaxReceives
  /\ c.pc = "ack" => Accounted(o[c.msg], c.attempt)

QueueOK(b, o) ==
  /\ b \in [CloudMsgs -> BrokerEntry] /\ o \in [CloudMsgs -> Outcomes]
  /\ \A m \in CloudMsgs : b[m].state = "gone" => Accounted(o[m], b[m].attempts)

CloudInv ==
  /\ QueueOK(broker, outcome) /\ LeasesOK(leases)
  /\ consumers \in [Consumers -> Consumer]
  /\ \A w \in Consumers : LoopOK(consumers[w]) /\ HoldsOK(consumers[w], broker, outcome)

\* Deliveries are only added, and so are outcomes.
OnlyMore(b, o, b2, o2) == \A m \in CloudMsgs : b[m].attempts <= b2[m].attempts /\ o[m] \subseteq o2[m]

LEMMA AccountedStays ==
  ASSUME NEW s, NEW t, s \subseteq t, NEW n \in Nat, NEW k \in Nat, n <= k, Accounted(s, n)
  PROVE  Accounted(t, k)
<1>1. MaxReceives \in Nat
  BY CloudAssumption
<1> QED BY <1>1 DEF Accounted

LEMMA HoldsStays ==
  ASSUME NEW b \in [CloudMsgs -> BrokerEntry], NEW b2 \in [CloudMsgs -> BrokerEntry], NEW o, NEW o2,
         OnlyMore(b, o, b2, o2), NEW c \in Consumer, HoldsOK(c, b, o)
  PROVE  HoldsOK(c, b2, o2)
<1>1. CASE c.pc \in {"invoking", "dlq", "ack"}
  <2>1. c.msg \in CloudMsgs /\ c.attempt <= b[c.msg].attempts
    BY <1>1 DEF HoldsOK
  <2>2. b[c.msg].attempts \in Nat /\ b2[c.msg].attempts \in Nat /\ c.attempt \in Nat /\ MaxTries \in Nat
    BY <2>1, CloudAssumption DEF BrokerEntry, Consumer
  <2>3. b[c.msg].attempts <= b2[c.msg].attempts /\ o[c.msg] \subseteq o2[c.msg]
    BY <2>1 DEF OnlyMore
  <2>4. c.attempt <= b2[c.msg].attempts
    BY <2>1, <2>2, <2>3
  <2>5. c.pc = "ack" => Accounted(o2[c.msg], c.attempt)
    <3> SUFFICES ASSUME c.pc = "ack" PROVE Accounted(o2[c.msg], c.attempt)
      OBVIOUS
    <3>1. Accounted(o[c.msg], c.attempt)
      BY DEF HoldsOK
    <3>2. c.attempt <= c.attempt
      BY <2>2
    <3> QED BY <2>2, <2>3, <3>1, <3>2, AccountedStays
  <2>6. c.pc = "dlq" => c.attempt >= MaxReceives
    BY DEF HoldsOK
  <2> QED BY <2>1, <2>4, <2>5, <2>6 DEF HoldsOK
<1>2. CASE c.pc \notin {"invoking", "dlq", "ack"}
  BY <1>2 DEF HoldsOK
<1> QED BY <1>1, <1>2

\* What a step of one worker has to show.
LEMMA ConsumerReplaced ==
  ASSUME CloudInv, NEW w \in Consumers, NEW c, LoopOK(c), consumers' = [consumers EXCEPT ![w] = c],
         QueueOK(broker', outcome'), LeasesOK(leases'), OnlyMore(broker, outcome, broker', outcome'),
         HoldsOK(c, broker', outcome')
  PROVE  CloudInv'
<1>1. c \in Consumer
  BY DEF LoopOK
<1>2. consumers' \in [Consumers -> Consumer] /\ consumers'[w] = c /\ \A v \in Consumers : v # w => consumers'[v] = consumers[v]
  BY <1>1 DEF CloudInv
<1>3. \A v \in Consumers : LoopOK(consumers'[v])
  BY <1>2 DEF CloudInv
<1>4. ASSUME NEW v \in Consumers PROVE HoldsOK(consumers'[v], broker', outcome')
  <2>1. CASE v = w
    BY <1>2, <2>1
  <2>2. CASE v # w
    <3>1. consumers[v] \in Consumer /\ HoldsOK(consumers[v], broker, outcome) /\ consumers'[v] = consumers[v]
      BY <1>2, <2>2 DEF CloudInv
    <3>2. broker \in [CloudMsgs -> BrokerEntry] /\ broker' \in [CloudMsgs -> BrokerEntry]
      BY DEF CloudInv, QueueOK
    <3> QED BY <3>1, <3>2, HoldsStays
  <2> QED BY <2>1, <2>2
<1> QED BY <1>2, <1>3, <1>4 DEF CloudInv

LEMMA MoreOfTheSame ==
  ASSUME CloudInv
  PROVE  OnlyMore(broker, outcome, broker, outcome)
<1>1. \A m \in CloudMsgs : broker[m].attempts \in 0..MaxTries
  BY DEF CloudInv, QueueOK, BrokerEntry
<1> QED BY <1>1, CloudAssumption DEF OnlyMore

\* A worker that no longer holds a message: the loop goes on or ends.
LEMMA AfterProcessingOK ==
  ASSUME NEW c, LoopOK(c), c.pc # "none", NEW p \in BOOLEAN
  PROVE  LoopOK(AfterProcessing(c, p)) /\ AfterProcessing(c, p).pc \in {"none", "poll", "sleep"}
<1>1. c \in Consumer /\ c.loops = 1 /\ 0 \in 0..2 /\ 0 \in 0..MaxTries
  BY CloudAssumption DEF LoopOK
<1>2. CASE ~c.running
  <2> DEFINE q == [c EXCEPT !.pc = "none", !.loops = c.loops - 1, !.msg = Nobody, !.attempt = 0]
  <2>1. AfterProcessing(c, p) = q
    BY <1>2 DEF AfterProcessing, LoopEnded
  <2>2. c.loops - 1 \in 0..2 /\ c.loops - 1 = 0
    BY <1>1
  <2>3. q \in Consumer /\ q.pc = "none" /\ q.loops = 0 /\ q.running = c.running
    BY <1>1, <2>2 DEF Consumer
  <2> HIDE DEF q
  <2>4. ~q.running
    BY <1>2, <2>3
  <2>5. LoopOK(q)
    BY <2>3, <2>4 DEF LoopOK
  <2> QED BY <2>1, <2>3, <2>5
<1>3. CASE c.running
  <2> DEFINE next == IF p THEN "poll" ELSE "sleep"
             q == [c EXCEPT !.pc = next, !.msg = Nobody, !.attempt = 0]
  <2>1. AfterProcessing(c, p) = q
    BY <1>3 DEF AfterProcessing
  <2>2. next \in {"poll", "sleep"}
    OBVIOUS
  <2> HIDE DEF next
  <2>3. q \in Consumer /\ q.pc = next /\ q.loops = 1 /\ q.running = c.running /\ q.stopping = c.stopping
    BY <1>1, <2>2 DEF Consumer
  <2> HIDE DEF q
  <2>4. q.running
    BY <1>3, <2>3
  <2>5. LoopOK(q)
    BY <2>2, <2>3, <2>4 DEF LoopOK
  <2> QED BY <2>1, <2>2, <2>3, <2>5
<1> QED BY <1>2, <1>3

LEMMA HoldsNothing ==
  ASSUME NEW c, c.pc \in {"none", "poll", "sleep"}, NEW b, NEW o
  PROVE  HoldsOK(c, b, o)
BY DEF HoldsOK

LEMMA AfterFailureOK ==
  ASSUME NEW c, LoopOK(c), c.pc # "none", NEW b, NEW o
  PROVE  LoopOK(AfterProcessing(c, FALSE)) /\ HoldsOK(AfterProcessing(c, FALSE), b, o)
<1>1. \A p \in BOOLEAN : LoopOK(AfterProcessing(c, p)) /\ AfterProcessing(c, p).pc \in {"none", "poll", "sleep"}
  BY AfterProcessingOK
<1> DEFINE q == AfterProcessing(c, FALSE)
<1>2. LoopOK(q) /\ q.pc \in {"none", "poll", "sleep"}
  BY <1>1, Zenon
<1> HIDE DEF q
<1>3. LoopOK(q) /\ HoldsOK(q, b, o)
  BY <1>2, HoldsNothing
<1> QED BY <1>3 DEF q

LEMMA TriesAreNumbers ==
  ASSUME NEW n \in 0..MaxTries
  PROVE  n \in Nat /\ n <= n
BY CloudAssumption

----------------------------------------------------------------------------
(* The steps.                                                               *)

\* Messages become ready and nothing else changes.
LEMMA ReadyStep ==
  ASSUME CloudInv, broker' \in [CloudMsgs -> BrokerEntry], UNCHANGED <<leases, consumers, outcome>>,
         \A x \in CloudMsgs : broker'[x].attempts = broker[x].attempts /\ (broker'[x].state = "gone" => broker'[x] = broker[x])
  PROVE  CloudInv'
<1>1. QueueOK(broker', outcome')
  BY DEF CloudInv, QueueOK
<1>2. OnlyMore(broker, outcome, broker', outcome')
  BY MoreOfTheSame DEF OnlyMore
<1>3. ASSUME NEW w \in Consumers PROVE HoldsOK(consumers'[w], broker', outcome')
  <2>1. consumers[w] \in Consumer /\ HoldsOK(consumers[w], broker, outcome)
    BY DEF CloudInv
  <2>2. consumers'[w] = consumers[w] /\ broker \in [CloudMsgs -> BrokerEntry]
    BY DEF CloudInv, QueueOK
  <2> QED BY <1>2, <2>1, <2>2, HoldsStays
<1> QED BY <1>1, <1>3 DEF CloudInv

LEMMA BrokerStep ==
  ASSUME CloudInv, NEW m \in CloudMsgs, Send(m) \/ VisibilityTimeout(m)
  PROVE  CloudInv'
<1> DEFINE e == [broker[m] EXCEPT !.state = "ready"]
<1>1. /\ broker' = [broker EXCEPT ![m] = e] /\ UNCHANGED <<leases, consumers, outcome>>
      /\ broker[m] \in BrokerEntry /\ broker \in [CloudMsgs -> BrokerEntry]
  BY DEF Send, VisibilityTimeout, CloudInv, QueueOK
<1>2. e \in BrokerEntry /\ e.state = "ready" /\ e.attempts = broker[m].attempts
  BY <1>1 DEF BrokerEntry
<1> HIDE DEF e
<1>3. /\ broker' \in [CloudMsgs -> BrokerEntry]
      /\ \A x \in CloudMsgs : broker'[x].attempts = broker[x].attempts /\ (broker'[x].state = "gone" => broker'[x] = broker[x])
  BY <1>1, <1>2
<1> QED BY <1>1, <1>3, ReadyStep

LEMMA BatchStep ==
  ASSUME CloudInv, NEW batch \in SUBSET CloudMsgs, SendBatch(batch)
  PROVE  CloudInv'
<1> DEFINE e(x) == [broker[x] EXCEPT !.state = "ready"]
<1>1. /\ broker' = [x \in CloudMsgs |-> IF x \in batch THEN e(x) ELSE broker[x]]
      /\ UNCHANGED <<leases, consumers, outcome>> /\ \A x \in CloudMsgs : broker[x] \in BrokerEntry
  BY DEF SendBatch, CloudInv, QueueOK
<1>2. \A x \in CloudMsgs : e(x) \in BrokerEntry /\ e(x).state = "ready" /\ e(x).attempts = broker[x].attempts
  BY <1>1 DEF BrokerEntry
<1> HIDE DEF e
<1>3. /\ broker' \in [CloudMsgs -> BrokerEntry]
      /\ \A x \in CloudMsgs : broker'[x].attempts = broker[x].attempts /\ (broker'[x].state = "gone" => broker'[x] = broker[x])
  BY <1>1, <1>2
<1> QED BY <1>1, <1>3, ReadyStep

\* Steps of a worker that leave the broker, the leases and the outcomes alone.
LEMMA ControlStep ==
  ASSUME CloudInv, NEW w \in Consumers,
         StartConsumer(w) \/ StopConsumer(w) \/ StopReturns(w) \/ Wake(w) \/ ReceivesNothing(w) \/ RequestFails(w)
  PROVE  CloudInv'
<1> DEFINE c == consumers[w]
<1>1. /\ broker' = broker /\ leases' = leases /\ outcome' = outcome /\ LoopOK(c) /\ c \in Consumer
      /\ HoldsOK(c, broker, outcome)
  BY DEF StartConsumer, StopConsumer, StopReturns, Wake, ReceivesNothing, RequestFails, CloudInv
<1>2. QueueOK(broker', outcome') /\ LeasesOK(leases') /\ OnlyMore(broker, outcome, broker', outcome')
  BY <1>1, MoreOfTheSame DEF CloudInv
<1>3. ASSUME NEW q, LoopOK(q), HoldsOK(q, broker, outcome), consumers' = [consumers EXCEPT ![w] = q]
      PROVE  CloudInv'
  BY <1>1, <1>2, <1>3, ConsumerReplaced
<1>4. c.loops \in {0, 1} /\ c.running \in BOOLEAN /\ c.stopping \in BOOLEAN
  BY <1>1 DEF LoopOK, Consumer
<1>5. CASE StartConsumer(w)
  <2> DEFINE q == [c EXCEPT !.running = TRUE, !.loops = c.loops + 1, !.pc = IF c.pc = "none" THEN "poll" ELSE c.pc]
  <2>1. ~c.running /\ ~c.stopping /\ c.pc = "none" /\ c.loops = 0
    BY <1>1, <1>5 DEF StartConsumer, Startable, LoopOK
  <2>2. consumers' = [consumers EXCEPT ![w] = q]
    BY <1>5 DEF StartConsumer, Set
  <2>0. q = [c EXCEPT !.running = TRUE, !.loops = 1, !.pc = "poll"] /\ 1 \in 0..2
    BY <2>1
  <2>3. q \in Consumer /\ q.pc = "poll" /\ q.loops = 1 /\ q.running = TRUE
    <3> HIDE DEF q
    <3> QED BY <1>1, <2>0 DEF Consumer
  <2> HIDE DEF q
  <2>4. LoopOK(q) /\ HoldsOK(q, broker, outcome)
    BY <2>3, HoldsNothing DEF LoopOK
  <2> QED BY <1>3, <2>2, <2>4
<1>6. CASE StopConsumer(w)
  <2> DEFINE off == [c EXCEPT !.running = FALSE, !.stopping = TRUE]
             q == IF c.pc = "sleep" THEN [off EXCEPT !.pc = "none", !.loops = off.loops - 1, !.msg = Nobody, !.attempt = 0]
                  ELSE off
  <2>1. consumers' = [consumers EXCEPT ![w] = q] /\ c.running
    BY <1>6 DEF StopConsumer, Set, Stopped, LoopEnded
  <2>2. /\ off \in Consumer /\ off.running = FALSE /\ off.stopping = TRUE /\ off.loops = c.loops /\ off.pc = c.pc
        /\ off.msg = c.msg /\ off.attempt = c.attempt
    BY <1>1 DEF Consumer
  <2> HIDE DEF off
  <2>3. CASE c.pc = "sleep"
    <3>1. off.loops = 1
      BY <1>1, <2>2, <2>3 DEF LoopOK
    <3>2. off.loops - 1 = 0 /\ 0 \in 0..2 /\ 0 \in 0..MaxTries
      BY <3>1, CloudAssumption
    <3>3. q = [off EXCEPT !.pc = "none", !.loops = 0, !.msg = Nobody, !.attempt = 0]
      BY <2>3, <3>2
    <3>4. q \in Consumer /\ q.pc = "none" /\ q.loops = 0 /\ q.running = FALSE
      BY <2>2, <3>2, <3>3 DEF Consumer
    <3> HIDE DEF q
    <3>5. LoopOK(q) /\ HoldsOK(q, broker, outcome)
      BY <3>4, HoldsNothing DEF LoopOK
    <3> QED BY <1>3, <2>1, <3>5
  <2>4. CASE c.pc # "sleep"
    <3>1. q = off
      BY <2>4
    <3>2. LoopOK(off)
      BY <1>1, <2>2, <2>4 DEF LoopOK
    <3>3. HoldsOK(off, broker, outcome)
      BY <1>1, <2>2 DEF HoldsOK
    <3> QED BY <1>3, <2>1, <3>1, <3>2, <3>3
  <2> QED BY <2>3, <2>4
<1>7. CASE StopReturns(w)
  <2> DEFINE q == [c EXCEPT !.stopping = FALSE]
  <2>1. consumers' = [consumers EXCEPT ![w] = q] /\ c.loops = 0
    BY <1>7 DEF StopReturns, Set
  <2>2. c.pc = "none"
    BY <1>1, <2>1 DEF LoopOK
  <2>3. q \in Consumer /\ q.pc = "none" /\ q.loops = 0 /\ q.running = c.running
    BY <1>1, <2>1, <2>2 DEF Consumer
  <2> HIDE DEF q
  <2>4. ~q.running
    BY <1>1, <2>2, <2>3 DEF LoopOK
  <2>5. LoopOK(q) /\ HoldsOK(q, broker, outcome)
    BY <2>3, <2>4, HoldsNothing DEF LoopOK
  <2> QED BY <1>3, <2>1, <2>5
<1>8. CASE Wake(w)
  <2> DEFINE q == [c EXCEPT !.pc = "poll"]
  <2>1. consumers' = [consumers EXCEPT ![w] = q] /\ c.pc = "sleep" /\ c.running
    BY <1>8 DEF Wake, Set
  <2>2. q \in Consumer /\ q.pc = "poll" /\ q.loops = c.loops /\ q.running = c.running
    BY <1>1 DEF Consumer
  <2> HIDE DEF q
  <2>3. q.running
    BY <2>1, <2>2
  <2>4. LoopOK(q) /\ HoldsOK(q, broker, outcome)
    BY <1>1, <2>1, <2>2, <2>3, HoldsNothing DEF LoopOK
  <2> QED BY <1>3, <2>1, <2>4
<1>9. CASE ReceivesNothing(w) \/ RequestFails(w)
  <2>1. consumers' = [consumers EXCEPT ![w] = AfterProcessing(c, FALSE)] /\ c.pc # "none" /\ FALSE \in BOOLEAN
    BY <1>9 DEF ReceivesNothing, RequestFails, Set
  <2>2. LoopOK(AfterProcessing(c, FALSE)) /\ HoldsOK(AfterProcessing(c, FALSE), broker, outcome)
    <3>1. LoopOK(c) /\ c.pc # "none"
      BY <1>1, <2>1
    <3> QED BY <3>1, AfterFailureOK, Zenon
  <2> QED BY <1>3, <2>1, <2>2
<1> QED BY <1>5, <1>6, <1>7, <1>8, <1>9

LEMMA ReceiveStep ==
  ASSUME CloudInv, NEW w \in Consumers, NEW m \in CloudMsgs, Receive(w, m)
  PROVE  CloudInv'
<1> DEFINE c == consumers[w]
           n == broker[m].attempts + 1
           e == [state |-> "leased", attempts |-> n]
<1>1. /\ c.pc = "poll" /\ broker' = [broker EXCEPT ![m] = e] /\ outcome' = outcome
      /\ LoopOK(c) /\ c \in Consumer /\ broker \in [CloudMsgs -> BrokerEntry]
  BY DEF Receive, CloudInv, QueueOK
<1>2. broker[m].attempts \in Nat /\ n \in 1..MaxTries /\ n \in 0..MaxTries /\ MaxTries \in Nat
  <2>1. broker[m].attempts \in 0..MaxTries /\ broker[m].attempts < MaxTries
    BY <1>1 DEF Receive, BrokerEntry
  <2> QED BY <2>1, CloudAssumption
<1>3. n = broker[m].attempts + 1
  OBVIOUS
<1>4. e \in BrokerEntry /\ e.state = "leased" /\ e.attempts = n
  BY <1>2 DEF BrokerEntry
<1>5. \/ /\ leases' = Remembered(m, n)
         /\ consumers' = [consumers EXCEPT ![w] = [c EXCEPT !.pc = "invoking", !.msg = m, !.attempt = n]]
      \/ leases' = leases /\ consumers' = [consumers EXCEPT ![w] = AfterProcessing(c, FALSE)]
  BY DEF Receive, Set
<1> HIDE DEF n, e
<1>6. /\ broker' \in [CloudMsgs -> BrokerEntry] /\ broker'[m] = e
      /\ \A x \in CloudMsgs : x # m => broker'[x] = broker[x]
  BY <1>1, <1>4
<1>7. OnlyMore(broker, outcome, broker', outcome')
  <2>1. broker[m].attempts <= broker'[m].attempts
    BY <1>2, <1>3, <1>4, <1>6
  <2> QED BY <1>1, <1>6, <2>1, MoreOfTheSame DEF OnlyMore
<1>8. QueueOK(broker', outcome')
  BY <1>1, <1>4, <1>6 DEF CloudInv, QueueOK
<1>9. CASE leases' = leases /\ consumers' = [consumers EXCEPT ![w] = AfterProcessing(c, FALSE)]
  <2>1. LoopOK(AfterProcessing(c, FALSE)) /\ HoldsOK(AfterProcessing(c, FALSE), broker', outcome')
    <3>1. LoopOK(c) /\ c.pc # "none"
      BY <1>1
    <3> QED BY <3>1, AfterFailureOK, Zenon
  <2>2. LeasesOK(leases')
    BY <1>9 DEF CloudInv
  <2> QED BY <1>7, <1>8, <1>9, <2>1, <2>2, ConsumerReplaced
<1>10. CASE /\ leases' = Remembered(m, n)
            /\ consumers' = [consumers EXCEPT ![w] = [c EXCEPT !.pc = "invoking", !.msg = m, !.attempt = n]]
  <2> DEFINE q == [c EXCEPT !.pc = "invoking", !.msg = m, !.attempt = n]
  <2>1. /\ q \in Consumer /\ q.pc = "invoking" /\ q.msg = m /\ q.attempt = n /\ q.loops = c.loops
        /\ q.running = c.running /\ q.stopping = c.stopping
    BY <1>1, <1>2 DEF Consumer
  <2> HIDE DEF q
  <2>2. (q.running <=> c.running) /\ (q.stopping <=> c.stopping)
    BY <2>1
  <2>3. LoopOK(q)
    BY <1>1, <2>1, <2>2 DEF LoopOK
  <2>4. HoldsOK(q, broker', outcome')
    BY <1>2, <1>4, <1>6, <2>1 DEF HoldsOK
  <2>5. LeasesOK(leases')
    BY <1>2, <1>10, RememberedOK DEF CloudInv
  <2> QED BY <1>7, <1>8, <1>10, <2>3, <2>4, <2>5, ConsumerReplaced DEF q
<1> QED BY <1>5, <1>9, <1>10

\* An outcome that is added.
LEMMA OutcomeStep ==
  ASSUME CloudInv, NEW w \in Consumers, NEW x \in {"handled", "dead-lettered", "dlq refused"}, NEW m \in CloudMsgs,
         m = consumers[w].msg, consumers[w].pc \in {"invoking", "dlq"},
         NEW c, c \in {[consumers[w] EXCEPT !.pc = "ack", !.good = TRUE], [consumers[w] EXCEPT !.pc = "ack"]},
         x = "handled" \/ consumers[w].attempt >= MaxReceives,
         broker' = broker, leases' = leases, outcome' = [outcome EXCEPT ![m] = outcome[m] \cup {x}],
         consumers' = [consumers EXCEPT ![w] = c]
  PROVE  CloudInv'
<1> DEFINE r == consumers[w]
<1>1. /\ LoopOK(r) /\ r \in Consumer /\ HoldsOK(r, broker, outcome) /\ outcome \in [CloudMsgs -> Outcomes]
      /\ broker \in [CloudMsgs -> BrokerEntry]
  BY DEF CloudInv, QueueOK
<1>2. /\ c \in Consumer /\ c.pc = "ack" /\ c.msg = m /\ c.attempt = r.attempt /\ c.loops = r.loops
      /\ c.running = r.running /\ c.stopping = r.stopping
  BY <1>1 DEF Consumer
<1>3. (c.running <=> r.running) /\ (c.stopping <=> r.stopping)
  BY <1>2
<1>4. LoopOK(c)
  BY <1>1, <1>2, <1>3 DEF LoopOK
<1>5. outcome' \in [CloudMsgs -> Outcomes] /\ x \in outcome'[m] /\ \A y \in CloudMsgs : outcome[y] \subseteq outcome'[y]
  BY <1>1 DEF Outcomes
<1>6. OnlyMore(broker, outcome, broker', outcome')
  BY <1>5, MoreOfTheSame DEF OnlyMore
<1>7. QueueOK(broker', outcome')
  <2> SUFFICES ASSUME NEW y \in CloudMsgs, broker[y].state = "gone" PROVE Accounted(outcome'[y], broker[y].attempts)
    BY <1>1, <1>5 DEF QueueOK
  <2>1. Accounted(outcome[y], broker[y].attempts) /\ broker[y].attempts \in 0..MaxTries
    BY <1>1 DEF CloudInv, QueueOK, BrokerEntry
  <2> DEFINE n == broker[y].attempts
             s == outcome[y]
  <2>2. n \in 0..MaxTries /\ s \subseteq outcome'[y] /\ Accounted(s, n)
    BY <1>5, <2>1
  <2> HIDE DEF n, s
  <2>3. n \in Nat /\ n <= n
    BY <2>2, TriesAreNumbers
  <2>4. Accounted(outcome'[y], n)
    BY <2>2, <2>3, AccountedStays
  <2> QED BY <2>4 DEF n
<1>8. r.msg \in CloudMsgs /\ r.attempt <= broker[r.msg].attempts
  BY <1>1 DEF HoldsOK
<1>9. Accounted(outcome'[m], r.attempt)
  BY <1>5 DEF Accounted
<1>10. HoldsOK(c, broker', outcome')
  BY <1>2, <1>8, <1>9 DEF HoldsOK
<1>11. LeasesOK(leases')
  BY DEF CloudInv
<1> QED BY <1>4, <1>6, <1>7, <1>10, <1>11, ConsumerReplaced

LEMMA InvokedStep ==
  ASSUME CloudInv, NEW w \in Consumers, NEW ok \in BOOLEAN, Invoked(w, ok)
  PROVE  CloudInv'
<1> DEFINE c == consumers[w]
<1>1. /\ c.pc = "invoking" /\ LoopOK(c) /\ c \in Consumer /\ HoldsOK(c, broker, outcome) /\ c.msg \in CloudMsgs
      /\ broker' = broker /\ leases' = leases
  BY DEF Invoked, CloudInv, HoldsOK
<1>2. CASE ok
  <2>1. /\ consumers' = [consumers EXCEPT ![w] = [c EXCEPT !.pc = "ack", !.good = TRUE]]
        /\ outcome' = [outcome EXCEPT ![c.msg] = outcome[c.msg] \cup {"handled"}]
    BY <1>2 DEF Invoked, Set
  <2> QED BY <1>1, <2>1, OutcomeStep
<1>3. CASE ~ok
  <2>1. /\ consumers' = [consumers EXCEPT ![w] = IF Exhausted(c.attempt) THEN [c EXCEPT !.pc = "dlq", !.good = FALSE]
                                                 ELSE AfterProcessing(c, FALSE)]
        /\ outcome' = outcome
    BY <1>3 DEF Invoked, Set
  <2>2. QueueOK(broker', outcome') /\ LeasesOK(leases') /\ OnlyMore(broker, outcome, broker', outcome')
    BY <1>1, <2>1, MoreOfTheSame DEF CloudInv
  <2>3. CASE ~Exhausted(c.attempt)
    <3>1. LoopOK(AfterProcessing(c, FALSE)) /\ HoldsOK(AfterProcessing(c, FALSE), broker', outcome')
      <4>1. LoopOK(c) /\ c.pc # "none"
        BY <1>1
      <4> QED BY <4>1, AfterFailureOK, Zenon
    <3> QED BY <2>1, <2>2, <2>3, <3>1, ConsumerReplaced
  <2>4. CASE Exhausted(c.attempt)
    <3> DEFINE q == [c EXCEPT !.pc = "dlq", !.good = FALSE]
    <3>1. /\ q \in Consumer /\ q.pc = "dlq" /\ q.msg = c.msg /\ q.attempt = c.attempt /\ q.loops = c.loops
          /\ q.running = c.running /\ q.stopping = c.stopping
      BY <1>1 DEF Consumer
    <3>2. consumers' = [consumers EXCEPT ![w] = q]
      BY <2>1, <2>4
    <3> HIDE DEF q
    <3>3. (q.running <=> c.running) /\ (q.stopping <=> c.stopping)
      BY <3>1
    <3>4. LoopOK(q)
      BY <1>1, <3>1, <3>3 DEF LoopOK
    <3>5. HoldsOK(q, broker', outcome')
      BY <1>1, <2>1, <2>4, <3>1 DEF HoldsOK, Exhausted
    <3> QED BY <2>2, <3>2, <3>4, <3>5, ConsumerReplaced
  <2> QED BY <2>3, <2>4
<1> QED BY <1>2, <1>3

LEMMA DeadLetterStep ==
  ASSUME CloudInv, NEW w \in Consumers, NEW ok \in BOOLEAN, DeadLetter(w, ok)
  PROVE  CloudInv'
<1> DEFINE c == consumers[w]
           x == IF ok THEN "dead-lettered" ELSE "dlq refused"
<1>1. /\ c.pc = "dlq" /\ c.msg \in CloudMsgs /\ c.attempt >= MaxReceives /\ broker' = broker /\ leases' = leases
      /\ outcome' = [outcome EXCEPT ![c.msg] = outcome[c.msg] \cup {x}]
      /\ consumers' = [consumers EXCEPT ![w] = [c EXCEPT !.pc = "ack"]]
  BY DEF DeadLetter, Set, CloudInv, HoldsOK
<1>2. x \in {"handled", "dead-lettered", "dlq refused"}
  OBVIOUS
<1> HIDE DEF x
<1> QED BY <1>1, <1>2, OutcomeStep

LEMMA AckStep ==
  ASSUME CloudInv, NEW w \in Consumers, NEW carried \in BOOLEAN, NEW answered \in BOOLEAN, NEW byId \in BOOLEAN,
         Ack(w, carried, answered, byId)
  PROVE  CloudInv'
<1> DEFINE c == consumers[w]
           m == c.msg
           p == carried /\ answered /\ c.good
           e == [broker[m] EXCEPT !.state = "gone"]
<1>1. /\ c.pc = "ack" /\ LoopOK(c) /\ HoldsOK(c, broker, outcome) /\ outcome' = outcome
      /\ leases' = Forgotten(m) /\ consumers' = [consumers EXCEPT ![w] = AfterProcessing(c, p)]
      /\ broker' = broker \/ broker' = [broker EXCEPT ![m] = e]
  BY DEF Ack, Set, CloudInv
<1>2. p \in BOOLEAN
  OBVIOUS
<1> HIDE DEF p
<1>3. LoopOK(AfterProcessing(c, p)) /\ HoldsOK(AfterProcessing(c, p), broker', outcome')
  BY <1>1, <1>2, AfterProcessingOK, HoldsNothing
<1>4. LeasesOK(leases')
  BY <1>1, ForgottenOK DEF CloudInv
<1>5. /\ m \in CloudMsgs /\ broker \in [CloudMsgs -> BrokerEntry] /\ broker[m] \in BrokerEntry
      /\ c.attempt <= broker[m].attempts /\ Accounted(outcome[m], c.attempt)
  BY <1>1 DEF HoldsOK, CloudInv, QueueOK
<1>6. c.attempt \in Nat /\ broker[m].attempts \in Nat
  <2>1. c.attempt \in 0..MaxTries /\ broker[m].attempts \in 0..MaxTries
    BY <1>1, <1>5 DEF LoopOK, Consumer, BrokerEntry
  <2> QED BY <2>1, CloudAssumption
<1>7. Accounted(outcome[m], broker[m].attempts)
  BY <1>5, <1>6, AccountedStays
<1>8. e \in BrokerEntry /\ e.attempts = broker[m].attempts
  BY <1>5 DEF BrokerEntry
<1> HIDE DEF e
<1>9. CASE broker' = broker
  <2>1. QueueOK(broker', outcome') /\ OnlyMore(broker, outcome, broker', outcome')
    BY <1>1, <1>9, MoreOfTheSame DEF CloudInv
  <2> QED BY <1>1, <1>3, <1>4, <2>1, ConsumerReplaced
<1>10. CASE broker' = [broker EXCEPT ![m] = e]
  <2>1. /\ broker' \in [CloudMsgs -> BrokerEntry] /\ broker'[m] = e /\ \A x \in CloudMsgs : x # m => broker'[x] = broker[x]
    BY <1>5, <1>8, <1>10
  <2>2. \A x \in CloudMsgs : broker'[x].attempts = broker[x].attempts
    BY <1>8, <2>1
  <2>3. QueueOK(broker', outcome')
    BY <1>1, <1>7, <1>8, <2>1 DEF CloudInv, QueueOK
  <2>4. OnlyMore(broker, outcome, broker', outcome')
    BY <1>1, <2>2, MoreOfTheSame DEF OnlyMore
  <2> QED BY <1>1, <1>3, <1>4, <2>3, <2>4, ConsumerReplaced
<1> QED BY <1>1, <1>9, <1>10

LEMMA CloudStep == CloudInv /\ [CloudNext]_cloudVars => CloudInv'
<1> SUFFICES ASSUME CloudInv, [CloudNext]_cloudVars PROVE CloudInv'
  OBVIOUS
<1>1. CASE UNCHANGED cloudVars
  BY <1>1 DEF cloudVars, CloudInv
<1>2. ASSUME NEW w \in Consumers, WorkerStep(w) \/ StartConsumer(w) \/ StopConsumer(w) PROVE CloudInv'
  BY <1>2, ControlStep, ReceiveStep, InvokedStep, DeadLetterStep, AckStep DEF WorkerStep
<1> QED BY <1>1, <1>2, BrokerStep, BatchStep DEF CloudNext

LEMMA CloudStart == CloudInit => CloudInv
<1> SUFFICES ASSUME CloudInit PROVE CloudInv
  OBVIOUS
<1>0. 0 \in 0..MaxTries /\ 0 \in 0..2 /\ MaxLeases \in Nat
  BY CloudAssumption
<1>1. [state |-> "absent", attempts |-> 0] \in BrokerEntry
  BY <1>0 DEF BrokerEntry
<1>2. QueueOK(broker, outcome)
  BY <1>1 DEF CloudInit, QueueOK, Outcomes
<1>3. LeasesOK(leases)
  BY <1>0, EmptySeq DEF CloudInit, LeasesOK
<1>4. IdleConsumer \in Consumer /\ IdleConsumer.pc = "none" /\ IdleConsumer.loops = 0 /\ IdleConsumer.running = FALSE
  BY <1>0 DEF IdleConsumer, Consumer
<1>5. LoopOK(IdleConsumer) /\ HoldsOK(IdleConsumer, broker, outcome)
  BY <1>4, HoldsNothing DEF LoopOK
<1> QED BY <1>2, <1>3, <1>4, <1>5 DEF CloudInit, CloudInv

\* The consumers of a remote queue, any number of them on one map of leases, each run one loop
\* at a time whatever starts and stops it, and no message leaves the queue that was neither
\* handled nor at its last attempt, whatever answers are lost (queue-consumer.ts and the
\* Cloudflare provider).
THEOREM CloudQueueIsSound == CloudSpec => []CloudQueueSound
<1>1. CloudInv => CloudQueueSound
  <2> SUFFICES ASSUME CloudInv PROVE CloudQueueSound
    OBVIOUS
  <2>1. CloudTypeOK
    BY LeasesCounted DEF CloudInv, QueueOK, LeasesOK, CloudTypeOK, Lease, Consumer, BrokerEntry, Outcomes
  <2>2. OneLoop
    BY DEF CloudInv, LoopOK, OneLoop
  <2>3. NeverDropped
    BY DEF CloudInv, QueueOK, Accounted, NeverDropped
  <2> QED BY <2>1, <2>2, <2>3 DEF CloudQueueSound
<1> QED BY <1>1, CloudStart, CloudStep, PTL DEF CloudSpec

----------------------------------------------------------------------------
(* The login.                                                               *)

\* The clock runs only while the listener is open; the file is new only on the way out; the
\* promise is settled by whoever set the flag.
LoginInv ==
  /\ LoginTypeOK
  /\ timer = "armed" => listener = "open"
  /\ timer = "firing" => settled
  /\ login.pc = "done" => listener \in {"none", "closed"}
  /\ login.pc \in {"save", "write"} => login.verified
  /\ config = "new" => login.verified /\ (login.pc \in {"finally", "done", "killed"} \/ (login.pc = "closing" /\ login.then = "finally"))

LEMMA LoginStep == LoginInv /\ [LoginNext]_loginVars => LoginInv'
<1> SUFFICES ASSUME LoginInv, [LoginNext]_loginVars PROVE LoginInv'
  OBVIOUS
<1>0. /\ login \in [pc : Pcs, token : BOOLEAN, then : {"prompt", "finally"}, verified : BOOLEAN]
  BY DEF LoginInv, LoginTypeOK
<1>1. CASE UNCHANGED loginVars
  BY <1>1 DEF loginVars, LoginInv, LoginTypeOK
<1>2. ASSUME NEW where \in {"prompt", "finally"}, Close(where), login.pc \in {"opening", "waiting", "finally"},
             login.pc = "finally" => where = "finally"
      PROVE  LoginInv'
  <2>1. /\ login' \in [pc : Pcs, token : BOOLEAN, then : {"prompt", "finally"}, verified : BOOLEAN]
        /\ login'.pc = "closing" /\ login'.then = where /\ login'.verified = login.verified
    BY <1>0, <1>2 DEF Close, Pcs
  <2>2. login.verified => login'.verified
    BY <2>1
  <2>3. LoginTypeOK'
    BY <1>2, <2>1 DEF LoginInv, LoginTypeOK, Close, Settle, StopListening
  <2> QED BY <1>2, <2>1, <2>2, <2>3 DEF LoginInv, LoginTypeOK, Close, StopListening
<1>3. CASE WithToken \/ Manual \/ BrowserOpened \/ ListenerClosed \/ TokenArrives
  <2>1. /\ login' \in [pc : Pcs, token : BOOLEAN, then : {"prompt", "finally"}, verified : BOOLEAN]
        /\ login'.pc \in {"verify", "prompt", "waiting", "finally"} /\ login'.verified = login.verified
        /\ login.pc = "closing" => login'.pc = login.then
        /\ login.pc \in {"start", "opening", "waiting", "closing"}
        /\ UNCHANGED <<listener, timer, settled, promise, callbacks, config>>
    BY <1>0, <1>3 DEF WithToken, Manual, BrowserOpened, ListenerClosed, TokenArrives, Goto, Pcs
  <2>2. login.verified => login'.verified
    BY <2>1
  <2> QED BY <2>1, <2>2 DEF LoginInv, LoginTypeOK
<1>4. CASE StartListener
  <2>1. /\ login' \in [pc : Pcs, token : BOOLEAN, then : {"prompt", "finally"}, verified : BOOLEAN]
        /\ login'.pc = "opening" /\ login.pc = "start"
        /\ listener' = "open" /\ timer' = "armed" /\ UNCHANGED <<settled, promise, callbacks, config>>
    BY <1>0, <1>4 DEF StartListener, Goto, Pcs
  <2> QED BY <2>1 DEF LoginInv, LoginTypeOK
<1>5. CASE NoBrowser \/ WaitTimesOut \/ (Finally /\ listener \notin {"none", "closed"})
  BY <1>2, <1>5 DEF NoBrowser, WaitTimesOut, Finally
<1>6. CASE Finally /\ listener \in {"none", "closed"}
  <2>1. /\ login' \in [pc : Pcs, token : BOOLEAN, then : {"prompt", "finally"}, verified : BOOLEAN]
        /\ login'.pc = "done" /\ login.pc = "finally" /\ login'.verified = login.verified
        /\ UNCHANGED <<listener, timer, settled, promise, callbacks, config>>
    BY <1>0, <1>6 DEF Finally, Goto, Pcs
  <2>2. login.verified => login'.verified
    BY <2>1
  <2> QED BY <1>6, <2>1, <2>2 DEF LoginInv, LoginTypeOK
<1>7. ASSUME NEW b \in BOOLEAN, Prompted(b) \/ Verify(b) PROVE LoginInv'
  <2>1. /\ login' \in [pc : Pcs, token : BOOLEAN, then : {"prompt", "finally"}, verified : BOOLEAN]
        /\ login.pc \in {"prompt", "verify"} /\ login'.pc \in {"verify", "save", "finally"}
        /\ UNCHANGED <<listener, timer, settled, promise, callbacks, config>>
    BY <1>0, <1>7 DEF Prompted, Verify, Pcs
  <2>2. login'.pc = "save" => login'.verified
    <3>1. CASE Prompted(b)
      BY <1>0, <3>1 DEF Prompted
    <3>2. CASE Verify(b)
      <4>1. login'.verified = b /\ login'.pc = IF b THEN "save" ELSE "finally"
        BY <1>0, <3>2 DEF Verify
      <4> QED BY <4>1
    <3> QED BY <1>7, <3>1, <3>2
  <2> QED BY <2>1, <2>2 DEF LoginInv, LoginTypeOK
<1>8. CASE TruncateConfig \/ WriteConfig \/ SaveFails
  <2>1. /\ login' \in [pc : Pcs, token : BOOLEAN, then : {"prompt", "finally"}, verified : BOOLEAN]
        /\ login.pc \in {"save", "write"} /\ login'.pc \in {"write", "finally"} /\ login'.verified = login.verified
        /\ config' = "new" => login'.pc = "finally"
        /\ config' \in {"empty", "new", config}
        /\ UNCHANGED <<listener, timer, settled, promise, callbacks>>
    BY <1>0, <1>8 DEF TruncateConfig, WriteConfig, SaveFails, Goto, Pcs, LoginInv
  <2>2. login.verified => login'.verified
    BY <2>1
  <2> QED BY <2>1, <2>2 DEF LoginInv, LoginTypeOK
<1>9. CASE Interrupted
  <2>1. /\ login' \in [pc : Pcs, token : BOOLEAN, then : {"prompt", "finally"}, verified : BOOLEAN]
        /\ login'.pc = "killed" /\ login'.verified = login.verified
        /\ listener' = "closed" /\ timer' = "off" /\ UNCHANGED <<settled, promise, callbacks, config>>
    BY <1>0, <1>9 DEF Interrupted, Goto, Pcs
  <2>2. login.verified => login'.verified
    BY <2>1
  <2> QED BY <2>1, <2>2 DEF LoginInv, LoginTypeOK
<1>10. CASE Logout \/ \E c \in Callbacks : Connects(c)
  BY <1>10 DEF Logout, Connects, LoginInv, LoginTypeOK
<1>11. CASE LoginTimerFires \/ TimerRejects \/ Drained
  <2>1. login' = login /\ config' = config /\ callbacks' = callbacks
    BY <1>11 DEF LoginTimerFires, TimerRejects, Drained
  <2>2. LoginTypeOK'
    BY <1>11, <2>1 DEF LoginTimerFires, TimerRejects, Drained, StopListening, Settle, LoginInv, LoginTypeOK
  <2>3. /\ timer' = "armed" => listener' = "open"
        /\ timer' = "firing" => settled'
        /\ listener \in {"none", "closed"} => listener' \in {"none", "closed"}
    BY <1>11 DEF LoginTimerFires, TimerRejects, Drained, StopListening, LoginInv
  <2> QED BY <2>1, <2>2, <2>3 DEF LoginInv
<1>12. ASSUME NEW c \in Callbacks, Answer(c) PROVE LoginInv'
  <2>1. login' = login /\ config' = config
    BY <1>12 DEF Answer, Probe, ValidCallback
  <2>2. LoginTypeOK'
    BY <1>12, <2>1 DEF Answer, Probe, ValidCallback, StopListening, Settle, LoginInv, LoginTypeOK
  <2>3. /\ timer' = "armed" => listener' = "open"
        /\ timer' = "firing" => settled'
        /\ listener \in {"none", "closed"} => listener' \in {"none", "closed"}
    BY <1>12 DEF Answer, Probe, ValidCallback, StopListening, LoginInv
  <2> QED BY <2>1, <2>2, <2>3 DEF LoginInv
<1> QED BY <1>1, <1>3, <1>4, <1>5, <1>6, <1>7, <1>8, <1>9, <1>10, <1>11, <1>12 DEF LoginNext, Command, Server

LEMMA LoginStart == LoginInit => LoginInv
<1> SUFFICES ASSUME LoginInit PROVE LoginInv
  OBVIOUS
<1>1. login \in [pc : Pcs, token : BOOLEAN, then : {"prompt", "finally"}, verified : BOOLEAN] /\ login.pc = "start"
  BY DEF LoginInit, Pcs
<1>2. settled \in BOOLEAN
  BY DEF LoginInit
<1> QED BY <1>1, <1>2 DEF LoginInit, LoginInv, LoginTypeOK

\* A login leaves no listener and no armed clock behind and saves only a key that the control
\* plane has accepted, for any number of requests that reach the callback server and in any
\* order of callback, deadline, close and interrupt (cli/login.ts and cli/callback-server.ts).
THEOREM LoginIsSound == LoginSpec => []LoginSound
<1>1. LoginInv => LoginSound
  BY DEF LoginInv, LoginSound, NoListenerLeft, SavedVerified
<1> QED BY <1>1, LoginStart, LoginStep, PTL DEF LoginSpec
==============================================================================
