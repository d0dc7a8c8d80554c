------------------------ MODULE ShutdownCoordinator ------------------------
(***************************************************************************)
(* The shutdown coordinator (runtime/lifecycle/shutdown-coordinator.ts)    *)
(* over a worker supervisor (WorkerLifecycle) and servers with requests in *)
(* flight, registered as drain targets.                                    *)
(***************************************************************************)
EXTENDS WorkerLifecycle

CONSTANTS Servers,    \* the other drain targets
          Supervisor  \* the drain target whose drain() is supervisor.stop()

ASSUME CoordinatorConstants == Supervisor \notin Servers /\ IsFiniteSet(Servers)

VARIABLES
  phase,      \* "idle", or what #executeShutdown awaits, or "done"
  awaited,    \* targets whose stopAccepting, then whose drain, has not settled
  drained,    \* targets whose drain resolved with an active count of zero
  accepting,  \* server -> it takes new requests
  inFlight,   \* servers with a request in flight
  clean,      \* what shutdown resolved to
  atDrain     \* history: the supervisor's generation when its drain was called

shutVars == <<phase, awaited, drained, accepting, inFlight, clean, atDrain>>
vars == <<lifeVars, shutVars>>

Targets == Servers \cup {Supervisor}

TypeOK ==
  /\ LifeTypeOK
  /\ activeWorkers \in 0..Cardinality(Workers)
  /\ phase \in {"idle", "stopAccepting", "draining", "done"}
  /\ awaited \subseteq Targets /\ drained \subseteq Targets
  /\ accepting \in [Servers -> BOOLEAN]
  /\ inFlight \subseteq Servers
  /\ clean \in BOOLEAN
  /\ atDrain \in 0..MaxCalls

Init ==
  /\ LifeInit
  /\ phase = "idle"
  /\ awaited = {} /\ drained = {}
  /\ accepting = [s \in Servers |-> TRUE]
  /\ inFlight = {}
  /\ clean = FALSE
  /\ atDrain = 0

----------------------------------------------------------------------------
\* shutdown, by a signal or a call; another call returns the same promise.
Shutdown ==
  /\ kind = "supervisor" /\ phase = "idle"
  /\ phase' = "stopAccepting" /\ awaited' = Targets
  /\ UNCHANGED <<lifeVars, drained, accepting, inFlight, clean, atDrain>>

\* A target's stopAccepting resolves or rejects: a rejection is swallowed, and the
\* server may go on accepting.  The supervisor's does nothing.
StopAccepting(t) ==
  /\ phase = "stopAccepting" /\ t \in awaited
  /\ awaited' = awaited \ {t}
  /\ IF t \in Servers
       THEN \E rejects \in BOOLEAN : accepting' = [accepting EXCEPT ![t] = rejects]
       ELSE UNCHANGED accepting
  /\ UNCHANGED <<lifeVars, phase, drained, inFlight, clean, atDrain>>

\* All have settled: drain is called on every target and the timer is armed.
BeginDrain ==
  /\ phase = "stopAccepting" /\ awaited = {}
  /\ phase' = "draining" /\ awaited' = Targets
  /\ StopCalled /\ atDrain' = generation
  /\ UNCHANGED <<aborted, calls, drained, accepting, inFlight, clean>>

\* What getActiveCount returns.
Active(t) == IF t = Supervisor THEN activeWorkers ELSE IF t \in inFlight THEN 1 ELSE 0

\* Mutant of DrainResolves: the active count is not asked for.
DrainResolvesBlindly(t) ==
  /\ phase = "draining" /\ t \in awaited
  /\ t = Supervisor => ~stopping
  /\ awaited' = awaited \ {t}
  /\ drained' = drained \cup {t}
  /\ UNCHANGED <<lifeVars, phase, accepting, inFlight, clean, atDrain>>

\* A target's drain resolves, a server's at any time, the supervisor's with stop;
\* the target counts as drained if nothing is active then.
DrainResolves(t) ==
  /\ phase = "draining" /\ t \in awaited
  /\ t = Supervisor => ~stopping
  /\ awaited' = awaited \ {t}
  /\ drained' = IF Active(t) = 0 THEN drained \cup {t} ELSE drained
  /\ UNCHANGED <<lifeVars, phase, accepting, inFlight, clean, atDrain>>

DrainRejects(s) ==
  /\ phase = "draining" /\ s \in awaited
  /\ awaited' = awaited \ {s}
  /\ UNCHANGED <<lifeVars, phase, drained, accepting, inFlight, clean, atDrain>>

\* All drains have settled before the timer.
AllSettled ==
  /\ phase = "draining" /\ awaited = {}
  /\ phase' = "done" /\ clean' = (drained = Targets)
  /\ UNCHANGED <<lifeVars, awaited, drained, accepting, inFlight, atDrain>>

\* Mutant of DrainTimeout: the timer is ignored once a drain has settled.
DrainTimeoutNever ==
  /\ phase = "draining" /\ awaited = Targets
  /\ phase' = "done" /\ clean' = FALSE
  /\ UNCHANGED <<lifeVars, awaited, drained, accepting, inFlight, atDrain>>

\* drainTimeoutMs is over: shutdown resolves to false, the drains go on.
DrainTimeout ==
  /\ phase = "draining"
  /\ phase' = "done" /\ clean' = FALSE
  /\ UNCHANGED <<lifeVars, awaited, drained, accepting, inFlight, atDrain>>

----------------------------------------------------------------------------
(* The servers. *)

RequestArrives(s) ==
  /\ kind = "supervisor" /\ accepting[s] /\ s \notin inFlight
  /\ inFlight' = inFlight \cup {s}
  /\ UNCHANGED <<lifeVars, phase, awaited, drained, accepting, clean, atDrain>>

RequestEnds(s) ==
  /\ s \in inFlight
  /\ inFlight' = inFlight \ {s}
  /\ UNCHANGED <<lifeVars, phase, awaited, drained, accepting, clean, atDrain>>

----------------------------------------------------------------------------
Coordinate == BeginDrain \/ AllSettled \/ DrainTimeout \/ \E t \in Targets : StopAccepting(t)

Next ==
  \/ LifeNext /\ UNCHANGED shutVars
  \/ Shutdown \/ BeginDrain \/ AllSettled \/ DrainTimeout
  \/ \E t \in Targets : StopAccepting(t) \/ DrainResolves(t)
  \/ \E s \in Servers : DrainRejects(s) \/ RequestArrives(s) \/ RequestEnds(s)

Spec == Init /\ [][Next]_vars

\* Loops and promises run on, every stopAccepting settles, the timer fires.  A
\* drain or a request may hang for ever.
Fairness ==
  /\ WF_vars(StopResolves /\ UNCHANGED shutVars)
  /\ \A i \in LoopIds : WF_vars(LoopStep(i) /\ UNCHANGED shutVars)
  /\ WF_vars(Coordinate)
FairSpec == Spec /\ Fairness

----------------------------------------------------------------------------
\* A shutdown that resolves to true left nothing behind: no request on a server
\* that stopped accepting, no loop unless the supervisor spawned some since.
CleanMeansIdle ==
  phase = "done" /\ clean =>
    /\ \A s \in inFlight : accepting[s]
    /\ generation = atDrain => Live = {}

\* A shutdown ends, though drains may hang (PLAT-10).
ShutdownEnds == phase = "stopAccepting" ~> phase = "done"

\* Whatever is started comes to an end: a stop and a shutdown resolve though drains
\* hang, and a start that waited for a stop does start.
LifecycleEnds == []TypeOK /\ StopEnds /\ StartStarts /\ ShutdownEnds
=============================================================================
