----------------------------- MODULE MCRecovery -----------------------------
(***************************************************************************)
(* Model checking of what must recover once its surroundings do: a runtime *)
(* that polls the control plane, and a caller behind the circuit breaker   *)
(* and the resilient provider.  Each behaviour follows one of them, focus. *)
(***************************************************************************)
EXTENDS RuntimeSnapshot, ResilientProvider

VARIABLE focus   \* the component this behaviour is about

mcVars == <<focus, vars, resilientVars>>

MCInit == focus \in {"runtime", "resilient"} /\ Init /\ ResilientInit

MCNext ==
  /\ UNCHANGED focus
  /\ \/ focus = "runtime"   /\ Next          /\ UNCHANGED resilientVars
     \/ focus = "resilient" /\ ResilientNext /\ UNCHANGED vars

\* Fairness or ResilientFairness, of the component in focus.
MCFairness ==
  /\ WF_vars(focus = "runtime" /\ \E q \in Polls : StartPoll(q))
  /\ \A q \in Polls :
       /\ WF_vars(focus = "runtime" /\ DiskOrListStep(q))
       /\ SF_vars(focus = "runtime" /\ Serve(q))
       /\ SF_vars(focus = "runtime" /\ (Accept(q) \/ Ignore(q)))
  /\ WF_resilientVars(focus = "resilient" /\ Tick /\ UNCHANGED work)
  /\ \A c \in Wrappers : WF_resilientVars(focus = "resilient" /\ WrapperStep(c))
  /\ \A c \in Callers \ Wrappers : WF_resilientVars(focus = "resilient" /\ Step(c) /\ UNCHANGED work)

MCSpec == MCInit /\ [][MCNext]_mcVars /\ MCFairness
=============================================================================
