---------------------------- MODULE MCLifecycle -----------------------------
(***************************************************************************)
(* Model checking of what is started and must come to an end though what   *)
(* it waits for hangs: the workers and their shutdown, the consumers of a  *)
(* remote queue and the login of the command line.  Each behaviour follows *)
(* one of them, focus.                                                     *)
(***************************************************************************)
EXTENDS ShutdownCoordinator, CloudQueue, CliLogin

VARIABLE focus   \* the component this behaviour is about

mcVars == <<focus, vars, cloudVars, loginVars>>

MCInit ==
  /\ focus \in {"workers", "cloud", "login"}
  /\ Init      /\ (focus # "workers" => kind = "consumer")
  /\ LoginInit /\ (focus # "login" => config = "none")
  /\ CloudInit

MCNext ==
  /\ UNCHANGED focus
  /\ \/ focus = "workers" /\ Next      /\ UNCHANGED <<cloudVars, loginVars>>
     \/ focus = "cloud"   /\ CloudNext /\ UNCHANGED <<vars, loginVars>>
     \/ focus = "login"   /\ LoginNext /\ UNCHANGED <<vars, cloudVars>>

\* Fairness, CloudFairness or LoginFairness, of the component in focus.
MCFairness ==
  /\ WF_vars(focus = "workers" /\ StopResolves /\ UNCHANGED shutVars)
  /\ \A i \in LoopIds : WF_vars(focus = "workers" /\ LoopStep(i) /\ UNCHANGED shutVars)
  /\ WF_vars(focus = "workers" /\ Coordinate)
  /\ \A w \in Consumers : WF_cloudVars(focus = "cloud" /\ WorkerStep(w))
  /\ WF_loginVars(focus = "login" /\ Server)
  /\ WF_loginVars(focus = "login" /\ Continues)

MCSpec == MCInit /\ [][MCNext]_mcVars /\ MCFairness

\* Whatever is started comes to an end: stops, shutdowns and waiting starts of the workers, the
\* stop of a queue consumer, and a login that waits for its browser.
EverythingEnds == LifecycleEnds /\ ConsumerStops /\ WaitEnds
=============================================================================
