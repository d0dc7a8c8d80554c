------------------------------ MODULE MCRollout -----------------------------
(***************************************************************************)
(* Model checking of the way of a change to the machines: the keys that    *)
(* admit it, the deploy command that makes it, the runtimes that poll it   *)
(* and the installation that upgrades them.  Each behaviour follows one of *)
(* them, focus.                                                            *)
(***************************************************************************)
EXTENDS RuntimeSnapshot, ApiKeys, CommandLine, TLC

VARIABLE focus   \* the component this behaviour is about

\* The polls of a runtime and the requests of the control plane are the same two values.
MCSymmetry == Permutations(Polls)

mcVars == <<focus, vars, apiKeyVars, deployVars, installVars>>

MCInit ==
  /\ focus \in {"runtime", "keys", "deploy", "install"}
  /\ Init /\ ApiKeysInit /\ InstallInit
  /\ DeployInit /\ (focus # "deploy" => job.via = "http" /\ \A i \in Indices : serving[i] = "none")

MCNext ==
  /\ UNCHANGED focus
  /\ \/ focus = "runtime" /\ Next        /\ UNCHANGED <<apiKeyVars, deployVars, installVars>>
     \/ focus = "keys"    /\ ApiKeysNext /\ UNCHANGED <<vars, deployVars, installVars>>
     \/ focus = "deploy"  /\ DeployNext  /\ UNCHANGED <<vars, apiKeyVars, installVars>>
     \/ focus = "install" /\ InstallNext /\ UNCHANGED <<vars, apiKeyVars, deployVars>>

MCSpec == MCInit /\ [][MCNext]_mcVars
=============================================================================
