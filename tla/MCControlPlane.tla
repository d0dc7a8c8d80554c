--------------------------- MODULE MCControlPlane ---------------------------
(***************************************************************************)
(* Model checking of what a control plane keeps: the deployments, the      *)
(* snapshots it distributes and the backup of a project.  The modules      *)
(* share no variable, so each behaviour follows one of them, focus, and    *)
(* leaves the others where they began: the run explores the sum of the     *)
(* state spaces, not their product.                                        *)
(***************************************************************************)
EXTENDS Deployment, SnapshotDistribution, StateBackup

CONSTANTS f1, a1   \* a function and an artifact

VARIABLE focus   \* the component this behaviour is about

\* The exported state of another control plane: one serving revision.  (An
\* archived revision that does not serve is restored in memory only: nothing
\* schedules a write for it, so it is left out where durability is checked.)
ActiveArchive ==
  {[fn |-> f1, id |-> 2, record |-> [state |-> "Deployed", artifact |-> a1], active |-> TRUE]}

MCFunctions == 1..2

mcVars == <<focus, vars, snapVars, backupVars>>

Components == {"deployment", "snapshot", "backup"}

MCInit ==
  /\ focus \in Components
  /\ Init /\ SnapInit /\ BackupInit

MCNext ==
  /\ UNCHANGED focus
  /\ \/ focus = "deployment" /\ Next        /\ UNCHANGED <<snapVars, backupVars>>
     \/ focus = "snapshot"   /\ SnapNext    /\ UNCHANGED <<vars, backupVars>>
     \/ focus = "backup"     /\ BackupNext  /\ UNCHANGED <<vars, snapVars>>

MCSpec == MCInit /\ [][MCNext]_mcVars /\ (focus = "deployment" => Fairness)

=============================================================================
