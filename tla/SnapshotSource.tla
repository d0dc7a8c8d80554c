--------------------------- MODULE SnapshotSource ---------------------------
(***************************************************************************)
(* What a data plane may rely on when it polls the control plane for the   *)
(* routing snapshot of a project: within one life of the control plane a   *)
(* version names one snapshot for ever and versions only go up by one; a   *)
(* restart of the control plane forgets the versions it handed out.        *)
(***************************************************************************)
EXTENDS Naturals

CONSTANTS Contents,   \* what a snapshot routes and binds
          None

VARIABLE published    \* the latest snapshot, or None

NextVersion == IF published = None THEN 1 ELSE published.version + 1

Init == published = None

Publish == \E c \in Contents : published' = [version |-> NextVersion, content |-> c]

Restart == published' = None

Next == Publish \/ Restart

Spec == Init /\ [][Next]_published
=============================================================================
