---------------------------- MODULE CommandLine ----------------------------
(***************************************************************************)
(* The two commands of the command line that change something elsewhere:   *)
(* `rail deploy` and the installation or upgrade of `rail` itself.  They   *)
(* share no state.                                                         *)
(***************************************************************************)
EXTENDS CliDeploy, CliInstall

CliSpec == DeploySpec /\ InstallSpec

\* The commands leave nothing half done: a batch that fails is taken back, what is
\* uploaded was scanned, an installation is of one revision, and "up to date" is true.
CliSafe ==
  /\ DeployTypeOK /\ Compensated /\ UploadedScanned
  /\ InstallTypeOK /\ PinnedOneRevision /\ UpToDateTrue
=============================================================================
