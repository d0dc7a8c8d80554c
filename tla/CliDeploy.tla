----------------------------- MODULE CliDeploy ------------------------------
(***************************************************************************)
(* `rail deploy`: the functions of a project are packaged, validated, and  *)
(* then activated one after the other - through a deployment service, with *)
(* a compensation when one of them fails, or over HTTP, without.           *)
(* Meanwhile the developer edits files and others deploy the same project. *)
(***************************************************************************)
EXTENDS Naturals, FiniteSets

CONSTANTS NumFns,        \* the functions 1..NumFns, in the order of railfog.toml
          MaxEdits,      \* bound: edits of each source file
          MaxOthers      \* bound: deploys by somebody else

ASSUME DeployAssumption == NumFns \in Nat \ {0} /\ MaxEdits \in Nat /\ MaxOthers \in Nat

VARIABLES
  sources,    \* the version of each entry file
  package,    \* function -> the version read, scanned for secrets and analysed
  serving,     \* the control plane: function -> the active revision
  others,     \* how many revisions others have activated
  job         \* the running command

deployVars == <<sources, package, serving, others, job>>

Indices == 1..NumFns
Edits == 0..MaxEdits
\* Revisions: none, the one before this command, the one of this command, or another's.
Owners == {"none", "old", "ours", "others"}
DeployPcs == {"config", "package", "validate", "analyse", "capture", "upload", "compensate", "verify", "end"}

\* done: functionRevisions.  previous: previousRevisions.  stuck: history, functions whose
\* compensating rollback failed.
DeployTypeOK ==
  /\ sources \in [Indices -> Edits]
  /\ package \in [Indices -> [read : Edits, scanned : Edits, analysed : Edits]]
  /\ serving \in [Indices -> Owners] /\ others \in 0..MaxOthers
  /\ job \in [pc : DeployPcs, via : {"service", "http"}, at : 1..(NumFns + 1), done : SUBSET Indices,
              previous : [Indices -> Owners], stuck : SUBSET Indices, ok : BOOLEAN]
  /\ (job.pc = "end" /\ job.ok => job.done \in {{}, Indices})

DeployInit ==
  /\ sources = [f \in Indices |-> 0]
  /\ package = [f \in Indices |-> [read |-> 0, scanned |-> 0, analysed |-> 0]]
  /\ serving \in [Indices -> {"none", "old"}] /\ others = 0
  /\ \E via \in {"service", "http"} :
       job = [pc |-> "config", via |-> via, at |-> 1, done |-> {}, previous |-> [f \in Indices |-> "none"],
              stuck |-> {}, ok |-> FALSE]

----------------------------------------------------------------------------
EditSource(f) ==
  /\ sources[f] < MaxEdits /\ job.pc # "end"
  /\ sources' = [sources EXCEPT ![f] = @ + 1]
  /\ UNCHANGED <<package, serving, others, job>>

\* Somebody else deploys or rolls back the function.
OtherDeploys(f) ==
  /\ others < MaxOthers
  /\ others' = others + 1 /\ serving' = [serving EXCEPT ![f] = "others"]
  /\ UNCHANGED <<sources, package, job>>

\* A step fails before anything was uploaded.
JobFails ==
  /\ job.pc \in {"config", "package", "validate", "analyse", "verify"}
  /\ job' = [job EXCEPT !.pc = "end", !.ok = FALSE]
  /\ UNCHANGED <<sources, package, serving, others>>

\* railfog.toml is read, parsed and normalised.
ReadConfig ==
  /\ job.pc = "config" /\ job' = [job EXCEPT !.pc = "package"]
  /\ UNCHANGED <<sources, package, serving, others>>

\* The next function or, after the last one, the next step.
NextFn(then) == IF job.at < NumFns THEN [job EXCEPT !.at = @ + 1] ELSE [job EXCEPT !.pc = then, !.at = 1]

\* Step 1, for each function: the entry is found inside the project and its bytes are read.
PackageFn ==
  /\ job.pc = "package"
  /\ package' = [package EXCEPT ![job.at].read = sources[job.at]]
  /\ job' = NextFn("validate")
  /\ UNCHANGED <<sources, serving, others>>

\* Mutant of ScannedVersion: the secret scan reads the file again.
ScannedVersionNow(f) == sources[f]

\* Hardcoded secrets are looked for in the bytes that were packaged.
ScannedVersion(f) == package[f].read

\* Step 2: permissions and routes, then the scan.
ValidateAll ==
  /\ job.pc = "validate"
  /\ package' = [f \in Indices |-> [package[f] EXCEPT !.scanned = ScannedVersion(f)]]
  /\ job' = [job EXCEPT !.pc = "analyse"]
  /\ UNCHANGED <<sources, serving, others>>

\* The analyser reads the sources itself.  A dry run ends here.
Analyse(dryRun) ==
  /\ job.pc = "analyse"
  /\ package' = [f \in Indices |-> [package[f] EXCEPT !.analysed = sources[f]]]
  /\ job' = [job EXCEPT !.pc = IF dryRun THEN "end" ELSE "capture", !.ok = dryRun]
  /\ UNCHANGED <<sources, serving, others>>

\* The service is asked for the revisions to go back to.
CapturePrevious ==
  /\ job.pc = "capture"
  /\ job' = [job EXCEPT !.pc = "upload", !.previous = IF job.via = "service" THEN serving ELSE @]
  /\ UNCHANGED <<sources, package, serving, others>>

\* Step 3: the next function is activated.
ActivateNext ==
  /\ job.pc = "upload"
  /\ serving' = [serving EXCEPT ![job.at] = "ours"]
  /\ job' = [job EXCEPT !.done = @ \cup {job.at}, !.at = @ + 1, !.pc = IF job.at = NumFns THEN "verify" ELSE "upload"]
  /\ UNCHANGED <<sources, package, others>>

\* A request over HTTP that is refused, or lost before or after the control plane carried it out.
UploadFails(lost) ==
  /\ job.pc = "upload" /\ job.via = "http"
  /\ serving' = IF lost THEN [serving EXCEPT ![job.at] = "ours"] ELSE serving
  /\ job' = [job EXCEPT !.pc = "end", !.ok = FALSE]
  /\ UNCHANGED <<sources, package, others>>

\* The service rejects the next function: what was activated is rolled back, in order.
BatchFails ==
  /\ job.pc = "upload" /\ job.via = "service"
  /\ job' = [job EXCEPT !.pc = "compensate", !.at = 1]
  /\ UNCHANGED <<sources, package, serving, others>>

\* Mutant of ToRollBack: the functions that failed, not the ones that were activated.
ToRollBackRest(f) == f \notin job.done /\ job.previous[f] # "none"

\* Activated in this batch, with a revision to go back to.
ToRollBack(f) == f \in job.done /\ job.previous[f] # "none"

Compensate(ok) ==
  /\ job.pc = "compensate"
  /\ LET f == job.at IN
     /\ serving' = IF ToRollBack(f) /\ ok THEN [serving EXCEPT ![f] = job.previous[f]] ELSE serving
     /\ job' = [job EXCEPT !.stuck = IF ToRollBack(f) /\ ~ok THEN @ \cup {f} ELSE @,
                           !.at = IF f < NumFns THEN f + 1 ELSE f, !.pc = IF f = NumFns THEN "end" ELSE @]
  /\ UNCHANGED <<sources, package, others>>

\* Step 4: the state of the last revision, or /healthz.
VerifyDeploy ==
  /\ job.pc = "verify" /\ job' = [job EXCEPT !.pc = "end", !.ok = TRUE]
  /\ UNCHANGED <<sources, package, serving, others>>

DeployNext ==
  \/ ReadConfig \/ PackageFn \/ ValidateAll \/ CapturePrevious \/ ActivateNext \/ BatchFails \/ VerifyDeploy \/ JobFails
  \/ \E b \in BOOLEAN : Analyse(b) \/ UploadFails(b) \/ Compensate(b)
  \/ \E f \in Indices : EditSource(f) \/ OtherDeploys(f)

DeploySpec == DeployInit /\ [][DeployNext]_deployVars

----------------------------------------------------------------------------
\* "a mid-batch failure can compensate by rolling completed functions back instead of leaving a
\* half-updated project behind": when a batch through the service has failed, none of its own
\* revisions serves a function that had one before, except where the rollback itself failed.
Compensated ==
  job.pc = "end" /\ job.via = "service" /\ job.at <= NumFns /\ job.done # {} =>
    \A f \in Indices : job.previous[f] # "none" /\ f \notin job.stuck => serving[f] # "ours"

\* The bytes that are activated are the bytes that were scanned for hardcoded secrets, whatever
\* is edited while the command runs.
UploadedScanned == \A f \in job.done : package[f].scanned = package[f].read
=============================================================================
