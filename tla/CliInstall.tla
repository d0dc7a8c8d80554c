----------------------------- MODULE CliInstall -----------------------------
(***************************************************************************)
(* Installing and upgrading the `rail` command from a repository whose     *)
(* branch moves meanwhile: the ref is resolved to a commit, config and     *)
(* entrypoint are downloaded one after the other, the launcher is          *)
(* replaced, run once to verify it, and .rail-version.json records what    *)
(* was installed.  The next upgrade trusts that record.                    *)
(***************************************************************************)
EXTENDS Naturals

CONSTANTS MaxPushes,            \* bound: commits pushed to the branch
          NoCommit, LocalTree   \* an unknown commit; a working copy

ASSUME InstallAssumption == MaxPushes \in Nat /\ {NoCommit, LocalTree} \cap Nat = {} /\ NoCommit # LocalTree

VARIABLES
  head,        \* the branch's newest commit; the released tag is commit 0
  install,     \* the running command
  bin          \* the bin directory: launcher, .rail/deno.json, the record, and the temporary directory

installVars == <<head, install, bin>>

Commits == 0..MaxPushes
Sources == {"main", "tag", "local"}
InstallPcs == {"idle", "check", "version", "resolve", "fetch", "deno", "persist", "run", "record", "cleanup"}
\* What the command has told the user.
Says == {"nothing", "up to date", "same version", "installed", "failed"}

\* recorded: history, the record was written after the launcher was last replaced.
InstallTypeOK ==
  /\ head \in Commits
  /\ install \in [pc : InstallPcs, from : Sources, force : BOOLEAN, compile : BOOLEAN, said : Says,
                  commit : Commits \cup {NoCommit}, config : Commits \cup {NoCommit, LocalTree}]
  /\ bin \in [launcher : Commits \cup {NoCommit, LocalTree}, config : Commits \cup {NoCommit, LocalTree},
              commit : Commits \cup {NoCommit}, ref : Sources, recorded : BOOLEAN, temp : BOOLEAN]
  /\ (install.pc \in {"persist", "run", "record"} => bin.launcher # NoCommit)

InstallInit ==
  /\ head = 0
  /\ install = [pc |-> "idle", from |-> "main", force |-> FALSE, compile |-> FALSE, said |-> "nothing",
                commit |-> NoCommit, config |-> NoCommit]
  /\ bin = [launcher |-> NoCommit, config |-> NoCommit, commit |-> NoCommit, ref |-> "main",
            recorded |-> FALSE, temp |-> FALSE]

----------------------------------------------------------------------------
\* The branch moves.
Push == head < MaxPushes /\ head' = head + 1 /\ UNCHANGED <<install, bin>>

\* What a name resolves to now.
Named(from) == IF from = "tag" THEN 0 ELSE head

\* Mutant of Pinned: the downloads name the ref rather than the commit it was resolved to.
PinnedToRef == Named(install.from)

\* The revision that a download URL names: the commit when there is one, else what the ref is now.
Pinned == IF install.commit # NoCommit THEN install.commit ELSE Named(install.from)

Step(pc) == install' = [install EXCEPT !.pc = pc]
Ends(what) == install' = [install EXCEPT !.pc = "idle", !.said = what]

Starts(pc, from, force, compile) ==
  install' = [pc |-> pc, from |-> from, force |-> force, compile |-> compile, said |-> "nothing",
              commit |-> NoCommit, config |-> IF from = "local" THEN LocalTree ELSE NoCommit]

\* `rail upgrade`: a branch is compared with the record first; a version only with the running one.
BeginUpgrade(from, force, compile) ==
  /\ install.pc = "idle"
  /\ CASE from = "local" -> Starts("deno", from, force, compile)
       [] from = "main" -> Starts("check", from, force, compile)
       [] from = "tag" -> Starts(IF force THEN "resolve" ELSE "version", from, force, compile)
  /\ UNCHANGED <<head, bin>>

\* The installer script itself.
BeginInstall(from, compile) ==
  /\ install.pc = "idle" /\ Starts(IF from = "local" THEN "deno" ELSE "resolve", from, TRUE, compile)
  /\ UNCHANGED <<head, bin>>

\* `rail upgrade --check`: version and, where both are known, commit must agree with the record.
CheckOnly(resolved, sameVersion) ==
  /\ install.pc = "idle"
  /\ LET differs == resolved /\ bin.commit # NoCommit /\ bin.ref = "main" /\ bin.commit # head
         known == resolved /\ bin.commit # NoCommit /\ bin.ref = "main"
     IN install' = [install EXCEPT !.from = "main", !.commit = IF known THEN head ELSE NoCommit,
                      !.said = IF ~sameVersion \/ differs THEN "nothing"
                               ELSE IF known THEN "up to date" ELSE "same version"]
  /\ UNCHANGED <<head, bin>>

\* checkLatestCommit: nothing when it cannot be asked.
LatestCommit(resolved) == IF resolved THEN head ELSE NoCommit

\* The branch's commit, compared with the record.
CheckCommit(resolved) ==
  /\ install.pc = "check"
  /\ LET commit == LatestCommit(resolved)
         same == ~install.force /\ resolved /\ bin.commit = commit
     IN install' = [install EXCEPT !.commit = commit,
                      !.said = IF same THEN "up to date" ELSE "nothing",
                      !.pc = IF same THEN "idle" ELSE IF ~resolved /\ ~install.force THEN "version" ELSE "resolve"]
  /\ UNCHANGED <<head, bin>>

\* Without a commit only the version numbers are compared.
CheckVersion(same) ==
  /\ install.pc = "version"
  /\ IF same THEN Ends("same version") ELSE Step("resolve")
  /\ UNCHANGED <<head, bin>>

\* The installer resolves a ref it was not given a commit for; when it cannot, it goes on with the ref.
ResolveRef(resolved) ==
  /\ install.pc = "resolve"
  /\ install' = [install EXCEPT !.pc = "fetch",
                   !.commit = IF install.commit = NoCommit /\ resolved THEN Named(install.from) ELSE install.commit]
  /\ UNCHANGED <<head, bin>>

FetchConfig(ok) ==
  /\ install.pc = "fetch"
  /\ IF ok
     THEN install' = [install EXCEPT !.pc = "deno", !.config = Pinned] /\ bin' = [bin EXCEPT !.temp = TRUE]
     ELSE Ends("failed") /\ UNCHANGED bin
  /\ UNCHANGED head

\* `deno install` downloads the entrypoint and replaces the launcher.
DenoInstall(ok) ==
  /\ install.pc = "deno"
  /\ IF ok
     THEN /\ bin' = [bin EXCEPT !.launcher = IF install.from = "local" THEN LocalTree ELSE Pinned, !.recorded = FALSE]
          /\ Step(IF install.compile THEN "run" ELSE "persist")
     ELSE install' = [install EXCEPT !.pc = "cleanup", !.said = "failed"] /\ UNCHANGED bin
  /\ UNCHANGED head

\* .rail/deno.json beside the launcher, best effort.
PersistConfig(ok) ==
  /\ install.pc = "persist" /\ Step("run")
  /\ bin' = IF ok THEN [bin EXCEPT !.config = install.config] ELSE bin
  /\ UNCHANGED head

\* `rail --help`: a failure is reported, the new launcher stays.
VerifyLauncher(ok) ==
  /\ install.pc = "run"
  /\ IF ok THEN Step("record") ELSE install' = [install EXCEPT !.pc = "cleanup", !.said = "failed"]
  /\ UNCHANGED <<head, bin>>

\* Mutant of RecordedCommit: the branch is asked again when the record is written.
RecordedCommitNow == IF install.commit = NoCommit THEN NoCommit ELSE Named(install.from)

RecordedCommit == install.commit

\* .rail-version.json, best effort; the installation has succeeded either way.
WriteRecord(ok) ==
  /\ install.pc = "record"
  /\ install' = [install EXCEPT !.pc = "cleanup", !.said = "installed"]
  /\ bin' = IF ok THEN [bin EXCEPT !.commit = RecordedCommit, !.ref = install.from, !.recorded = TRUE] ELSE bin
  /\ UNCHANGED head

Cleanup(ok) ==
  /\ install.pc = "cleanup" /\ Step("idle")
  /\ bin' = IF ok THEN [bin EXCEPT !.temp = FALSE] ELSE bin
  /\ UNCHANGED head

\* The command is killed, or an unexpected error leaves it.
InstallKilled == install.pc # "idle" /\ Ends("nothing") /\ UNCHANGED <<head, bin>>

InstallNext ==
  \/ Push \/ InstallKilled
  \/ \E from \in Sources, compile \in BOOLEAN :
       BeginInstall(from, compile) \/ \E force \in BOOLEAN : BeginUpgrade(from, force, compile)
  \/ \E ok \in BOOLEAN :
       \/ CheckCommit(ok) \/ CheckVersion(ok) \/ ResolveRef(ok) \/ FetchConfig(ok) \/ DenoInstall(ok)
       \/ PersistConfig(ok) \/ VerifyLauncher(ok) \/ WriteRecord(ok) \/ Cleanup(ok)
       \/ \E same \in BOOLEAN : CheckOnly(ok, same)

InstallSpec == InstallInit /\ [][InstallNext]_installVars

----------------------------------------------------------------------------
\* "resolve it to a commit SHA so the downloaded config and entrypoint are pinned to one immutable
\* revision": an installation that knows its commit runs entrypoint and config of that commit,
\* however often the branch moves between the two downloads.
PinnedOneRevision ==
  install.said = "installed" /\ install.from # "local" /\ install.commit # NoCommit =>
    bin.launcher = install.commit /\ install.config = install.commit

\* "already up to date (version @ commit)" is true of the launcher, when the last replacement of
\* the launcher was recorded.
UpToDateTrue == install.said = "up to date" /\ bin.recorded => bin.launcher = install.commit
=============================================================================
