----------------------------- MODULE StateBackup -----------------------------
(***************************************************************************)
(* StateBackupService: the export of a project into an archive and its     *)
(* import, while tenants go on writing.  Functions are read and restored   *)
(* in one synchronous step; the KV entries and the objects one after the   *)
(* other, between awaits.  To an export the writes of an import are those  *)
(* of any tenant, so the two are not interleaved here.  Large objects      *)
(* are not in the archive but in the content-addressed store.  Content     *)
(* addresses are the contents themselves.                                  *)
(***************************************************************************)
EXTENDS Naturals, FiniteSets

CONSTANTS Revs, RevArtifacts, Nothing,
          NumKeys,                     \* the KV keys are 1..NumKeys, in the order of list
          KvContents, Small, Large,    \* Small and Large: contents of objects
          MaxEvolutions                   \* bound on the changes made by others

ASSUME BackupAssumption ==
  /\ NumKeys \in Nat /\ MaxEvolutions \in Nat /\ Small \cap Large = {}
  /\ Nothing \notin Revs \cup RevArtifacts \cup KvContents \cup Small \cup Large

VARIABLES
  content,     \* what the project consists of
  cas,         \* the contents under artifacts/ in the object store
  archive,     \* the last archive, as it is when it comes back
  exporter, importer,
  changes      \* the changes made by others so far

backupVars == <<content, cas, archive, exporter, importer, changes>>

BackupKeys == 1..NumKeys
NoRevs == [r \in Revs |-> Nothing]
EmptyProject == [revs |-> NoRevs, active |-> Nothing, kv |-> [k \in BackupKeys |-> Nothing], obj |-> Nothing]

\* One object stands for all: hash is its address, data the inline payload, None for a large one.
NoObject == [hash |-> Nothing, data |-> Nothing]
EmptyArchive == [revs |-> NoRevs, active |-> Nothing, kv |-> [k \in BackupKeys |-> Nothing], obj |-> NoObject, there |-> FALSE]

\* cursor: the KV key read last; found: the archive so far; quiet: history, nobody else changed
\* the project since the export began.
NotExporting == [pc |-> "idle", cursor |-> 0, found |-> EmptyArchive, quiet |-> TRUE]

\* left: the KV keys that the phase still has to deal with; changed: history, the import has
\* changed the project; existing: history, the keys that had a value when the import began and
\* that nobody else has changed; lost: history, one of them was replaced.
NotImporting == [pc |-> "idle", overwrite |-> FALSE, left |-> {}, outcome |-> "none", changed |-> FALSE,
                 existing |-> {}, lost |-> FALSE, quiet |-> TRUE]
Phases == {"idle", "cas", "revisionCheck", "kvCheck", "revisions", "kv", "objects"}

BackupTypeOK ==
  /\ content \in [revs : [Revs -> RevArtifacts \cup {Nothing}], active : Revs \cup {Nothing},
                  kv : [BackupKeys -> KvContents \cup {Nothing}], obj : Small \cup Large \cup {Nothing}]
  /\ (content.active # Nothing => content.revs[content.active] # Nothing)
  /\ cas \subseteq Large /\ changes \in 0..MaxEvolutions
  /\ exporter.pc \in {"idle", "kv", "objects"} /\ importer.pc \in Phases
  /\ importer.outcome \in {"none", "restored", "refused", "failed"}

BackupInit ==
  /\ content = EmptyProject /\ cas = {} /\ archive = EmptyArchive
  /\ exporter = NotExporting /\ importer = NotImporting /\ changes = 0

----------------------------------------------------------------------------
\* validateBackupArchive: the active pointer names a revision of the archive, and an object
\* has an address, whether or not its payload is inline.
ValidFunctions(a) == a.active # Nothing => a.revs[a.active] # Nothing
ValidObjects(a) == a.obj.data # Nothing => a.obj.hash # Nothing
ValidArchive(a) == a.there /\ ValidFunctions(a) /\ ValidObjects(a)

----------------------------------------------------------------------------
\* Others: a function deploys, a handler writes.

Disturb(touched) ==
  /\ changes < MaxEvolutions /\ changes' = changes + 1
  /\ exporter' = [exporter EXCEPT !.quiet = (exporter.pc = "idle")]
  /\ importer' = [importer EXCEPT !.quiet = (importer.pc = "idle"), !.existing = importer.existing \ touched]
  /\ UNCHANGED <<archive, cas>>

DeployRevision(r, a) ==
  /\ content.revs[r] = Nothing
  /\ content' = [content EXCEPT !.revs[r] = a, !.active = r]
  /\ Disturb({})

WriteKey(k, v) ==
  /\ content.kv[k] # v /\ content' = [content EXCEPT !.kv[k] = v]
  /\ Disturb({k})

WriteObject(v) ==
  /\ content.obj # v /\ content' = [content EXCEPT !.obj = v]
  /\ Disturb({})

\* The project is lost, or the archive is brought to another installation.
NewInstallation ==
  /\ content # EmptyProject /\ exporter.pc = "idle" /\ importer.pc = "idle"
  /\ content' = EmptyProject /\ cas' = {} /\ importer' = NotImporting
  /\ UNCHANGED <<archive, exporter, changes>>

\* The archive is a JSON document in the hands of its owner: an inline payload or the artifact
\* of a revision is not what it was.  The schema is still satisfied.
EditArchive ==
  /\ archive.there /\ importer.pc = "idle" /\ changes < MaxEvolutions /\ changes' = changes + 1
  /\ \/ \E v \in Small : archive.obj.data \notin {Nothing, v} /\ archive' = [archive EXCEPT !.obj.data = v]
     \/ \E r \in Revs, a \in RevArtifacts : archive.revs[r] \notin {Nothing, a} /\ archive' = [archive EXCEPT !.revs[r] = a]
  /\ UNCHANGED <<content, cas, exporter, importer>>

----------------------------------------------------------------------------
\* exportProject

ExportFunctions ==
  /\ exporter.pc = "idle" /\ importer.pc = "idle"
  /\ exporter' = [NotExporting EXCEPT !.pc = "kv",
       !.found = [revs |-> content.revs, active |-> content.active, kv |-> [k \in BackupKeys |-> Nothing],
                  obj |-> NoObject, there |-> TRUE]]
  /\ UNCHANGED <<content, cas, archive, importer, changes>>

\* Mutant of PageAfter: the next page begins one key too far.
PageAfterSkipping(cursor) == {k \in BackupKeys : k > cursor + 1 /\ content.kv[k] # Nothing}

PageAfter(cursor) == {k \in BackupKeys : k > cursor /\ content.kv[k] # Nothing}

\* A page of the list, of one key, or the end of it.
ExportKeys ==
  LET page == PageAfter(exporter.cursor)
      k == CHOOSE j \in page : \A i \in page : j <= i
  IN
  /\ exporter.pc = "kv"
  /\ exporter' = IF page = {} THEN [exporter EXCEPT !.pc = "objects"]
                 ELSE [exporter EXCEPT !.cursor = k, !.found = [exporter.found EXCEPT !.kv[k] = content.kv[k]]]
  /\ UNCHANGED <<content, cas, archive, importer, changes>>

\* The object, if it is there: inline when small, else stored under its address.  The archive
\* is put in the object store and handed out.
ExportObjects ==
  LET o == content.obj IN
  /\ exporter.pc = "objects"
  /\ cas' = cas \cup ({o} \cap Large)
  /\ archive' = [exporter.found EXCEPT !.obj = [hash |-> o, data |-> IF o \in Small THEN o ELSE Nothing]]
  /\ exporter' = NotExporting /\ ValidArchive(archive')
  /\ UNCHANGED <<content, importer, changes>>

ExportFails ==
  /\ exporter.pc # "idle" /\ exporter' = NotExporting
  /\ UNCHANGED <<content, cas, archive, importer, changes>>

----------------------------------------------------------------------------
\* importProject

Keys(a) == {k \in BackupKeys : a.kv[k] # Nothing}

BeginImport(overwrite) ==
  /\ importer.pc = "idle" /\ exporter.pc = "idle" /\ ValidArchive(archive)
  /\ importer' = [NotImporting EXCEPT !.pc = "cas", !.overwrite = overwrite,
       !.existing = {k \in BackupKeys : content.kv[k] # Nothing}]
  /\ UNCHANGED <<content, cas, archive, exporter, changes>>

\* Mutant of PhaseAfter: the functions are restored before the keys are looked at.
PhaseAfterEager(pc) ==
  CASE pc = "cas" -> "revisionCheck" [] pc = "revisionCheck" -> "revisions" [] pc = "revisions" -> "kvCheck"
    [] pc = "kvCheck" -> "kv" [] pc = "kv" -> "objects"

\* The order of the phases.
PhaseAfter(pc) ==
  CASE pc = "cas" -> "revisionCheck" [] pc = "revisionCheck" -> "kvCheck" [] pc = "kvCheck" -> "revisions"
    [] pc = "revisions" -> "kv" [] pc = "kv" -> "objects"

NextPhase(i) == [i EXCEPT !.pc = PhaseAfter(i.pc),
  !.left = IF PhaseAfter(i.pc) = "kv" \/ (PhaseAfter(i.pc) = "kvCheck" /\ ~i.overwrite) THEN Keys(archive) ELSE {}]

Ended(i, outcome) == [i EXCEPT !.pc = "idle", !.left = {}, !.existing = {}, !.quiet = TRUE, !.outcome = outcome]

\* The import throws: before anything is written, or after that.
Throws(i) == Ended(i, IF i.pc \in {"cas", "revisionCheck", "kvCheck"} THEN "refused" ELSE "failed")

\* A large object must be in the content-addressed store.
CheckCas ==
  /\ importer.pc = "cas"
  /\ importer' = IF archive.obj.hash \in Large \ cas THEN Throws(importer) ELSE NextPhase(importer)
  /\ UNCHANGED <<content, cas, archive, exporter, changes>>

RevisionConflict == \E r \in Revs : {content.revs[r], archive.revs[r]} \cap {Nothing} = {} /\ content.revs[r] # archive.revs[r]

CheckRevisions ==
  /\ importer.pc = "revisionCheck"
  /\ importer' = IF RevisionConflict THEN Throws(importer) ELSE NextPhase(importer)
  /\ UNCHANGED <<content, cas, archive, exporter, changes>>

\* Mutant of Occupied: a key that holds an older value is taken for free.
OccupiedSame(k) == content.kv[k] = archive.kv[k]

Occupied(k) == content.kv[k] # Nothing

\* Without overwriteKv, one key after the other must be free.
CheckKey ==
  /\ importer.pc = "kvCheck"
  /\ IF importer.left = {} THEN importer' = NextPhase(importer)
     ELSE \E k \in importer.left :
            importer' = IF Occupied(k) THEN Throws(importer) ELSE [importer EXCEPT !.left = importer.left \ {k}]
  /\ UNCHANGED <<content, cas, archive, exporter, changes>>

\* restoreRevision for every revision: one that is there is kept; the active one becomes active.
RestoreRevisions ==
  /\ importer.pc = "revisions" /\ ~RevisionConflict
  /\ content' = [content EXCEPT
       !.revs = [r \in Revs |-> IF content.revs[r] = Nothing THEN archive.revs[r] ELSE content.revs[r]],
       !.active = IF archive.active = Nothing THEN content.active ELSE archive.active]
  /\ importer' = [NextPhase(importer) EXCEPT !.changed = (importer.changed \/ content' # content)]
  /\ UNCHANGED <<cas, archive, exporter, changes>>

\* One key after the other is set, whatever it holds by now.
RestoreKey ==
  /\ importer.pc = "kv"
  /\ IF importer.left = {} THEN importer' = NextPhase(importer) /\ UNCHANGED content
     ELSE \E k \in importer.left :
       /\ content' = [content EXCEPT !.kv[k] = archive.kv[k]]
       /\ importer' = [importer EXCEPT !.left = importer.left \ {k}, !.changed = (importer.changed \/ content' # content),
            !.lost = importer.lost \/ (~importer.overwrite /\ k \in importer.existing)]
  /\ UNCHANGED <<cas, archive, exporter, changes>>

\* Mutant of Verified: the inline payload is taken as it is.
VerifiedNever(obj) == TRUE

\* The payload has the address that the archive gives.
Verified(obj) == obj.data \in {Nothing, obj.hash}

Payload(obj) == IF obj.data # Nothing THEN obj.data ELSE obj.hash

\* The object is put, from the archive or from the content-addressed store.
RestoreObject ==
  LET obj == archive.obj IN
  /\ importer.pc = "objects"
  /\ \/ /\ obj.hash # Nothing /\ Verified(obj)
        /\ content' = [content EXCEPT !.obj = Payload(obj)]
        /\ importer' = [Ended(importer, "restored") EXCEPT !.changed = (importer.changed \/ content' # content)]
     \/ /\ obj.hash # Nothing /\ ~Verified(obj)
        /\ importer' = Throws(importer) /\ UNCHANGED content
     \/ /\ obj.hash = Nothing
        /\ importer' = Ended(importer, "restored") /\ UNCHANGED content
  /\ UNCHANGED <<cas, archive, exporter, changes>>

\* A storage call fails, or restoreRevision finds a conflict: nothing is taken back.
ImportFails ==
  /\ importer.pc # "idle" /\ importer' = Throws(importer)
  /\ UNCHANGED <<content, cas, archive, exporter, changes>>

BackupNext ==
  \/ \E r \in Revs, a \in RevArtifacts : DeployRevision(r, a)
  \/ \E k \in BackupKeys, v \in KvContents \cup {Nothing} : WriteKey(k, v)
  \/ \E v \in Small \cup Large \cup {Nothing} : WriteObject(v)
  \/ NewInstallation \/ EditArchive
  \/ ExportFunctions \/ ExportKeys \/ ExportObjects \/ ExportFails
  \/ (\E o \in BOOLEAN : BeginImport(o)) \/ CheckCas \/ CheckRevisions \/ CheckKey
  \/ RestoreRevisions \/ RestoreKey \/ RestoreObject \/ ImportFails

BackupSpec == BackupInit /\ [][BackupNext]_backupVars

----------------------------------------------------------------------------
\* An export during which nobody else wrote holds the whole project, across all pages.
ArchiveFaithful == ExportObjects /\ exporter.quiet =>
  [revs |-> archive'.revs, active |-> archive'.active, kv |-> archive'.kv, obj |-> archive'.obj.hash] = content

\* An import that reports success, and during which nobody else wrote, left every key, every
\* active pointer and the object as the archive has them, and the object has its address.
ImportFaithful == RestoreObject /\ importer'.outcome = "restored" /\ importer.quiet =>
  /\ \A k \in Keys(archive) : content'.kv[k] = archive.kv[k]
  /\ (archive.active # Nothing => content'.active = archive.active)
  /\ (archive.obj.hash # Nothing => content'.obj = archive.obj.hash)

\* "Fail-safe: zero state modified on error": an import that the checks refuse changed nothing.
RefusedUntouched == importer.outcome = "refused" => ~importer.changed

\* Without overwriteKv no value that was there when the import began is replaced, whatever
\* other keys are written and deleted meanwhile.
KeepsExisting == ~importer.lost

\* A backup brings back what it read or changes nothing: the archive is whole, an
\* import that succeeds restores it, one that is refused leaves no trace, and none
\* replaces what it was told to keep.
BackupSafe ==
  /\ [](BackupTypeOK /\ RefusedUntouched /\ KeepsExisting)
  /\ [][ArchiveFaithful /\ ImportFaithful]_backupVars
=============================================================================
