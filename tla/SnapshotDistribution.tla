------------------------ MODULE SnapshotDistribution ------------------------
(***************************************************************************)
(* The control plane's side of snapshot distribution (apps/api/            *)
(* control-server.ts) for one project: the snapshot cached per project,    *)
(* its fingerprint, the handlers that change the project and then mark the *)
(* snapshot dirty, and getProjectSnapshot, which reads the active          *)
(* revisions one await at a time.                                          *)
(*                                                                         *)
(* A fingerprint is the active revision of each function.  The source      *)
(* joins the entries of the functions that have one into a string, so the  *)
(* fingerprint of a project that serves nothing is the empty string, which *)
(* is also the mark for "dirty".                                           *)
(***************************************************************************)
EXTENDS Naturals, FiniteSetsExt

CONSTANTS SnapFunctions,    \* function names, as numbers in their sort order
          SnapRevisions,    \* revision ids a pointer may be flipped to
          SnapSettings,     \* declared routes and metadata
          Handlers,     \* concurrent requests
          MaxVersion, MaxChanges, MaxDrops, MaxSnapRestarts,
          NoSnapshot

ASSUME DistributionConstants ==
  /\ SnapFunctions \subseteq Nat /\ IsFiniteSet(SnapFunctions)
  /\ MaxVersion \in Nat /\ MaxChanges \in Nat /\ MaxDrops \in Nat /\ MaxSnapRestarts \in Nat
  /\ NoSnapshot \notin SnapRevisions /\ NoSnapshot \notin SnapSettings

VARIABLES
  known,        \* functions with a revision, what listFunctions returns
  active,       \* function -> active revision
  settings,     \* declared routes and metadata, or NoSnapshot
  snapshot,     \* state.snapshot, or NoSnapshot before the first one
  fingerprint,  \* state.revisionFingerprint
  handlers,     \* request -> how far it is
  snapSpent         \* changes, deletes and restarts so far

project == <<known, active, settings>>
snapVars == <<project, snapshot, fingerprint, handlers, snapSpent>>

SnapPointers == [SnapFunctions -> SnapRevisions \cup {NoSnapshot}]
Empty == [f \in SnapFunctions |-> NoSnapshot]
Snapshots == [version : 1..MaxVersion, functions : SnapPointers, settings : SnapSettings \cup {NoSnapshot}]

\* What a snapshot routes and binds.
Routings == [functions : SnapPointers, settings : SnapSettings \cup {NoSnapshot}]

ASSUME NoSnapshotIsNone ==
  NoSnapshot \notin Snapshots \cup [version : 1..MaxVersion, content : Routings]

Handler == [pc : {"idle", "changed", "reading", "answered"}, todo : SUBSET SnapFunctions,
            got : SnapPointers, answer : Snapshots \cup {NoSnapshot}, undisturbed : BOOLEAN]
At(pc, todo, got, answer, undisturbed) ==
  [pc |-> pc, todo |-> todo, got |-> got, answer |-> answer, undisturbed |-> undisturbed]
Idle == At("idle", {}, Empty, NoSnapshot, FALSE)

SnapTypeOK ==
  /\ known \subseteq SnapFunctions
  /\ active \in SnapPointers
  /\ settings \in SnapSettings \cup {NoSnapshot}
  /\ snapshot \in Snapshots \cup {NoSnapshot}
  /\ fingerprint \in SnapPointers
  /\ handlers \in [Handlers -> Handler]
  /\ snapSpent \in [changes : 0..MaxChanges, deletes : 0..MaxDrops, restarts : 0..MaxSnapRestarts]

SnapInit ==
  /\ known = {} /\ active = Empty /\ settings = NoSnapshot
  /\ snapshot = NoSnapshot /\ fingerprint = Empty
  /\ handlers = [r \in Handlers |-> Idle]
  /\ snapSpent = [changes |-> 0, deletes |-> 0, restarts |-> 0]

----------------------------------------------------------------------------
\* A change of the project disturbs every build of a snapshot under way.
Disturbed == [r \in Handlers |-> [handlers[r] EXCEPT !.undisturbed = FALSE]]

\* Mutants of NextVersion: the version is not counted on; versions start at zero.
NextVersionKept == IF snapshot = NoSnapshot THEN 1 ELSE snapshot.version
NextVersionFromZero == IF snapshot = NoSnapshot THEN 0 ELSE snapshot.version + 1

NextVersion == IF snapshot = NoSnapshot THEN 1 ELSE snapshot.version + 1

\* Mutant of Outdated: a cached snapshot is never rebuilt.
OutdatedIfMissing(mark, got) == snapshot = NoSnapshot

\* Whether the cached snapshot is rebuilt, given the fingerprint in force.
Outdated(mark, got) == snapshot = NoSnapshot \/ mark # got

\* createSnapshot, when the active revisions read differ from the fingerprint.
Publication(mark, got, set) ==
  IF Outdated(mark, got)
    THEN [version |-> NextVersion, functions |-> got, settings |-> set]
    ELSE snapshot

Answer(r, mark, got, set, hs) ==
  /\ Publication(mark, got, set).version <= MaxVersion
  /\ snapshot' = Publication(mark, got, set)
  /\ fingerprint' = IF Outdated(mark, got) THEN got ELSE mark
  /\ handlers' = [hs EXCEPT ![r] = At("answered", {}, got, Publication(mark, got, set), @.undisturbed)]

\* The synchronous head of getProjectSnapshot: list the functions and ask for
\* the first one's revision.  Without functions there is nothing to await.
StartBuild(r, mark, set, hs) ==
  LET fresh == [hs EXCEPT ![r].undisturbed = TRUE]
  IN  \/ /\ known = {}
         /\ Answer(r, mark, Empty, set, fresh)
      \/ /\ known # {}
         /\ fingerprint' = mark
         /\ handlers' = [fresh EXCEPT ![r] = At("reading", known \ {Min(known)},
                            [Empty EXCEPT ![Min(known)] = active[Min(known)]], @.answer, @.undisturbed)]
         /\ UNCHANGED snapshot

----------------------------------------------------------------------------
\* A deploy, a rollback or an import flips a pointer; the handler resumes later.
Activate(r, f, v) ==
  /\ handlers[r].pc = "idle" /\ snapSpent.changes < MaxChanges
  /\ known' = known \cup {f}
  /\ active' = [active EXCEPT ![f] = v]
  /\ handlers' = [Disturbed EXCEPT ![r].pc = "changed"]
  /\ snapSpent' = [snapSpent EXCEPT !.changes = @ + 1]
  /\ UNCHANGED <<settings, snapshot, fingerprint>>

\* A deploy whose revision failed its health check registers it, no more.
Register(r, f) ==
  /\ handlers[r].pc = "idle" /\ snapSpent.changes < MaxChanges
  /\ known' = known \cup {f}
  /\ handlers' = [Disturbed EXCEPT ![r].pc = "changed"]
  /\ snapSpent' = [snapSpent EXCEPT !.changes = @ + 1]
  /\ UNCHANGED <<active, settings, snapshot, fingerprint>>

\* Mutant of FinishChange: the snapshot is not marked dirty.
FinishChangeClean(r, s) ==
  /\ handlers[r].pc = "changed"
  /\ settings' = s
  /\ StartBuild(r, fingerprint, s, IF s = settings THEN handlers ELSE Disturbed)
  /\ UNCHANGED <<known, active, snapSpent>>

\* The rest of those handlers: store the declared routes and metadata of the
\* body, mark the snapshot dirty and rebuild it before answering.
FinishChange(r, s) ==
  /\ handlers[r].pc = "changed"
  /\ settings' = s
  /\ StartBuild(r, IF snapshot = NoSnapshot THEN fingerprint ELSE Empty, s,
                IF s = settings THEN handlers ELSE Disturbed)
  /\ UNCHANGED <<known, active, snapSpent>>

\* GET .../snapshot.
Get(r) ==
  /\ handlers[r].pc = "idle"
  /\ StartBuild(r, fingerprint, settings, handlers)
  /\ UNCHANGED <<project, snapSpent>>

\* One await of the loop over the functions is over, the next one begins.
ReadNext(r) ==
  /\ handlers[r].pc = "reading" /\ handlers[r].todo # {}
  /\ LET f == Min(handlers[r].todo)
     IN  handlers' = [handlers EXCEPT ![r] =
                        At(@.pc, @.todo \ {f}, [@.got EXCEPT ![f] = active[f]], @.answer, @.undisturbed)]
  /\ UNCHANGED <<project, snapshot, fingerprint, snapSpent>>

\* The last await is over: compare the fingerprint, publish if it differs.
FinishBuild(r) ==
  /\ handlers[r].pc = "reading" /\ handlers[r].todo = {}
  /\ Answer(r, fingerprint, handlers[r].got, settings, handlers)
  /\ UNCHANGED <<project, snapSpent>>

\* The response has been sent.
Sent(r) ==
  /\ handlers[r].pc = "answered"
  /\ handlers' = [handlers EXCEPT ![r] = Idle]
  /\ UNCHANGED <<project, snapshot, fingerprint, snapSpent>>

\* DELETE of the project.  The cached snapshot is not marked.
DropProject ==
  /\ snapSpent.deletes < MaxDrops
  /\ known' = {} /\ active' = Empty /\ settings' = NoSnapshot
  /\ handlers' = Disturbed
  /\ snapSpent' = [snapSpent EXCEPT !.deletes = @ + 1]
  /\ UNCHANGED <<snapshot, fingerprint>>

\* The process restarts: the project is read back, the cached snapshots are not.
RestartControl ==
  /\ snapSpent.restarts < MaxSnapRestarts
  /\ snapshot' = NoSnapshot /\ fingerprint' = Empty
  /\ handlers' = [r \in Handlers |-> Idle]
  /\ snapSpent' = [snapSpent EXCEPT !.restarts = @ + 1]
  /\ UNCHANGED project

SnapNext ==
  \/ \E r \in Handlers : \/ \E f \in SnapFunctions : \/ \E v \in SnapRevisions : Activate(r, f, v)
                                                 \/ Register(r, f)
                         \/ \E s \in SnapSettings \cup {settings} : FinishChange(r, s)
                         \/ Get(r) \/ ReadNext(r) \/ FinishBuild(r) \/ Sent(r)
  \/ DropProject
  \/ RestartControl

SnapSpec == SnapInit /\ [][SnapNext]_snapVars

----------------------------------------------------------------------------
Undisturbed == {r \in Handlers : handlers[r].pc = "answered" /\ handlers[r].undisturbed}

\* A snapshot request during which the project did not change is answered with
\* exactly the revisions that are active: no function a deploy or a rollback
\* has replaced is still routed, whatever other requests were half way.
\* Deleting the project is left out: it does not mark the snapshot, and a build
\* that began before it may be published after it.
FreshFunctions ==
  snapSpent.deletes = 0 => \A r \in Undisturbed : handlers[r].answer.functions = active

\* Such an answer of a project that serves something also carries the routes
\* and the metadata declared last, which the fingerprint does not cover.
\* For one that serves nothing the mark for "dirty" is its own fingerprint, and
\* the old routes stay.
FreshSettings ==
  snapSpent.deletes = 0 /\ active # Empty
    => \A r \in Undisturbed : handlers[r].answer.settings = settings

Source == INSTANCE SnapshotSource WITH
  None <- NoSnapshot,
  Contents <- Routings,
  published <- IF snapshot = NoSnapshot THEN NoSnapshot
               ELSE [version |-> snapshot.version,
                     content |-> [functions |-> snapshot.functions, settings |-> snapshot.settings]]

\* However the handlers interleave, a version names one snapshot until the
\* control plane restarts: what the ETag of the endpoint promises.
ImplementsSource == Source!Spec

\* Answers of the snapshot endpoint are fresh: a build that another request did
\* not disturb carries what is active, and the routes and metadata of it.
SnapshotsFresh == SnapTypeOK /\ FreshFunctions /\ FreshSettings
=============================================================================
