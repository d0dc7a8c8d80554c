----------------------------- MODULE Deployment -----------------------------
(***************************************************************************)
(* DeploymentService (apps/api/deployment-service.ts) of the control       *)
(* plane: the deploy pipeline, rollback, restore and delete of one         *)
(* project, and the file that should carry its state over a restart.       *)
(* Requests interleave at every await; the file is written in the          *)
(* background after the request was answered.                              *)
(*                                                                         *)
(* A revision id is its creation timestamp (the ULID's leading part, which *)
(* decides its order).  Equal milliseconds across a restart give distinct  *)
(* ULIDs in random order; the model leaves that coincidence out.           *)
(***************************************************************************)
EXTENDS Integers

CONSTANTS Functions,       \* the functions of the project
          Artifacts,       \* content addresses of the packaged code
          Settings,        \* values of the routes and of the metadata
          Deployers,       \* concurrent deploy requests
          Rollers,         \* concurrent rollback requests
          Archive,         \* revision records of an archive that may be restored
          MaxTime,         \* bound on timestamps
          MaxDeletes, MaxRestores, MaxRollbacks, MaxRestarts, MaxSettings,
          MaxEvents,       \* bound on those five together
          ClockMayGoBack,  \* the host's clock may be set back
          PersistMayFail,  \* a write of the state file may fail
          None

Ids == 1..MaxTime

Absent == [state |-> "absent", artifact |-> None]

Record == [state : {"Deployed", "Failed"}, artifact : Artifacts]

ASSUME DeploymentConstants ==
  /\ MaxTime \in Nat \ {0}
  /\ MaxDeletes \in Nat /\ MaxRestores \in Nat /\ MaxRollbacks \in Nat
  /\ MaxRestarts \in Nat /\ MaxSettings \in Nat /\ MaxEvents \in Nat
  /\ ClockMayGoBack \in BOOLEAN /\ PersistMayFail \in BOOLEAN
  /\ None \notin Ids /\ None \notin Settings
  /\ Archive \subseteq [fn : Functions, id : Ids, record : Record, active : BOOLEAN]
  /\ \A a \in Archive : a.active => a.record.state = "Deployed"
  /\ \A a, b \in Archive : a.fn = b.fn /\ a.id = b.id => a.record = b.record

VARIABLES
  revisions,       \* function -> id -> record, in memory
  activePointers,  \* function -> id of the revision that serves
  projectRoutes, projectMetadata,
  lastTimestamp,   \* in memory only
  persistQueued,   \* a change has not been picked up by a write yet
  writing,         \* the image a write in progress carries, or None
  disk,            \* the state file, or None
  objects,         \* artifact storage
  jobs,            \* deploy requests in flight
  flips,           \* rollback requests between their check and their flip
  clock,           \* Date.now()
  used,            \* history: ids handed out, or known to the archive
  lastWriteFailed, \* history: the last finished write failed
  spent            \* requests of each bounded kind so far

state == <<revisions, activePointers, projectRoutes, projectMetadata>>
durable == <<disk, objects>>
requests == <<jobs, flips>>
history == <<used, lastWriteFailed>>
vars == <<state, lastTimestamp, persistQueued, writing, durable, requests, clock, history, spent>>

----------------------------------------------------------------------------
\* What a write of the state file contains: everything but lastTimestamp.
Image == [revisions |-> revisions, activePointers |-> activePointers,
          routes |-> projectRoutes, metadata |-> projectMetadata]

Revisions == [Functions -> [Ids -> Record \cup {Absent}]]
Pointers == [Functions -> Ids \cup {None}]
Images == [revisions : Revisions, activePointers : Pointers,
           routes : Settings \cup {None}, metadata : Settings \cup {None}]

ASSUME NoneIsNoImage == None \notin Images

NoRevisions == [f \in Functions |-> [i \in Ids |-> Absent]]
NoPointers == [f \in Functions |-> None]

Job == [pc : {"idle", "storing", "probing"}, fn : Functions \cup {None},
        id : Ids \cup {None}, artifact : Artifacts \cup {None}]
NoJob == [pc |-> "idle", fn |-> None, id |-> None, artifact |-> None]

Flip == [fn : Functions, id : Ids] \cup {None}

Spent == [deletes : Nat, restores : Nat, rollbacks : Nat, restarts : Nat, settings : Nat]

TypeOK ==
  /\ revisions \in Revisions
  /\ activePointers \in Pointers
  /\ projectRoutes \in Settings \cup {None}
  /\ projectMetadata \in Settings \cup {None}
  /\ lastTimestamp \in 0..MaxTime
  /\ persistQueued \in BOOLEAN
  /\ writing \in Images \cup {None}
  /\ disk \in Images \cup {None}
  /\ objects \subseteq Artifacts
  /\ jobs \in [Deployers -> Job]
  /\ flips \in [Rollers -> Flip]
  /\ clock \in Ids
  /\ used \subseteq Ids
  /\ lastWriteFailed \in BOOLEAN
  /\ spent \in Spent

Init ==
  /\ revisions = NoRevisions
  /\ activePointers = NoPointers
  /\ projectRoutes = None /\ projectMetadata = None
  /\ lastTimestamp = 0
  /\ persistQueued = FALSE
  /\ writing = None
  /\ disk = None
  /\ objects = {}
  /\ jobs = [d \in Deployers |-> NoJob]
  /\ flips = [r \in Rollers |-> None]
  /\ clock = 1
  /\ used = {a.id : a \in Archive}
  /\ lastWriteFailed = FALSE
  /\ spent = [deletes |-> 0, restores |-> 0, rollbacks |-> 0, restarts |-> 0, settings |-> 0]

----------------------------------------------------------------------------
\* The bound on requests of one kind, and on all of them.
May(sofar, max) ==
  /\ sofar < max
  /\ spent.deletes + spent.restores + spent.rollbacks + spent.restarts + spent.settings < MaxEvents

\* Each persisting operation ends with #schedulePersist.
SchedulePersist == persistQueued' = TRUE

\* Mutant of NextTimestamp: Date.now() as it is.
NextTimestampRaw == clock

\* nextMonotonicTimestamp
NextTimestamp == IF clock <= lastTimestamp THEN lastTimestamp + 1 ELSE clock

\* deploy, up to its first write: the artifact's id and integrity have been
\* verified and the revision gets its id.
DeployBegin(d, f, art) ==
  /\ jobs[d].pc = "idle"
  /\ NextTimestamp \in Ids \ used
  /\ lastTimestamp' = NextTimestamp
  /\ jobs' = [jobs EXCEPT ![d] = [pc |-> "storing", fn |-> f, id |-> NextTimestamp,
                                  artifact |-> art]]
  /\ used' = used \cup {NextTimestamp}
  /\ UNCHANGED <<state, persistQueued, writing, durable, flips, clock,
                 lastWriteFailed, spent>>

\* storage.put resolves.
DeployStored(d) ==
  /\ jobs[d].pc = "storing"
  /\ objects' = objects \cup {jobs[d].artifact}
  /\ jobs' = [jobs EXCEPT ![d].pc = "probing"]
  /\ UNCHANGED <<state, lastTimestamp, persistQueued, writing, disk, flips, clock,
                 history, spent>>

\* storage.put rejects: deploy throws, no revision is recorded.
DeployStoreError(d) ==
  /\ jobs[d].pc = "storing"
  /\ jobs' = [jobs EXCEPT ![d] = NoJob]
  /\ UNCHANGED <<state, lastTimestamp, persistQueued, writing, durable, flips, clock,
                 history, spent>>

\* Mutant of DeployHealthy: the deploy that finishes last takes the traffic.
DeployHealthyLastWins(d) ==
  LET f == jobs[d].fn
      i == jobs[d].id
  IN  /\ jobs[d].pc = "probing"
      /\ revisions' = [revisions EXCEPT ![f][i] =
                         [state |-> "Deployed", artifact |-> jobs[d].artifact]]
      /\ activePointers' = [activePointers EXCEPT ![f] = i]
      /\ jobs' = [jobs EXCEPT ![d] = NoJob]
      /\ SchedulePersist
      /\ UNCHANGED <<projectRoutes, projectMetadata, lastTimestamp, writing, durable,
                     flips, clock, used, lastWriteFailed, spent>>

\* A healthy revision is recorded as Deployed, and takes the traffic unless
\* the serving revision has a larger id.
DeployHealthy(d) ==
  LET f == jobs[d].fn
      i == jobs[d].id
  IN  /\ jobs[d].pc = "probing"
      /\ revisions' = [revisions EXCEPT ![f][i] =
                         [state |-> "Deployed", artifact |-> jobs[d].artifact]]
      /\ activePointers' = IF activePointers[f] = None \/ activePointers[f] <= i
                           THEN [activePointers EXCEPT ![f] = i]
                           ELSE activePointers
      /\ jobs' = [jobs EXCEPT ![d] = NoJob]
      /\ SchedulePersist
      /\ UNCHANGED <<projectRoutes, projectMetadata, lastTimestamp, writing, durable,
                     flips, clock, used, lastWriteFailed, spent>>

\* A probe failed, threw or timed out: the revision is recorded as Failed.
DeployUnhealthy(d) ==
  LET f == jobs[d].fn
      i == jobs[d].id
  IN  /\ jobs[d].pc = "probing"
      /\ revisions' = [revisions EXCEPT ![f][i] =
                         [state |-> "Failed", artifact |-> jobs[d].artifact]]
      /\ jobs' = [jobs EXCEPT ![d] = NoJob]
      /\ SchedulePersist
      /\ UNCHANGED <<activePointers, projectRoutes, projectMetadata, lastTimestamp, writing,
                     durable, flips, clock, history, spent>>

----------------------------------------------------------------------------
\* Mutant of RollbackCheck: any recorded revision will do.
RollbackCheckAny(r, f, i) ==
  /\ flips[r] = None
  /\ May(spent.rollbacks, MaxRollbacks)
  /\ revisions[f][i] # Absent
  /\ flips' = [flips EXCEPT ![r] = [fn |-> f, id |-> i]]
  /\ spent' = [spent EXCEPT !.rollbacks = @ + 1]
  /\ UNCHANGED <<state, lastTimestamp, persistQueued, writing, durable, jobs, clock, history>>

\* rollback looks the target up; an unknown or failed one is refused.  The
\* await on getRevision ends the step.
RollbackCheck(r, f, i) ==
  /\ flips[r] = None
  /\ May(spent.rollbacks, MaxRollbacks)
  /\ revisions[f][i].state = "Deployed"
  /\ flips' = [flips EXCEPT ![r] = [fn |-> f, id |-> i]]
  /\ spent' = [spent EXCEPT !.rollbacks = @ + 1]
  /\ UNCHANGED <<state, lastTimestamp, persistQueued, writing, durable, jobs, clock, history>>

RollbackFlip(r) ==
  /\ flips[r] # None
  /\ activePointers' = [activePointers EXCEPT ![flips[r].fn] = flips[r].id]
  /\ flips' = [flips EXCEPT ![r] = None]
  /\ SchedulePersist
  /\ UNCHANGED <<revisions, projectRoutes, projectMetadata, lastTimestamp, writing, durable,
                 jobs, clock, history, spent>>

\* restoreRevision, called by an import that has stored the artifact.  An
\* existing record is kept; one with another artifact is a conflict.  Only an
\* active revision schedules a write.
Restore(a) ==
  LET existing == revisions[a.fn][a.id]
  IN  /\ May(spent.restores, MaxRestores)
      /\ existing = Absent \/ existing.artifact = a.record.artifact
      /\ revisions' = IF existing = Absent
                      THEN [revisions EXCEPT ![a.fn][a.id] = a.record]
                      ELSE revisions
      /\ objects' = objects \cup {a.record.artifact}
      /\ IF a.active
         THEN activePointers' = [activePointers EXCEPT ![a.fn] = a.id] /\ SchedulePersist
         ELSE UNCHANGED <<activePointers, persistQueued>>
      /\ spent' = [spent EXCEPT !.restores = @ + 1]
      /\ UNCHANGED <<projectRoutes, projectMetadata, lastTimestamp, writing, disk, requests,
                     clock, history>>

SetProjectRoutes(v) ==
  /\ May(spent.settings, MaxSettings)
  /\ projectRoutes' = v
  /\ SchedulePersist
  /\ spent' = [spent EXCEPT !.settings = @ + 1]
  /\ UNCHANGED <<revisions, activePointers, projectMetadata, lastTimestamp, writing, durable,
                 requests, clock, history>>

SetProjectMetadata(v) ==
  /\ May(spent.settings, MaxSettings)
  /\ projectMetadata' = v
  /\ SchedulePersist
  /\ spent' = [spent EXCEPT !.settings = @ + 1]
  /\ UNCHANGED <<revisions, activePointers, projectRoutes, lastTimestamp, writing, durable,
                 requests, clock, history>>

\* deleteProject: a write is scheduled only if there was something to delete.
DeleteProject ==
  /\ May(spent.deletes, MaxDeletes)
  /\ state # <<NoRevisions, NoPointers, None, None>>
  /\ revisions' = NoRevisions
  /\ activePointers' = NoPointers
  /\ projectRoutes' = None /\ projectMetadata' = None
  /\ SchedulePersist
  /\ spent' = [spent EXCEPT !.deletes = @ + 1]
  /\ UNCHANGED <<lastTimestamp, writing, durable, requests, clock, used, lastWriteFailed>>

----------------------------------------------------------------------------
\* A link of persistChain starts: it takes the image, of all changes so far.
PersistStart ==
  /\ persistQueued /\ writing = None
  /\ persistQueued' = FALSE
  /\ writing' = Image
  /\ UNCHANGED <<state, lastTimestamp, durable, requests, clock, history, spent>>

\* Mutant of PersistDone: the flag is cleared when the write ends.
PersistDoneClears ==
  /\ writing # None
  /\ disk' = writing
  /\ writing' = None
  /\ persistQueued' = FALSE
  /\ lastWriteFailed' = FALSE
  /\ UNCHANGED <<state, lastTimestamp, objects, requests, clock, used, spent>>

\* The temporary file is written and renamed over the state file.
PersistDone ==
  /\ writing # None
  /\ disk' = writing
  /\ writing' = None
  /\ lastWriteFailed' = FALSE
  /\ UNCHANGED <<state, lastTimestamp, persistQueued, objects, requests, clock, used,
                 spent>>

\* The write or the rename fails: logged, and not tried again.
PersistError ==
  /\ PersistMayFail
  /\ writing # None
  /\ writing' = None
  /\ lastWriteFailed' = TRUE
  /\ UNCHANGED <<state, lastTimestamp, persistQueued, durable, requests, clock, used,
                 spent>>

\* The process dies and a new one reads the state file (#hydrate).
Restart ==
  /\ May(spent.restarts, MaxRestarts)
  /\ revisions' = IF disk = None THEN NoRevisions ELSE disk.revisions
  /\ activePointers' = IF disk = None THEN NoPointers ELSE disk.activePointers
  /\ projectRoutes' = IF disk = None THEN None ELSE disk.routes
  /\ projectMetadata' = IF disk = None THEN None ELSE disk.metadata
  /\ lastTimestamp' = 0
  /\ persistQueued' = FALSE
  /\ writing' = None
  /\ jobs' = [d \in Deployers |-> NoJob]
  /\ flips' = [r \in Rollers |-> None]
  /\ lastWriteFailed' = FALSE
  /\ spent' = [spent EXCEPT !.restarts = @ + 1]
  /\ UNCHANGED <<durable, clock, used>>

\* Time passes; NTP or an operator may set the clock back.
ClockMoves(t) ==
  /\ t \in Ids \ {clock}
  /\ t > clock \/ ClockMayGoBack
  /\ clock' = t
  /\ UNCHANGED <<state, lastTimestamp, persistQueued, writing, durable, requests, history,
                 spent>>

Persist == PersistStart \/ PersistDone \/ PersistError

DeployStep(d) ==
  \/ \E f \in Functions, art \in Artifacts : DeployBegin(d, f, art)
  \/ DeployStored(d) \/ DeployStoreError(d) \/ DeployHealthy(d) \/ DeployUnhealthy(d)

RollbackStep(r) ==
  (\E f \in Functions, i \in Ids : RollbackCheck(r, f, i)) \/ RollbackFlip(r)

Next ==
  \/ \E d \in Deployers : DeployStep(d)
  \/ \E r \in Rollers : RollbackStep(r)
  \/ \E a \in Archive : Restore(a)
  \/ \E v \in Settings : SetProjectRoutes(v) \/ SetProjectMetadata(v)
  \/ DeleteProject
  \/ Persist
  \/ Restart
  \/ \E t \in Ids : ClockMoves(t)

Spec == Init /\ [][Next]_vars

\* The event loop runs the persist chain and the requests it has accepted.
Fairness ==
  /\ WF_vars(Persist)
  /\ \A r \in Rollers : WF_vars(RollbackFlip(r))
  /\ \A d \in Deployers : WF_vars(DeployStored(d) \/ DeployStoreError(d)
                                  \/ DeployHealthy(d) \/ DeployUnhealthy(d))

FairSpec == Spec /\ Fairness

----------------------------------------------------------------------------
\* An image serves when every pointer names a revision that passed its health
\* checks and whose artifact is in storage.
Servable(revs, pointers) ==
  \A f \in Functions : pointers[f] # None =>
    /\ revs[f][pointers[f]].state = "Deployed"
    /\ revs[f][pointers[f]].artifact \in objects

\* What serves now, and what would serve after a crash during or after any
\* write, is a revision that exists, passed its checks and has its artifact.
PointersExist ==
  /\ Servable(revisions, activePointers)
  /\ writing # None => Servable(writing.revisions, writing.activePointers)
  /\ disk # None => Servable(disk.revisions, disk.activePointers)

\* It is, whatever deploys, restores and restarts interleave, and whatever
\* writes fail, unless both a rollback and a delete race (PLAT-3).
ActiveServable == spent.deletes = 0 \/ spent.rollbacks = 0 => PointersExist

\* Whatever requests interleave, deletes and restarts included, no pointer,
\* in memory or in the state file, names a Failed revision (PLAT-3).
FailedNeverActive ==
  \A f \in Functions :
    /\ activePointers[f] # None => revisions[f][activePointers[f]].state # "Failed"
    /\ disk # None /\ disk.activePointers[f] # None =>
         disk.revisions[f][disk.activePointers[f]].state # "Failed"

\* Absent rollbacks and restores, the newest healthy revision serves, in
\* whatever order concurrent deploys finish ("atomic cutover race safety").
NewestServes ==
  spent.rollbacks = 0 /\ spent.restores = 0 =>
    \A f \in Functions, i \in Ids :
      revisions[f][i].state = "Deployed" =>
        activePointers[f] # None /\ activePointers[f] >= i

\* Within one process, ids sort by creation order however the clock moves.
CreationOrder ==
  spent.restarts = 0 =>
    \A i \in used' \ used : \A j \in used \ {a.id : a \in Archive} : j < i

\* The state file holds everything memory holds.
Durable ==
  \/ disk = Image
  \/ disk = None /\ state = <<NoRevisions, NoPointers, None, None>>

\* Once the persist chain is idle and its last write succeeded, the state
\* file has every change, those made while it was being written included.
DurableWhenQuiet == ~persistQueued /\ writing = None /\ ~lastWriteFailed => Durable

\* The state file catches up with memory for good once requests cease, unless
\* the last write failed, which nothing tries again.
EventuallyDurable == <>[](Durable \/ lastWriteFailed)

\* What the service promises of a function: the revision that serves exists, was
\* healthy and is the newest, the state file has it, and ids follow creation,
\* however deploys, rollbacks, restores, deletes, writes and restarts interleave.
DeploymentSafe ==
  /\ [](TypeOK /\ ActiveServable /\ FailedNeverActive /\ NewestServes /\ DurableWhenQuiet)
  /\ [][CreationOrder]_vars
=============================================================================
