------------------------- MODULE ControlPlaneProofs -------------------------
(***************************************************************************)
(* Proofs about what a control plane keeps: the revisions and pointers of  *)
(* the deployment service, in memory and in its file, the snapshots it     *)
(* publishes to the runtimes, and the archives it exports and restores.    *)
(***************************************************************************)
EXTENDS Deployment, SnapshotDistribution, StateBackup, TLAPS, WellFoundedInduction

----------------------------------------------------------------------------
(* The deployment service: the inductive invariant.                         *)

\* Every record has an id that was handed out, and its artifact is stored.
Recorded(revs, u, o) ==
  \A f \in Functions, i \in Ids : revs[f][i] # Absent => i \in u /\ revs[f][i].artifact \in o

\* What is recorded under the id of an archived revision is that revision.
Archived(revs) == \A a \in Archive : revs[a.fn][a.id] \in {Absent, a.record}

\* A revision that a pointer may name, now or after a delete has dropped it.
Target(f, i, u) == i \in u /\ \A a \in Archive : a.fn = f /\ a.id = i => a.record.state = "Deployed"

Pointing(revs, ptrs, u, s) ==
  \A f \in Functions : ptrs[f] # None =>
    /\ Target(f, ptrs[f], u)
    /\ revs[f][ptrs[f]].state # "Failed"
    /\ s.deletes = 0 \/ s.rollbacks = 0 => revs[f][ptrs[f]].state = "Deployed"

Newest(revs, ptrs, s) ==
  s.rollbacks = 0 /\ s.restores = 0 =>
    \A f \in Functions, i \in Ids : revs[f][i].state = "Deployed" => ptrs[f] # None /\ ptrs[f] >= i

\* What holds of the state in memory, of the image being written and of the file.
ImageInv(revs, ptrs, u, o, s) ==
  /\ revs \in Revisions /\ ptrs \in Pointers
  /\ Recorded(revs, u, o) /\ Archived(revs) /\ Pointing(revs, ptrs, u, s) /\ Newest(revs, ptrs, s)

\* The id of a deploy in flight is its own: nothing is recorded, served or about
\* to be served under it, and no archive has it.
JobOK(job) ==
  job.pc # "idle" =>
    /\ job.fn \in Functions /\ job.id \in used /\ job.artifact \in Artifacts
    /\ \A a \in Archive : a.id # job.id
    /\ \A f \in Functions : revisions[f][job.id] = Absent /\ activePointers[f] # job.id
    /\ \A r \in Rollers : flips[r] # None => flips[r].id # job.id
    /\ job.pc = "probing" => job.artifact \in objects

\* A rollback between its check and its flip still has a healthy target, unless
\* the project was deleted.
FlipOK(flip) ==
  flip # None =>
    /\ spent.rollbacks # 0
    /\ Target(flip.fn, flip.id, used)
    /\ revisions[flip.fn][flip.id].state # "Failed"
    /\ spent.deletes = 0 => revisions[flip.fn][flip.id].state = "Deployed"

ArchiveIds == {a.id : a \in Archive}

Ordered == spent.restarts = 0 => \A j \in used \ ArchiveIds : j <= lastTimestamp

ServiceInv ==
  /\ TypeOK
  /\ ImageInv(revisions, activePointers, used, objects, spent)
  /\ writing # None => ImageInv(writing.revisions, writing.activePointers, used, objects, spent)
  /\ disk # None => ImageInv(disk.revisions, disk.activePointers, used, objects, spent)
  /\ \A d \in Deployers : JobOK(jobs[d])
  /\ \A d, e \in Deployers : d # e /\ jobs[d].pc # "idle" /\ jobs[e].pc # "idle" => jobs[d].id # jobs[e].id
  /\ \A r \in Rollers : FlipOK(flips[r])
  /\ ArchiveIds \subseteq used /\ Ordered

----------------------------------------------------------------------------
\* More ids, more artifacts and more requests leave an image as good as it was.
LEMMA ImageGrows ==
  ASSUME NEW revs, NEW ptrs, NEW u, NEW v, NEW o, NEW p, NEW s \in Spent, NEW t \in Spent,
         ImageInv(revs, ptrs, u, o, s), u \subseteq v, o \subseteq p,
         s.deletes <= t.deletes, s.rollbacks <= t.rollbacks, s.restores <= t.restores
  PROVE  ImageInv(revs, ptrs, v, p, t)
<1>1. /\ t.deletes = 0 => s.deletes = 0
      /\ t.rollbacks = 0 => s.rollbacks = 0
      /\ t.restores = 0 => s.restores = 0
  BY DEF Spent
<1>2. Recorded(revs, v, p) /\ Pointing(revs, ptrs, v, t)
  BY <1>1 DEF ImageInv, Recorded, Pointing, Target
<1>3. Newest(revs, ptrs, t)
  BY <1>1 DEF ImageInv, Newest
<1> QED BY <1>2, <1>3 DEF ImageInv

LEMMA EmptyImage ==
  ASSUME NEW u, NEW o, NEW s
  PROVE  ImageInv(NoRevisions, NoPointers, u, o, s)
<1>1. NoRevisions \in Revisions /\ NoPointers \in Pointers
  BY DEF NoRevisions, NoPointers, Revisions, Pointers
<1>2. \A f \in Functions, i \in Ids : NoRevisions[f][i] = Absent /\ NoPointers[f] = None
  BY DEF NoRevisions, NoPointers
<1>3. \A a \in Archive : a.fn \in Functions /\ a.id \in Ids
  BY DeploymentConstants
<1>4. Absent.state = "absent"
  BY DEF Absent
<1>5. Recorded(NoRevisions, u, o) /\ Archived(NoRevisions)
  BY <1>2, <1>3 DEF Recorded, Archived
<1>6. Pointing(NoRevisions, NoPointers, u, s) /\ Newest(NoRevisions, NoPointers, s)
  <2>1. \A f \in Functions : NoPointers[f] = None
    BY DEF NoPointers
  <2>2. \A f \in Functions, i \in Ids : NoRevisions[f][i].state # "Deployed"
    BY <1>2, <1>4
  <2> QED BY <2>1, <2>2 DEF Pointing, Newest
<1> QED BY <1>1, <1>5, <1>6 DEF ImageInv

LEMMA InitService == Init => ServiceInv
<1> SUFFICES ASSUME Init PROVE ServiceInv
  OBVIOUS
<1>1. TypeOK
  <2>1. revisions \in Revisions /\ activePointers \in Pointers
    BY DEF Init, NoRevisions, NoPointers, Revisions, Pointers
  <2>2. clock \in Ids /\ lastTimestamp \in 0..MaxTime /\ used \subseteq Ids
    BY DeploymentConstants DEF Init, Ids
  <2>3. jobs \in [Deployers -> Job] /\ flips \in [Rollers -> Flip] /\ spent \in Spent
    BY DEF Init, NoJob, Job, Flip, Spent
  <2> QED BY <2>1, <2>2, <2>3 DEF TypeOK, Init
<1>2. ImageInv(revisions, activePointers, used, objects, spent)
  BY EmptyImage DEF Init
<1>3. \A d \in Deployers : jobs[d].pc = "idle"
  BY DEF Init, NoJob
<1>4. ArchiveIds \subseteq used /\ Ordered
  BY DEF Init, ArchiveIds, Ordered
<1> QED BY <1>1, <1>2, <1>3, <1>4 DEF ServiceInv, JobOK, FlipOK, Init

\* What a rollback or a restore may point at.
LEMMA PointTo ==
  ASSUME NEW revs, NEW ptrs, NEW u, NEW o, NEW s, ImageInv(revs, ptrs, u, o, s),
         NEW f \in Functions, NEW i \in Ids, Target(f, i, u), revs[f][i].state # "Failed",
         s.deletes = 0 \/ s.rollbacks = 0 => revs[f][i].state = "Deployed",
         s.rollbacks # 0 \/ s.restores # 0
  PROVE  ImageInv(revs, [ptrs EXCEPT ![f] = i], u, o, s)
<1> DEFINE new == [ptrs EXCEPT ![f] = i]
<1>1. new \in Pointers /\ \A g \in Functions : new[g] = IF g = f THEN i ELSE ptrs[g]
  BY DEF ImageInv, Pointers
<1> HIDE DEF new
<1>2. Pointing(revs, new, u, s)
  BY <1>1 DEF ImageInv, Pointing
<1>3. Newest(revs, new, s)
  BY DEF Newest
<1> QED BY <1>1, <1>2, <1>3 DEF ImageInv, new

LEMMA StepService == ServiceInv /\ [Next]_vars => ServiceInv'
<1> SUFFICES ASSUME ServiceInv, [Next]_vars PROVE ServiceInv'
  OBVIOUS
<1>0. /\ TypeOK /\ ImageInv(revisions, activePointers, used, objects, spent)
      /\ writing # None => ImageInv(writing.revisions, writing.activePointers, used, objects, spent)
      /\ disk # None => ImageInv(disk.revisions, disk.activePointers, used, objects, spent)
      /\ \A d \in Deployers : JobOK(jobs[d])
      /\ \A d, e \in Deployers : d # e /\ jobs[d].pc # "idle" /\ jobs[e].pc # "idle" => jobs[d].id # jobs[e].id
      /\ \A r \in Rollers : FlipOK(flips[r])
      /\ ArchiveIds \subseteq used /\ Ordered /\ spent \in Spent /\ used \subseteq Ids
  BY DEF ServiceInv, TypeOK
<1>a. ASSUME spent' \in Spent, spent.deletes <= spent'.deletes, spent.rollbacks <= spent'.rollbacks,
             spent.restores <= spent'.restores, used \subseteq used', objects \subseteq objects'
      PROVE  /\ ImageInv(revisions, activePointers, used', objects', spent')
             /\ writing # None => ImageInv(writing.revisions, writing.activePointers, used', objects', spent')
             /\ disk # None => ImageInv(disk.revisions, disk.activePointers, used', objects', spent')
  BY <1>0, <1>a, ImageGrows
<1>b. /\ spent.deletes \in Nat /\ spent.rollbacks \in Nat /\ spent.restores \in Nat
      /\ spent.deletes <= spent.deletes /\ spent.rollbacks <= spent.rollbacks /\ spent.restores <= spent.restores
  BY <1>0 DEF Spent
<1>1. ASSUME NEW d \in Deployers, NEW f \in Functions, NEW art \in Artifacts, DeployBegin(d, f, art)
      PROVE  ServiceInv'
  <2>1. PICK i \in Ids \ used :
        /\ i = NextTimestamp /\ lastTimestamp' = i /\ used' = used \cup {i}
        /\ jobs' = [jobs EXCEPT ![d] = [pc |-> "storing", fn |-> f, id |-> i, artifact |-> art]]
        /\ UNCHANGED <<state, persistQueued, writing, durable, flips, clock, lastWriteFailed, spent>>
    BY <1>1 DEF DeployBegin
  <2>a. i > lastTimestamp
    BY <1>0, <2>1 DEF NextTimestamp, TypeOK, Ids
  <2>2. [pc |-> "storing", fn |-> f, id |-> i, artifact |-> art] \in Job
    BY <2>1 DEF Job
  <2>3. /\ jobs' \in [Deployers -> Job]
        /\ \A e \in Deployers : jobs'[e] = IF e = d THEN [pc |-> "storing", fn |-> f, id |-> i, artifact |-> art]
                                           ELSE jobs[e]
    BY <1>0, <2>1, <2>2 DEF TypeOK
  <2>b. lastTimestamp' \in 0..MaxTime /\ used' \subseteq Ids
    BY <1>0, <2>1 DEF Ids
  <2>4. TypeOK'
    BY <1>0, <2>1, <2>3, <2>b DEF TypeOK, state, durable
  <2>5. /\ ImageInv(revisions, activePointers, used, objects, spent)'
        /\ writing' # None => ImageInv(writing.revisions, writing.activePointers, used, objects, spent)'
        /\ disk' # None => ImageInv(disk.revisions, disk.activePointers, used, objects, spent)'
    BY <1>a, <1>b, <1>0, <2>1 DEF state, durable
  <2>6. \A r \in Rollers : FlipOK(flips[r])'
    BY <1>0, <2>1 DEF FlipOK, state, Target
  <2>7. JobOK([pc |-> "storing", fn |-> f, id |-> i, artifact |-> art])'
    <3>1. \A a \in Archive : a.id # i
      BY <1>0, <2>1 DEF ArchiveIds
    <3>2. \A g \in Functions : revisions[g][i] = Absent /\ activePointers[g] # i
      BY <1>0, <2>1, DeploymentConstants DEF ImageInv, Recorded, Pointing, Target
    <3>3. \A r \in Rollers : flips[r] # None => flips[r].id # i
      BY <1>0, <2>1 DEF FlipOK, Target
    <3> QED BY <2>1, <3>1, <3>2, <3>3 DEF JobOK, state
  <2>8. \A e \in Deployers : JobOK(jobs[e])'
    BY <1>0, <2>1, <2>3, <2>7 DEF JobOK, state, durable
  <2>9. \A c, e \in Deployers : c # e /\ jobs'[c].pc # "idle" /\ jobs'[e].pc # "idle" => jobs'[c].id # jobs'[e].id
    BY <1>0, <2>1, <2>3 DEF JobOK
  <2>10. ArchiveIds \subseteq used' /\ Ordered'
    BY <1>0, <2>1, <2>a DEF Ordered, TypeOK, Ids, ArchiveIds
  <2> QED BY <2>4, <2>5, <2>6, <2>8, <2>9, <2>10 DEF ServiceInv, ArchiveIds
<1>2. ASSUME NEW d \in Deployers, DeployStored(d) PROVE ServiceInv'
  <2>1. /\ jobs[d].pc = "storing" /\ objects' = objects \cup {jobs[d].artifact}
        /\ jobs' = [jobs EXCEPT ![d].pc = "probing"]
        /\ UNCHANGED <<state, lastTimestamp, persistQueued, writing, disk, flips, clock, history, spent>>
    BY <1>2 DEF DeployStored
  <2>2. /\ jobs' \in [Deployers -> Job]
        /\ \A e \in Deployers : e # d => jobs'[e] = jobs[e]
        /\ jobs'[d].pc = "probing" /\ jobs'[d].fn = jobs[d].fn /\ jobs'[d].id = jobs[d].id
        /\ jobs'[d].artifact = jobs[d].artifact
    BY <1>0, <2>1 DEF TypeOK, Job
  <2>3. jobs[d].artifact \in Artifacts
    BY <1>0, <2>1 DEF JobOK
  <2>4. TypeOK'
    BY <1>0, <2>1, <2>2, <2>3 DEF TypeOK, state, history
  <2>5. /\ ImageInv(revisions, activePointers, used, objects, spent)'
        /\ writing' # None => ImageInv(writing.revisions, writing.activePointers, used, objects, spent)'
        /\ disk' # None => ImageInv(disk.revisions, disk.activePointers, used, objects, spent)'
    BY <1>a, <1>b, <1>0, <2>1 DEF state, history
  <2>6. \A r \in Rollers : FlipOK(flips[r])'
    BY <1>0, <2>1 DEF FlipOK, state, history
  <2>7. JobOK(jobs[d])'
    BY <1>0, <2>1, <2>2 DEF JobOK, state, history
  <2>8. \A e \in Deployers : e # d => JobOK(jobs[e])'
    BY <1>0, <2>1, <2>2 DEF JobOK, state, history
  <2>9. \A c, e \in Deployers : c # e /\ jobs'[c].pc # "idle" /\ jobs'[e].pc # "idle" => jobs'[c].id # jobs'[e].id
    BY <1>0, <2>1, <2>2
  <2>10. ArchiveIds \subseteq used' /\ Ordered'
    BY <1>0, <2>1 DEF Ordered, history
  <2> QED BY <2>4, <2>5, <2>6, <2>7, <2>8, <2>9, <2>10 DEF ServiceInv, ArchiveIds
<1>c. ASSUME NEW d \in Deployers, jobs' = [jobs EXCEPT ![d] = NoJob]
      PROVE  /\ jobs' \in [Deployers -> Job] /\ jobs'[d].pc = "idle"
             /\ \A e \in Deployers : e # d => jobs'[e] = jobs[e]
             /\ \A c, e \in Deployers : c # e /\ jobs'[c].pc # "idle" /\ jobs'[e].pc # "idle" => jobs'[c].id # jobs'[e].id
  <2>1. NoJob \in Job /\ NoJob.pc = "idle"
    BY DEF NoJob, Job
  <2>2. jobs' \in [Deployers -> Job] /\ jobs'[d] = NoJob /\ \A e \in Deployers : e # d => jobs'[e] = jobs[e]
    BY <1>0, <1>c, <2>1 DEF TypeOK
  <2> QED BY <1>0, <2>1, <2>2
<1>3. ASSUME NEW d \in Deployers, DeployStoreError(d) PROVE ServiceInv'
  <2>1. /\ jobs' = [jobs EXCEPT ![d] = NoJob]
        /\ UNCHANGED <<state, lastTimestamp, persistQueued, writing, durable, flips, clock, history, spent>>
    BY <1>3 DEF DeployStoreError
  <2>2. TypeOK'
    BY <1>0, <1>c, <2>1 DEF TypeOK, state, durable, history
  <2>3. \A e \in Deployers : JobOK(jobs[e])'
    <3>1. JobOK(jobs[d])'
      BY <1>c, <2>1 DEF JobOK
    <3>2. ASSUME NEW e \in Deployers, e # d PROVE JobOK(jobs[e])'
      <4>1. jobs'[e] = jobs[e] /\ JobOK(jobs[e])
        BY <1>0, <1>c, <2>1, <3>2
      <4> QED BY <2>1, <4>1 DEF JobOK, state, durable, history
    <3> QED BY <3>1, <3>2
  <2>4. \A r \in Rollers : FlipOK(flips[r])'
    BY <1>0, <2>1 DEF FlipOK, state, history
  <2>5. ArchiveIds \subseteq used' /\ Ordered'
    BY <1>0, <2>1 DEF Ordered, history
  <2>6. /\ ImageInv(revisions, activePointers, used, objects, spent)'
        /\ writing' # None => ImageInv(writing.revisions, writing.activePointers, used, objects, spent)'
        /\ disk' # None => ImageInv(disk.revisions, disk.activePointers, used, objects, spent)'
    BY <1>a, <1>b, <1>0, <2>1 DEF state, durable, history
  <2> QED BY <1>c, <2>1, <2>2, <2>3, <2>4, <2>5, <2>6 DEF ServiceInv, ArchiveIds
\* The revision of a deploy is recorded.
<1>d. ASSUME NEW d \in Deployers, NEW st \in {"Deployed", "Failed"}, jobs[d].pc = "probing",
             revisions' = [revisions EXCEPT ![jobs[d].fn][jobs[d].id] = [state |-> st, artifact |-> jobs[d].artifact]],
             activePointers' = IF st = "Deployed" /\ (activePointers[jobs[d].fn] = None \/ activePointers[jobs[d].fn] <= jobs[d].id)
                               THEN [activePointers EXCEPT ![jobs[d].fn] = jobs[d].id] ELSE activePointers,
             jobs' = [jobs EXCEPT ![d] = NoJob], persistQueued' = TRUE,
             UNCHANGED <<projectRoutes, projectMetadata, lastTimestamp, writing, durable, flips, clock, history, spent>>
      PROVE  ServiceInv'
  <2> DEFINE f == jobs[d].fn
             i == jobs[d].id
             rec == [state |-> st, artifact |-> jobs[d].artifact]
  <2>1. /\ f \in Functions /\ i \in used /\ i \in Ids /\ rec \in Record /\ rec.state = st
        /\ rec.artifact = jobs[d].artifact /\ rec.artifact \in objects /\ rec # Absent
        /\ \A a \in Archive : a.id # i
        /\ \A g \in Functions : revisions[g][i] = Absent /\ activePointers[g] # i
        /\ \A r \in Rollers : flips[r] # None => flips[r].id # i
    BY <1>0, <1>d DEF JobOK, Record, Absent
  <2>2. revisions \in Revisions /\ activePointers \in Pointers
    BY <1>0 DEF TypeOK
  <2>3. /\ revisions' \in Revisions
        /\ \A g \in Functions, j \in Ids : revisions'[g][j] = IF g = f /\ j = i THEN rec ELSE revisions[g][j]
    BY <1>d, <2>1, <2>2 DEF Revisions
  <2>4. /\ activePointers' \in Pointers
        /\ \A g \in Functions : activePointers'[g] = activePointers[g] \/ (g = f /\ activePointers'[g] = i /\ st = "Deployed")
        /\ st = "Deployed" => activePointers'[f] # None /\ activePointers'[f] >= i
        /\ \A g \in Functions : activePointers[g] # None => activePointers'[g] # None /\ activePointers'[g] >= activePointers[g]
    <3>1. i \in Nat /\ i # None /\ \A g \in Functions : activePointers[g] # None => activePointers[g] \in Nat
      BY <2>1, <2>2, DeploymentConstants DEF Pointers, Ids
    <3> HIDE DEF f, i
    <3>2. activePointers' = IF st = "Deployed" /\ (activePointers[f] = None \/ activePointers[f] <= i)
                            THEN [activePointers EXCEPT ![f] = i] ELSE activePointers
      BY <1>d DEF f, i
    <3>3. activePointers' \in Pointers
      BY <2>1, <2>2, <3>2 DEF Pointers
    <3> QED BY <2>1, <2>2, <3>1, <3>2, <3>3 DEF Pointers
  <2> HIDE DEF f, i, rec
  <2>5. UNCHANGED <<used, objects, spent, writing, disk, flips, lastTimestamp, clock, lastWriteFailed,
                    projectRoutes, projectMetadata>> /\ persistQueued' = TRUE
    BY <1>d DEF durable, history
  <2>6. TypeOK'
    BY <1>0, <1>c, <1>d, <2>3, <2>4, <2>5 DEF TypeOK
  <2>7. Recorded(revisions', used', objects') /\ Archived(revisions')
    BY <1>0, <2>1, <2>3, <2>5, DeploymentConstants DEF ImageInv, Recorded, Archived
  <2>8. Pointing(revisions', activePointers', used', spent')
    <3> SUFFICES ASSUME NEW g \in Functions, activePointers'[g] # None
                 PROVE  /\ Target(g, activePointers'[g], used)
                        /\ revisions'[g][activePointers'[g]].state # "Failed"
                        /\ spent.deletes = 0 \/ spent.rollbacks = 0 => revisions'[g][activePointers'[g]].state = "Deployed"
      BY <2>5 DEF Pointing
    <3>1. CASE activePointers'[g] = activePointers[g]
      <4>1. activePointers[g] \in Ids /\ revisions'[g][activePointers[g]] = revisions[g][activePointers[g]]
        BY <2>1, <2>2, <2>3, <3>1 DEF Pointers
      <4> QED BY <1>0, <3>1, <4>1 DEF ImageInv, Pointing
    <3>2. CASE g = f /\ activePointers'[g] = i /\ st = "Deployed"
      BY <2>1, <2>3, <3>2 DEF Target
    <3> QED BY <2>4, <3>1, <3>2
  <2>9. Newest(revisions', activePointers', spent')
    <3> SUFFICES ASSUME spent.rollbacks = 0, spent.restores = 0, NEW g \in Functions, NEW j \in Ids,
                        revisions'[g][j].state = "Deployed"
                 PROVE  activePointers'[g] # None /\ activePointers'[g] >= j
      BY <2>5 DEF Newest
    <3>1. CASE g = f /\ j = i
      BY <2>1, <2>3, <2>4, <3>1
    <3>2. CASE ~(g = f /\ j = i)
      <4>1. activePointers[g] # None /\ activePointers[g] >= j
        BY <1>0, <2>3, <3>2 DEF ImageInv, Newest
      <4>2. activePointers[g] \in Nat /\ activePointers'[g] \in Nat /\ j \in Nat
        BY <2>2, <2>4, <4>1 DEF Pointers, Ids
      <4> QED BY <2>4, <4>1, <4>2
    <3> QED BY <3>1, <3>2
  <2>10. \A r \in Rollers : FlipOK(flips[r])'
    <3> SUFFICES ASSUME NEW r \in Rollers, flips[r] # None PROVE FlipOK(flips[r])'
      BY <2>5 DEF FlipOK
    <3>1. flips[r].fn \in Functions /\ flips[r].id \in Ids
      BY <1>0 DEF TypeOK, Flip
    <3>2. revisions'[flips[r].fn][flips[r].id] = revisions[flips[r].fn][flips[r].id]
      BY <2>1, <2>3, <3>1
    <3> QED BY <1>0, <2>5, <3>2 DEF FlipOK
  <2>11. \A e \in Deployers : JobOK(jobs[e])'
    <3> SUFFICES ASSUME NEW e \in Deployers, e # d, jobs[e].pc # "idle" PROVE JobOK(jobs[e])'
      BY <1>c, <1>d DEF JobOK
    <3>1. jobs'[e] = jobs[e] /\ jobs[e].id # i /\ jobs[e].id \in Ids
      BY <1>0, <1>c, <1>d DEF i, JobOK
    <3> QED BY <1>0, <2>3, <2>4, <2>5, <3>1 DEF JobOK
  <2>12. ArchiveIds \subseteq used' /\ Ordered'
    BY <1>0, <2>5 DEF Ordered
  <2>13. /\ writing' # None => ImageInv(writing.revisions, writing.activePointers, used, objects, spent)'
         /\ disk' # None => ImageInv(disk.revisions, disk.activePointers, used, objects, spent)'
    BY <1>0, <2>5
  <2> QED BY <1>c, <1>d, <2>3, <2>4, <2>6, <2>7, <2>8, <2>9, <2>10, <2>11, <2>12, <2>13 DEF ServiceInv, ArchiveIds, ImageInv
<1>4. ASSUME NEW d \in Deployers, DeployHealthy(d) PROVE ServiceInv'
  BY <1>4, <1>d DEF DeployHealthy, SchedulePersist, history
<1>5. ASSUME NEW d \in Deployers, DeployUnhealthy(d) PROVE ServiceInv'
  BY <1>5, <1>d DEF DeployUnhealthy, SchedulePersist
<1>6. ASSUME NEW r \in Rollers, NEW f \in Functions, NEW i \in Ids, RollbackCheck(r, f, i) PROVE ServiceInv'
  <2>1. /\ revisions[f][i].state = "Deployed" /\ flips' = [flips EXCEPT ![r] = [fn |-> f, id |-> i]]
        /\ spent' = [spent EXCEPT !.rollbacks = @ + 1]
        /\ UNCHANGED <<state, lastTimestamp, persistQueued, writing, durable, jobs, clock, history>>
    BY <1>6 DEF RollbackCheck
  <2>2. /\ spent' \in Spent /\ spent'.deletes = spent.deletes /\ spent'.rollbacks = spent.rollbacks + 1
        /\ spent'.restores = spent.restores /\ spent'.restarts = spent.restarts
    BY <1>0, <2>1 DEF Spent
  <2>3. /\ flips' \in [Rollers -> Flip] /\ flips'[r] = [fn |-> f, id |-> i]
        /\ \A q \in Rollers : q # r => flips'[q] = flips[q]
    BY <1>0, <2>1 DEF TypeOK, Flip
  <2>4. TypeOK'
    BY <1>0, <2>1, <2>2, <2>3 DEF TypeOK, state, durable, history
  <2>5. /\ ImageInv(revisions, activePointers, used, objects, spent)'
        /\ writing' # None => ImageInv(writing.revisions, writing.activePointers, used, objects, spent)'
        /\ disk' # None => ImageInv(disk.revisions, disk.activePointers, used, objects, spent)'
    BY <1>a, <1>b, <2>1, <2>2 DEF state, durable, history
  <2>6. i \in used /\ revisions[f][i] # Absent /\ Target(f, i, used)
    <3>1. revisions[f][i] # Absent
      BY <2>1 DEF Absent
    <3>2. i \in used /\ \A a \in Archive : a.fn = f /\ a.id = i => revisions[f][i] = a.record
      BY <1>0, <3>1 DEF ImageInv, Recorded, Archived
    <3> QED BY <2>1, <3>1, <3>2 DEF Target
  <2>7. \A q \in Rollers : FlipOK(flips[q])'
    <3>1. FlipOK(flips[r])'
      BY <1>b, <2>1, <2>2, <2>3, <2>6 DEF FlipOK, state, history
    <3>2. ASSUME NEW q \in Rollers, q # r PROVE FlipOK(flips[q])'
      BY <1>0, <1>b, <2>1, <2>2, <2>3, <3>2 DEF FlipOK, state, history
    <3> QED BY <3>1, <3>2
  <2>8. \A d \in Deployers : JobOK(jobs[d])'
    BY <1>0, <2>1, <2>3, <2>6 DEF JobOK, state, durable, history
  <2>9. ArchiveIds \subseteq used' /\ Ordered'
    BY <1>0, <2>1, <2>2 DEF Ordered, history
  <2> QED BY <1>0, <2>1, <2>4, <2>5, <2>7, <2>8, <2>9 DEF ServiceInv, ArchiveIds
<1>7. ASSUME NEW r \in Rollers, RollbackFlip(r) PROVE ServiceInv'
  <2>1. /\ flips[r] # None /\ activePointers' = [activePointers EXCEPT ![flips[r].fn] = flips[r].id]
        /\ flips' = [flips EXCEPT ![r] = None] /\ persistQueued' = TRUE
        /\ UNCHANGED <<revisions, projectRoutes, projectMetadata, lastTimestamp, writing, durable, jobs, clock, history, spent>>
    BY <1>7 DEF RollbackFlip, SchedulePersist
  <2>2. flips[r].fn \in Functions /\ flips[r].id \in Ids /\ FlipOK(flips[r])
    BY <1>0, <2>1 DEF TypeOK, Flip
  <2>3. flips' \in [Rollers -> Flip] /\ flips'[r] = None /\ \A q \in Rollers : q # r => flips'[q] = flips[q]
    BY <1>0, <2>1 DEF TypeOK, Flip
  <2>4. /\ Target(flips[r].fn, flips[r].id, used) /\ revisions[flips[r].fn][flips[r].id].state # "Failed"
        /\ spent.rollbacks # 0 /\ (spent.deletes = 0 => revisions[flips[r].fn][flips[r].id].state = "Deployed")
    BY <2>1, <2>2 DEF FlipOK
  <2>5. ImageInv(revisions, activePointers', used, objects, spent)
    BY <1>0, <2>1, <2>2, <2>4, PointTo
  <2>6. activePointers' \in Pointers /\ \A f \in Functions : activePointers'[f] \in {activePointers[f], flips[r].id}
    BY <1>0, <2>1, <2>2 DEF TypeOK, Pointers
  <2>7. TypeOK'
    BY <1>0, <2>1, <2>3, <2>6 DEF TypeOK, durable, history
  <2>8. \A q \in Rollers : FlipOK(flips[q])'
    BY <1>0, <2>1, <2>3 DEF FlipOK, history
  <2>9. \A d \in Deployers : JobOK(jobs[d])'
    BY <1>0, <2>1, <2>3, <2>6 DEF JobOK, durable, history
  <2>10. ArchiveIds \subseteq used' /\ Ordered'
    BY <1>0, <2>1 DEF Ordered, history
  <2>11. /\ ImageInv(revisions, activePointers, used, objects, spent)'
         /\ writing' # None => ImageInv(writing.revisions, writing.activePointers, used, objects, spent)'
         /\ disk' # None => ImageInv(disk.revisions, disk.activePointers, used, objects, spent)'
    BY <1>0, <2>1, <2>5 DEF durable, history
  <2> QED BY <1>0, <2>1, <2>7, <2>8, <2>9, <2>10, <2>11 DEF ServiceInv, ArchiveIds
<1>8. ASSUME NEW a \in Archive, Restore(a) PROVE ServiceInv'
  <2> DEFINE existing == revisions[a.fn][a.id]
             o == objects \cup {a.record.artifact}
  <2>1. /\ existing = Absent \/ existing.artifact = a.record.artifact
        /\ revisions' = IF existing = Absent THEN [revisions EXCEPT ![a.fn][a.id] = a.record] ELSE revisions
        /\ objects' = o
        /\ activePointers' = (IF a.active THEN [activePointers EXCEPT ![a.fn] = a.id] ELSE activePointers)
        /\ persistQueued' = (IF a.active THEN TRUE ELSE persistQueued)
        /\ spent' = [spent EXCEPT !.restores = @ + 1]
        /\ UNCHANGED <<projectRoutes, projectMetadata, lastTimestamp, writing, disk, requests, clock, history>>
    BY <1>8 DEF Restore, SchedulePersist
  <2>2. /\ a.fn \in Functions /\ a.id \in Ids /\ a.id \in used /\ a.record \in Record /\ a.record # Absent
        /\ a.active \in BOOLEAN /\ (a.active => a.record.state = "Deployed") /\ a.record.artifact \in Artifacts
    BY <1>0, DeploymentConstants DEF ArchiveIds, Record, Absent
  <2>3. revisions \in Revisions /\ activePointers \in Pointers /\ existing \in {Absent, a.record}
    BY <1>0 DEF TypeOK, ImageInv, Archived
  <2>4. /\ revisions' \in Revisions
        /\ \A f \in Functions, i \in Ids :
             revisions'[f][i] = IF f = a.fn /\ i = a.id THEN a.record ELSE revisions[f][i]
    BY <2>1, <2>2, <2>3 DEF Revisions
  <2>5. /\ spent' \in Spent /\ spent'.deletes = spent.deletes /\ spent'.rollbacks = spent.rollbacks
        /\ spent'.restores = spent.restores + 1 /\ spent'.restarts = spent.restarts
    BY <1>0, <2>1 DEF Spent
  <2>6. /\ ImageInv(revisions, activePointers, used, o, spent')
        /\ writing # None => ImageInv(writing.revisions, writing.activePointers, used, o, spent')
        /\ disk # None => ImageInv(disk.revisions, disk.activePointers, used, o, spent')
    BY <1>a, <1>b, <2>1, <2>5 DEF history
  <2> HIDE DEF existing, o
  <2>7. ImageInv(revisions', activePointers, used, o, spent')
    <3>1. Recorded(revisions', used, o)
      <4> SUFFICES ASSUME NEW f \in Functions, NEW i \in Ids, revisions'[f][i] # Absent
                   PROVE  i \in used /\ revisions'[f][i].artifact \in o
        BY DEF Recorded
      <4>1. CASE f = a.fn /\ i = a.id
        BY <2>2, <2>4, <4>1 DEF o
      <4>2. CASE ~(f = a.fn /\ i = a.id)
        BY <2>4, <2>6, <4>2 DEF ImageInv, Recorded
      <4> QED BY <4>1, <4>2
    <3>2. Archived(revisions')
      <4> SUFFICES ASSUME NEW b \in Archive PROVE revisions'[b.fn][b.id] \in {Absent, b.record}
        BY DEF Archived
      <4>1. b.fn \in Functions /\ b.id \in Ids /\ (b.fn = a.fn /\ b.id = a.id => b.record = a.record)
        BY DeploymentConstants
      <4> QED BY <1>0, <2>4, <4>1 DEF ImageInv, Archived
    <3>3. Pointing(revisions', activePointers, used, spent')
      <4> SUFFICES ASSUME NEW f \in Functions, activePointers[f] # None
                   PROVE  /\ Target(f, activePointers[f], used)
                          /\ revisions'[f][activePointers[f]].state # "Failed"
                          /\ spent'.deletes = 0 \/ spent'.rollbacks = 0 => revisions'[f][activePointers[f]].state = "Deployed"
        BY DEF Pointing
      <4>1. activePointers[f] \in Ids /\ Target(f, activePointers[f], used)
        BY <1>0, <2>3 DEF ImageInv, Pointing, Pointers
      <4>2. CASE f = a.fn /\ activePointers[f] = a.id
        <5>1. a.record.state = "Deployed"
          BY <4>1, <4>2 DEF Target
        <5> QED BY <2>4, <4>1, <4>2, <5>1
      <4>3. CASE ~(f = a.fn /\ activePointers[f] = a.id)
        BY <2>4, <2>6, <4>1, <4>3 DEF ImageInv, Pointing
      <4> QED BY <4>2, <4>3
    <3>4. Newest(revisions', activePointers, spent')
      BY <1>b, <2>5 DEF Newest
    <3> QED BY <2>3, <2>4, <3>1, <3>2, <3>3, <3>4 DEF ImageInv
  <2>8. ImageInv(revisions', activePointers', used, o, spent')
    <3>1. CASE a.active
      <4>1. Target(a.fn, a.id, used) /\ revisions'[a.fn][a.id].state = "Deployed"
        BY <2>2, <2>4, <3>1, DeploymentConstants DEF Target
      <4>2. spent'.restores # 0
        BY <1>b, <2>5
      <4> QED BY <2>1, <2>2, <2>7, <3>1, <4>1, <4>2, PointTo
    <3>2. CASE ~a.active
      BY <2>1, <2>7, <3>2
    <3> QED BY <3>1, <3>2
  <2>9. activePointers' \in Pointers /\ \A f \in Functions : activePointers'[f] \in {activePointers[f], a.id}
    BY <2>1, <2>2, <2>3 DEF Pointers
  <2>10. TypeOK'
    <3>1. persistQueued' \in BOOLEAN /\ objects' \subseteq Artifacts
      BY <1>0, <2>1, <2>2 DEF TypeOK, o
    <3> QED BY <1>0, <2>1, <2>4, <2>5, <2>9, <3>1 DEF TypeOK, requests, history
  <2>11. \A r \in Rollers : FlipOK(flips[r])'
    <3> SUFFICES ASSUME NEW r \in Rollers, flips[r] # None PROVE FlipOK(flips[r])'
      BY <2>1 DEF FlipOK, requests
    <3>1. flips[r].fn \in Functions /\ flips[r].id \in Ids /\ FlipOK(flips[r])
      BY <1>0 DEF TypeOK, Flip
    <3>2. CASE flips[r].fn = a.fn /\ flips[r].id = a.id
      <4>1. revisions'[flips[r].fn][flips[r].id] = a.record /\ a.record.state = "Deployed"
        BY <2>4, <3>1, <3>2 DEF FlipOK, Target
      <4> QED BY <2>1, <2>5, <3>1, <4>1 DEF FlipOK, requests, history
    <3>3. CASE ~(flips[r].fn = a.fn /\ flips[r].id = a.id)
      <4>1. revisions'[flips[r].fn][flips[r].id] = revisions[flips[r].fn][flips[r].id]
        BY <2>4, <3>1, <3>3
      <4> QED BY <2>1, <2>5, <3>1, <4>1 DEF FlipOK, requests, history
    <3> QED BY <3>2, <3>3
  <2>12. \A d \in Deployers : JobOK(jobs[d])'
    <3> SUFFICES ASSUME NEW d \in Deployers, jobs[d].pc # "idle" PROVE JobOK(jobs[d])'
      BY <2>1 DEF JobOK, requests
    <3>1. jobs[d].id # a.id /\ jobs[d].id \in Ids
      BY <1>0 DEF JobOK
    <3> QED BY <1>0, <2>1, <2>4, <2>9, <3>1 DEF JobOK, requests, history, o
  <2>13. ArchiveIds \subseteq used' /\ Ordered'
    BY <1>0, <2>1, <2>5 DEF Ordered, history
  <2>14. /\ ImageInv(revisions, activePointers, used, objects, spent)'
         /\ writing' # None => ImageInv(writing.revisions, writing.activePointers, used, objects, spent)'
         /\ disk' # None => ImageInv(disk.revisions, disk.activePointers, used, objects, spent)'
    BY <2>1, <2>6, <2>8 DEF history
  <2> QED BY <1>0, <2>1, <2>10, <2>11, <2>12, <2>13, <2>14 DEF ServiceInv, ArchiveIds, requests
<1>e. ASSUME UNCHANGED <<revisions, activePointers, writing, durable, requests, used, lastTimestamp>>,
             spent' \in Spent, spent'.deletes = spent.deletes, spent'.rollbacks = spent.rollbacks,
             spent'.restores = spent.restores, spent'.restarts = spent.restarts, TypeOK'
      PROVE  ServiceInv'
  <2>1. /\ ImageInv(revisions, activePointers, used, objects, spent)'
        /\ writing' # None => ImageInv(writing.revisions, writing.activePointers, used, objects, spent)'
        /\ disk' # None => ImageInv(disk.revisions, disk.activePointers, used, objects, spent)'
    BY <1>a, <1>b, <1>e DEF durable
  <2>2. (\A r \in Rollers : FlipOK(flips[r])') /\ \A d \in Deployers : JobOK(jobs[d])'
    BY <1>0, <1>e DEF FlipOK, JobOK, requests, durable
  <2>3. ArchiveIds \subseteq used' /\ Ordered'
    BY <1>0, <1>e DEF Ordered
  <2> QED BY <1>0, <1>e, <2>1, <2>2, <2>3 DEF ServiceInv, ArchiveIds, requests
<1>9. ASSUME NEW v \in Settings, SetProjectRoutes(v) \/ SetProjectMetadata(v) PROVE ServiceInv'
  <2>1. /\ projectRoutes' \in {projectRoutes, v} /\ projectMetadata' \in {projectMetadata, v} /\ persistQueued' = TRUE
        /\ spent' = [spent EXCEPT !.settings = @ + 1]
        /\ UNCHANGED <<revisions, activePointers, lastTimestamp, writing, durable, requests, clock, history>>
    BY <1>9 DEF SetProjectRoutes, SetProjectMetadata, SchedulePersist
  <2>2. /\ spent' \in Spent /\ spent'.deletes = spent.deletes /\ spent'.rollbacks = spent.rollbacks
        /\ spent'.restores = spent.restores /\ spent'.restarts = spent.restarts
    BY <1>0, <2>1 DEF Spent
  <2>3. TypeOK'
    BY <1>0, <2>1, <2>2 DEF TypeOK, durable, requests, history
  <2> QED BY <1>e, <2>1, <2>2, <2>3 DEF history
<1>10. CASE DeleteProject
  <2>1. /\ revisions' = NoRevisions /\ activePointers' = NoPointers /\ projectRoutes' = None /\ projectMetadata' = None
        /\ persistQueued' = TRUE /\ spent' = [spent EXCEPT !.deletes = @ + 1]
        /\ UNCHANGED <<lastTimestamp, writing, durable, requests, clock, used, lastWriteFailed>>
    BY <1>10 DEF DeleteProject, SchedulePersist
  <2>2. /\ spent' \in Spent /\ spent'.deletes = spent.deletes + 1 /\ spent'.rollbacks = spent.rollbacks
        /\ spent'.restores = spent.restores /\ spent'.restarts = spent.restarts
    BY <1>0, <2>1 DEF Spent
  <2>3. ImageInv(revisions, activePointers, used, objects, spent)'
    BY <2>1, EmptyImage
  <2>4. /\ writing' # None => ImageInv(writing.revisions, writing.activePointers, used, objects, spent)'
        /\ disk' # None => ImageInv(disk.revisions, disk.activePointers, used, objects, spent)'
    BY <1>a, <1>b, <2>1, <2>2 DEF durable
  <2>5. TypeOK'
    BY <1>0, <2>1, <2>2, <2>3 DEF TypeOK, ImageInv, durable, requests
  <2>a. \A f \in Functions, i \in Ids : revisions'[f][i] = Absent /\ activePointers'[f] = None /\ Absent.state = "absent"
    BY <2>1 DEF NoRevisions, NoPointers, Absent
  <2>6. \A r \in Rollers : FlipOK(flips[r])'
    <3> SUFFICES ASSUME NEW r \in Rollers, flips[r] # None PROVE FlipOK(flips[r])'
      BY <2>1 DEF FlipOK, requests
    <3>1. flips[r].fn \in Functions /\ flips[r].id \in Ids /\ FlipOK(flips[r])
      BY <1>0 DEF TypeOK, Flip
    <3>2. revisions'[flips[r].fn][flips[r].id].state = "absent" /\ spent'.deletes # 0
      BY <1>b, <2>2, <2>a, <3>1
    <3> QED BY <2>1, <2>2, <3>1, <3>2 DEF FlipOK, requests
  <2>7. \A d \in Deployers : JobOK(jobs[d])'
    <3> SUFFICES ASSUME NEW d \in Deployers, jobs[d].pc # "idle" PROVE JobOK(jobs[d])'
      BY <2>1 DEF JobOK, requests
    <3>1. jobs[d].id \in Ids /\ jobs[d].id # None
      BY <1>0, DeploymentConstants DEF JobOK
    <3> QED BY <1>0, <2>1, <2>a, <3>1 DEF JobOK, requests, durable
  <2>8. ArchiveIds \subseteq used' /\ Ordered'
    BY <1>0, <2>1, <2>2 DEF Ordered
  <2> QED BY <1>0, <2>1, <2>3, <2>4, <2>5, <2>6, <2>7, <2>8 DEF ServiceInv, ArchiveIds, requests
<1>11. CASE Persist
  <2>1. /\ UNCHANGED <<revisions, activePointers, projectRoutes, projectMetadata, lastTimestamp, objects, requests, clock, used, spent>>
        /\ persistQueued' \in BOOLEAN /\ lastWriteFailed' \in BOOLEAN
    BY <1>0, <1>11 DEF Persist, PersistStart, PersistDone, PersistError, TypeOK, durable, history, state
  <2>2. /\ writing' \in Images \cup {None} /\ disk' \in Images \cup {None}
        /\ writing' # None => ImageInv(writing'.revisions, writing'.activePointers, used, objects, spent)
        /\ disk' # None => ImageInv(disk'.revisions, disk'.activePointers, used, objects, spent)
    <3>1. CASE PersistStart
      <4>1. writing' = Image /\ disk' = disk
        BY <3>1 DEF PersistStart, durable
      <4>2. Image \in Images /\ Image.revisions = revisions /\ Image.activePointers = activePointers
        BY <1>0 DEF Image, Images, TypeOK
      <4> QED BY <1>0, <4>1, <4>2 DEF TypeOK
    <3>2. CASE PersistDone \/ PersistError
      BY <1>0, <3>2 DEF PersistDone, PersistError, TypeOK, durable
    <3> QED BY <1>11, <3>1, <3>2 DEF Persist
  <2>3. TypeOK'
    BY <1>0, <2>1, <2>2 DEF TypeOK, requests
  <2>4. (\A r \in Rollers : FlipOK(flips[r])') /\ \A d \in Deployers : JobOK(jobs[d])'
    BY <1>0, <2>1 DEF FlipOK, JobOK, requests
  <2>5. ArchiveIds \subseteq used' /\ Ordered'
    BY <1>0, <2>1 DEF Ordered
  <2>6. /\ ImageInv(revisions, activePointers, used, objects, spent)'
        /\ writing' # None => ImageInv(writing.revisions, writing.activePointers, used, objects, spent)'
        /\ disk' # None => ImageInv(disk.revisions, disk.activePointers, used, objects, spent)'
    BY <1>0, <2>1, <2>2
  <2> QED BY <1>0, <2>1, <2>3, <2>4, <2>5, <2>6 DEF ServiceInv, ArchiveIds, requests
<1>12. CASE Restart
  <2>1. /\ revisions' = IF disk = None THEN NoRevisions ELSE disk.revisions
        /\ activePointers' = IF disk = None THEN NoPointers ELSE disk.activePointers
        /\ projectRoutes' = IF disk = None THEN None ELSE disk.routes
        /\ projectMetadata' = IF disk = None THEN None ELSE disk.metadata
        /\ lastTimestamp' = 0 /\ persistQueued' = FALSE /\ writing' = None /\ lastWriteFailed' = FALSE
        /\ jobs' = [d \in Deployers |-> NoJob] /\ flips' = [r \in Rollers |-> None]
        /\ spent' = [spent EXCEPT !.restarts = @ + 1] /\ UNCHANGED <<disk, objects, clock, used>>
    BY <1>12 DEF Restart, durable
  <2>2. /\ spent' \in Spent /\ spent'.deletes = spent.deletes /\ spent'.rollbacks = spent.rollbacks
        /\ spent'.restores = spent.restores /\ spent'.restarts # 0
    BY <1>0, <2>1 DEF Spent
  <2>3. ImageInv(revisions', activePointers', used, objects, spent')
    <3>1. CASE disk = None
      BY <2>1, <3>1, EmptyImage
    <3>2. CASE disk # None
      BY <1>a, <1>b, <2>1, <2>2, <3>2
    <3> QED BY <3>1, <3>2
  <2>4. disk' # None => ImageInv(disk.revisions, disk.activePointers, used, objects, spent)'
    BY <1>a, <1>b, <2>1, <2>2
  <2>5. NoJob \in Job /\ NoJob.pc = "idle" /\ None \in Flip
    BY DEF NoJob, Job, Flip
  <2>6. /\ jobs' \in [Deployers -> Job] /\ (\A d \in Deployers : jobs'[d].pc = "idle")
        /\ flips' \in [Rollers -> Flip] /\ (\A r \in Rollers : flips'[r] = None)
    BY <2>1, <2>5
  <2>7. projectRoutes' \in Settings \cup {None} /\ projectMetadata' \in Settings \cup {None}
    BY <1>0, <2>1 DEF TypeOK, Images
  <2>8. lastTimestamp' \in 0..MaxTime
    BY <2>1, DeploymentConstants
  <2>9. TypeOK'
    BY <1>0, <2>1, <2>2, <2>3, <2>6, <2>7, <2>8 DEF TypeOK, ImageInv
  <2>10. ArchiveIds \subseteq used' /\ Ordered'
    BY <1>0, <2>1, <2>2 DEF Ordered
  <2> QED BY <2>1, <2>3, <2>4, <2>6, <2>9, <2>10 DEF ServiceInv, ArchiveIds, JobOK, FlipOK
<1>13. ASSUME NEW t \in Ids, ClockMoves(t) PROVE ServiceInv'
  <2>1. /\ clock' = t
        /\ UNCHANGED <<state, lastTimestamp, persistQueued, writing, durable, requests, history, spent>>
    BY <1>13 DEF ClockMoves
  <2>2. TypeOK'
    BY <1>0, <2>1 DEF TypeOK, state, durable, requests, history
  <2> QED BY <1>0, <1>e, <2>1, <2>2 DEF state, history
<1>14. CASE UNCHANGED vars
  <2>1. TypeOK'
    BY <1>0, <1>14 DEF TypeOK, vars, state, durable, requests, history
  <2> QED BY <1>0, <1>e, <1>14, <2>1 DEF vars, state, history
<1> QED
  BY <1>1, <1>2, <1>3, <1>4, <1>5, <1>6, <1>7, <1>8, <1>9, <1>10, <1>11, <1>12, <1>13, <1>14
  DEF Next, DeployStep, RollbackStep

\* What serves: whatever deploys, rollbacks, restores, deletes, writes and restarts
\* interleave, the pointer names a healthy revision with its artifact, the newest where
\* nobody chose another, and so does the state file; ids follow creation.
THEOREM ServesHealthyRevisions ==
  Spec => [](TypeOK /\ ActiveServable /\ FailedNeverActive /\ NewestServes) /\ [][CreationOrder]_vars
<1>1. ServiceInv => TypeOK /\ ActiveServable /\ FailedNeverActive /\ NewestServes
  <2> SUFFICES ASSUME ServiceInv PROVE TypeOK /\ ActiveServable /\ FailedNeverActive /\ NewestServes
    OBVIOUS
  <2>1. ASSUME NEW revs, NEW ptrs, ImageInv(revs, ptrs, used, objects, spent), spent.deletes = 0 \/ spent.rollbacks = 0
        PROVE  Servable(revs, ptrs)
    <3> SUFFICES ASSUME NEW f \in Functions, ptrs[f] # None
                 PROVE  revs[f][ptrs[f]].state = "Deployed" /\ revs[f][ptrs[f]].artifact \in objects
      BY DEF Servable
    <3>1. ptrs[f] \in Ids /\ revs[f][ptrs[f]].state = "Deployed"
      BY <2>1 DEF ImageInv, Pointers, Pointing
    <3>2. revs[f][ptrs[f]] # Absent
      BY <3>1 DEF Absent
    <3> QED BY <2>1, <3>1, <3>2 DEF ImageInv, Recorded
  <2>2. ActiveServable
    BY <2>1 DEF ServiceInv, ActiveServable, PointersExist
  <2>3. FailedNeverActive
    BY DEF ServiceInv, FailedNeverActive, ImageInv, Pointing
  <2>4. TypeOK /\ NewestServes
    BY DEF ServiceInv, NewestServes, ImageInv, Newest
  <2> QED BY <2>2, <2>3, <2>4
<1>2. ServiceInv /\ [Next]_vars => [CreationOrder]_vars
  <2> SUFFICES ASSUME ServiceInv, Next, spent.restarts = 0, NEW i \in used' \ used, NEW j \in used \ {a.id : a \in Archive}
               PROVE  j < i
    BY DEF CreationOrder
  <2>1. CASE used' = used
    BY <2>1
  <2>2. CASE \E d \in Deployers, f \in Functions, art \in Artifacts : DeployBegin(d, f, art)
    <3>1. i = NextTimestamp
      BY <2>2 DEF DeployBegin
    <3>2. j \in Int /\ j <= lastTimestamp /\ lastTimestamp \in Int /\ clock \in Int
      BY DEF ServiceInv, Ordered, ArchiveIds, TypeOK, Ids
    <3> QED BY <3>1, <3>2 DEF NextTimestamp
  <2> QED
    BY <2>1, <2>2 DEF Next, DeployStep, RollbackStep, Persist, DeployStored, DeployStoreError, DeployHealthy,
       DeployUnhealthy, RollbackCheck, RollbackFlip, Restore, SetProjectRoutes, SetProjectMetadata, DeleteProject,
       PersistStart, PersistDone, PersistError, Restart, ClockMoves, history
<1> QED BY <1>1, <1>2, InitService, StepService, PTL DEF Spec

\* A write in progress that nothing has overtaken carries what memory holds.
DurableInv == (~persistQueued /\ writing # None => writing = Image) /\ DurableWhenQuiet

\* Every operation but the restore of a revision that does not serve schedules a write.
AllServe == \A a \in Archive : a.active

LEMMA InitDurable == Init => DurableInv
BY DEF Init, DurableInv, DurableWhenQuiet, Durable, state

LEMMA StepDurable == AllServe => (TypeOK /\ DurableInv /\ [Next]_vars => DurableInv')
<1> SUFFICES ASSUME AllServe, TypeOK, DurableInv, [Next]_vars PROVE DurableInv'
  OBVIOUS
<1>1. CASE persistQueued'
  BY <1>1 DEF DurableInv, DurableWhenQuiet
<1>2. CASE UNCHANGED <<state, persistQueued, writing, disk, lastWriteFailed>>
  BY <1>2 DEF DurableInv, DurableWhenQuiet, Durable, Image, state
<1>3. CASE PersistStart
  <2>1. writing' = Image /\ Image' = Image
    BY <1>3 DEF PersistStart, Image, state
  <2>2. Image \in Images
    BY DEF Image, Images, TypeOK
  <2> QED BY <2>1, <2>2, NoneIsNoImage DEF DurableInv, DurableWhenQuiet
<1>4. CASE PersistDone
  <2>1. /\ writing # None /\ disk' = writing /\ writing' = None /\ persistQueued' = persistQueued
        /\ Image' = Image
    BY <1>4 DEF PersistDone, Image, state
  <2> QED BY <2>1 DEF DurableInv, DurableWhenQuiet, Durable
<1>5. CASE PersistError
  BY <1>5 DEF PersistError, DurableInv, DurableWhenQuiet
<1>6. CASE Restart
  <2>1. writing' = None /\ disk' = disk
    BY <1>6 DEF Restart, durable
  <2>2. CASE disk = None
    BY <1>6, <2>1, <2>2 DEF Restart, DurableInv, DurableWhenQuiet, Durable, state
  <2>3. CASE disk # None
    <3>1. disk = [revisions |-> disk.revisions, activePointers |-> disk.activePointers,
                  routes |-> disk.routes, metadata |-> disk.metadata]
      BY <2>3 DEF TypeOK, Images
    <3>2. Image' = disk
      BY <1>6, <2>3, <3>1 DEF Restart, Image
    <3> QED BY <2>1, <3>2 DEF DurableInv, DurableWhenQuiet, Durable
  <2> QED BY <2>2, <2>3
<1> QED
  BY <1>1, <1>2, <1>3, <1>4, <1>5, <1>6
  DEF Next, DeployStep, RollbackStep, Persist, DeployBegin, DeployStored, DeployStoreError, DeployHealthy,
      DeployUnhealthy, RollbackCheck, RollbackFlip, Restore, SetProjectRoutes, SetProjectMetadata, DeleteProject,
      ClockMoves, SchedulePersist, AllServe, history, durable, vars

\* All that the service promises, the state file included: once its writes have
\* ended, and the last one did not fail, the file holds every change.  An archived
\* revision that does not serve is the exception: its restore schedules no write.
THEOREM DeploymentIsSafe == ASSUME AllServe PROVE Spec => DeploymentSafe
<1>1. TypeOK /\ DurableInv /\ [Next]_vars => DurableInv'
  BY AllServe, StepDurable
<1>2. DurableInv => DurableWhenQuiet
  BY DEF DurableInv
<1> QED BY <1>1, <1>2, InitDurable, ServesHealthyRevisions, PTL DEF Spec, DeploymentSafe

----------------------------------------------------------------------------
(* Snapshot distribution: the inductive invariant.                          *)

\* A build that nothing has disturbed has read what is active; no build has read
\* a revision of a function that serves nothing; an answer is fresh.
HandlerOK(h, act, set, deletes) ==
  /\ h.pc = "reading" /\ h.undisturbed => \A f \in SnapFunctions \ h.todo : h.got[f] = act[f]
  /\ h.pc = "reading" /\ deletes = 0 => \A f \in SnapFunctions : h.got[f] # NoSnapshot => act[f] # NoSnapshot
  /\ h.pc = "answered" /\ h.undisturbed /\ deletes = 0 => h.answer.functions = act
  /\ h.pc = "answered" /\ h.undisturbed /\ deletes = 0 /\ act # Empty => h.answer.settings = set

\* The fingerprint is the one of the cached snapshot, or the mark for "dirty", and
\* while it is not, the snapshot has the settings declared last.
CacheInv ==
  /\ snapshot = NoSnapshot => fingerprint = Empty
  /\ fingerprint # Empty => snapshot.functions = fingerprint
  /\ snapSpent.deletes = 0 /\ fingerprint # Empty => snapshot.settings = settings
  /\ snapSpent.deletes = 0 /\ snapshot # NoSnapshot =>
       \A f \in SnapFunctions : snapshot.functions[f] # NoSnapshot => active[f] # NoSnapshot
  /\ \A f \in SnapFunctions \ known : active[f] = NoSnapshot

SnapInv ==
  /\ SnapTypeOK /\ CacheInv
  /\ \A r \in Handlers : HandlerOK(handlers[r], active, settings, snapSpent.deletes)

SnapSpentType == [changes : 0..MaxChanges, deletes : 0..MaxDrops, restarts : 0..MaxSnapRestarts]

LEMMA EmptyType == Empty \in SnapPointers /\ \A f \in SnapFunctions : Empty[f] = NoSnapshot
BY DEF Empty, SnapPointers

LEMMA IdleType == Idle \in Handler /\ Idle.pc = "idle"
BY EmptyType DEF Idle, At, Handler

LEMMA InitSnap == SnapInit => SnapInv
<1> SUFFICES ASSUME SnapInit PROVE SnapInv
  OBVIOUS
<1>1. SnapTypeOK
  BY EmptyType, IdleType, DistributionConstants DEF SnapInit, SnapTypeOK
<1>2. CacheInv
  BY EmptyType DEF SnapInit, CacheInv
<1>3. \A r \in Handlers : handlers[r].pc = "idle"
  BY IdleType DEF SnapInit
<1> QED BY <1>1, <1>2, <1>3 DEF SnapInv, HandlerOK

\* An answer is of the snapshot that the cache holds then.
LEMMA AnswerKeeps ==
  ASSUME SnapInv, NEW r \in Handlers, NEW mark \in {fingerprint, Empty}, NEW got \in SnapPointers,
         NEW set \in SnapSettings \cup {NoSnapshot}, NEW hs \in [Handlers -> Handler],
         Answer(r, mark, got, set, hs), settings' = set, UNCHANGED <<known, active, snapSpent>>,
         hs[r].undisturbed => got = active,
         snapSpent.deletes = 0 => \A f \in SnapFunctions : got[f] # NoSnapshot => active[f] # NoSnapshot,
         set = settings \/ mark = Empty,
         \A q \in Handlers : q # r => HandlerOK(hs[q], active, set, snapSpent.deletes)
  PROVE  SnapInv'
<1> DEFINE new == Publication(mark, got, set)
<1>1. /\ new.version <= MaxVersion /\ snapshot' = new
      /\ fingerprint' = IF Outdated(mark, got) THEN got ELSE mark
      /\ handlers' = [hs EXCEPT ![r] = At("answered", {}, got, new, hs[r].undisturbed)]
  BY DEF Answer
<1>2. SnapTypeOK /\ CacheInv
  BY DEF SnapInv
<1>3. /\ new \in Snapshots /\ fingerprint' \in SnapPointers
      /\ fingerprint' # Empty => new.functions = fingerprint'
      /\ snapSpent.deletes = 0 /\ fingerprint' # Empty => new.settings = set
      /\ snapSpent.deletes = 0 => \A f \in SnapFunctions : new.functions[f] # NoSnapshot => active[f] # NoSnapshot
      /\ got = active /\ snapSpent.deletes = 0 => new.functions = active
      /\ got = active /\ snapSpent.deletes = 0 /\ active # Empty => new.settings = set
  <2>1. CASE Outdated(mark, got)
    <3>1. new = [version |-> NextVersion, functions |-> got, settings |-> set] /\ fingerprint' = got
      BY <1>1, <2>1 DEF Publication
    <3>2. NextVersion \in 1..MaxVersion
      BY <1>1, <1>2, <3>1, DistributionConstants DEF NextVersion, SnapTypeOK, Snapshots
    <3>3. new \in Snapshots /\ new.functions = got /\ new.settings = set
      BY <3>1, <3>2 DEF Snapshots
    <3> QED BY <3>1, <3>3
  <2>2. CASE ~Outdated(mark, got)
    <3>1. new = snapshot /\ fingerprint' = mark /\ snapshot # NoSnapshot /\ mark = got
      BY <1>1, <2>2 DEF Publication, Outdated
    <3>2. snapshot \in Snapshots /\ snapshot.functions \in SnapPointers /\ fingerprint \in SnapPointers
      BY <1>2, <3>1 DEF SnapTypeOK, Snapshots
    <3>3. got = active /\ active = Empty /\ snapSpent.deletes = 0 => snapshot.functions = Empty
      <4> SUFFICES ASSUME active = Empty, snapSpent.deletes = 0 PROVE snapshot.functions = Empty
        OBVIOUS
      <4>1. \A f \in SnapFunctions : snapshot.functions[f] = NoSnapshot
        BY <1>2, <3>1, EmptyType DEF CacheInv
      <4> QED BY <3>2, <4>1, EmptyType DEF SnapPointers
    <3> HIDE DEF new
    <3>4. got # Empty => mark = fingerprint /\ set = settings /\ snapshot.functions = got
      BY <1>2, <3>1 DEF CacheInv
    <3>5. snapSpent.deletes = 0 /\ got # Empty => snapshot.settings = set
      BY <1>2, <3>1, <3>4 DEF CacheInv
    <3> QED BY <1>2, <3>1, <3>2, <3>3, <3>4, <3>5 DEF CacheInv
  <2> QED BY <2>1, <2>2
<1> HIDE DEF new
<1>4. new # NoSnapshot
  BY <1>3, NoSnapshotIsNone
<1>a. At("answered", {}, got, new, hs[r].undisturbed) \in Handler
  BY <1>3 DEF At, Handler
<1>5. /\ handlers' \in [Handlers -> Handler] /\ \A q \in Handlers : q # r => handlers'[q] = hs[q]
      /\ handlers'[r].pc = "answered" /\ handlers'[r].answer = new
      /\ handlers'[r].undisturbed = hs[r].undisturbed
  BY <1>1, <1>a DEF At
<1>6. SnapTypeOK'
  BY <1>1, <1>2, <1>3, <1>5 DEF SnapTypeOK
<1>7. CacheInv'
  BY <1>1, <1>2, <1>3, <1>4 DEF CacheInv
<1>8. handlers'[r].undisturbed => got = active
  BY <1>5, Zenon
<1>9. HandlerOK(handlers'[r], active, set, snapSpent.deletes)
  BY <1>3, <1>5, <1>8 DEF HandlerOK
<1>10. \A q \in Handlers : HandlerOK(handlers'[q], active', settings', snapSpent'.deletes)
  BY <1>5, <1>9
<1> QED BY <1>6, <1>7, <1>10 DEF SnapInv

\* The head of getProjectSnapshot.
LEMMA StartBuildKeeps ==
  ASSUME SnapInv, NEW r \in Handlers, NEW mark \in {fingerprint, Empty},
         NEW set \in SnapSettings \cup {NoSnapshot}, NEW hs \in [Handlers -> Handler],
         StartBuild(r, mark, set, hs), settings' = set, UNCHANGED <<known, active, snapSpent>>,
         set = settings \/ mark = Empty,
         \A q \in Handlers : q # r => HandlerOK(hs[q], active, set, snapSpent.deletes)
  PROVE  SnapInv'
<1> DEFINE fresh == [hs EXCEPT ![r].undisturbed = TRUE]
<1>1. /\ fresh \in [Handlers -> Handler] /\ fresh[r].undisturbed
      /\ \A q \in Handlers : q # r => fresh[q] = hs[q]
  BY DEF Handler
<1>2. SnapTypeOK /\ CacheInv /\ known \subseteq SnapFunctions /\ active \in SnapPointers /\ fingerprint \in SnapPointers
  BY DEF SnapInv, SnapTypeOK
<1>3. CASE known = {} /\ Answer(r, mark, Empty, set, fresh)
  <2>1. active = Empty
    BY <1>2, <1>3, EmptyType DEF CacheInv, SnapPointers
  <2> HIDE DEF fresh
  <2> QED BY <1>1, <1>3, <2>1, EmptyType, AnswerKeeps
<1>4. CASE /\ known # {} /\ fingerprint' = mark /\ snapshot' = snapshot
           /\ handlers' = [fresh EXCEPT ![r] = At("reading", known \ {Min(known)},
                              [Empty EXCEPT ![Min(known)] = active[Min(known)]], @.answer, @.undisturbed)]
  <2> DEFINE m == Min(known)
             got == [Empty EXCEPT ![m] = active[m]]
  <2>1. /\ got \in SnapPointers /\ known \ {m} \in SUBSET SnapFunctions
        /\ \A f \in SnapFunctions : got[f] = IF f = m THEN active[f] ELSE NoSnapshot
    BY <1>2, EmptyType DEF SnapPointers
  <2> HIDE DEF m, fresh
  <2>2. handlers' = [fresh EXCEPT ![r] = At("reading", known \ {m}, got, fresh[r].answer, fresh[r].undisturbed)]
    BY <1>1, <1>4 DEF m
  <2> HIDE DEF got
  <2>a. At("reading", known \ {m}, got, fresh[r].answer, fresh[r].undisturbed) \in Handler
    BY <1>1, <2>1 DEF At, Handler
  <2>3. /\ handlers' \in [Handlers -> Handler] /\ \A q \in Handlers : q # r => handlers'[q] = hs[q]
        /\ handlers'[r].pc = "reading" /\ handlers'[r].todo = known \ {m} /\ handlers'[r].got = got
    BY <1>1, <2>2, <2>a DEF At
  <2>4. HandlerOK(handlers'[r], active, set, snapSpent.deletes)
    <3>1. \A f \in SnapFunctions \ (known \ {m}) : got[f] = active[f]
      BY <1>2, <2>1 DEF CacheInv
    <3>2. \A f \in SnapFunctions : got[f] # NoSnapshot => active[f] # NoSnapshot
      BY <2>1
    <3> QED BY <2>3, <3>1, <3>2 DEF HandlerOK
  <2>5. \A q \in Handlers : HandlerOK(handlers'[q], active', settings', snapSpent'.deletes)
    BY <2>3, <2>4
  <2>6. SnapTypeOK'
    BY <1>2, <1>4, <2>3, EmptyType DEF SnapTypeOK
  <2>7. CacheInv'
    BY <1>2, <1>4 DEF CacheInv
  <2> QED BY <2>5, <2>6, <2>7 DEF SnapInv
<1> QED BY <1>3, <1>4 DEF StartBuild

\* A change of the project disturbs every build.
LEMMA DisturbedType ==
  ASSUME SnapTypeOK
  PROVE  /\ Disturbed \in [Handlers -> Handler]
         /\ \A r \in Handlers : /\ Disturbed[r].pc = handlers[r].pc /\ ~Disturbed[r].undisturbed
                                /\ Disturbed[r].got = handlers[r].got
BY DEF SnapTypeOK, Disturbed, Handler

LEMMA StepSnap == SnapInv /\ [SnapNext]_snapVars => SnapInv'
<1> SUFFICES ASSUME SnapInv, [SnapNext]_snapVars PROVE SnapInv'
  OBVIOUS
<1>0. /\ SnapTypeOK /\ CacheInv /\ \A r \in Handlers : HandlerOK(handlers[r], active, settings, snapSpent.deletes)
      /\ known \subseteq SnapFunctions /\ active \in SnapPointers /\ settings \in SnapSettings \cup {NoSnapshot}
      /\ snapshot \in Snapshots \cup {NoSnapshot} /\ fingerprint \in SnapPointers
      /\ handlers \in [Handlers -> Handler] /\ snapSpent \in SnapSpentType /\ snapSpent.deletes \in Nat
  BY DistributionConstants DEF SnapInv, SnapTypeOK, SnapSpentType
<1>1. ASSUME NEW r \in Handlers, NEW f \in SnapFunctions, NEW act \in SnapPointers,
             \A g \in SnapFunctions : active[g] # NoSnapshot => act[g] # NoSnapshot,
             \A g \in SnapFunctions \ (known \cup {f}) : act[g] = active[g],
             snapSpent.changes < MaxChanges,
             known' = known \cup {f}, active' = act, handlers' = [Disturbed EXCEPT ![r].pc = "changed"],
             snapSpent' = [snapSpent EXCEPT !.changes = @ + 1], UNCHANGED <<settings, snapshot, fingerprint>>
      PROVE  SnapInv'
  <2>1. snapSpent' \in SnapSpentType /\ snapSpent'.deletes = snapSpent.deletes
    <3>1. snapSpent.changes + 1 \in 0..MaxChanges
      BY <1>0, <1>1, DistributionConstants DEF SnapSpentType
    <3> QED BY <1>0, <1>1, <3>1 DEF SnapSpentType
  <2>2. /\ handlers' \in [Handlers -> Handler] /\ \A q \in Handlers : q # r => handlers'[q] = Disturbed[q]
        /\ handlers'[r].pc = "changed"
    BY <1>0, <1>1, DisturbedType DEF Handler
  <2>3. SnapTypeOK'
    BY <1>0, <1>1, <2>1, <2>2 DEF SnapTypeOK, SnapSpentType
  <2>4. CacheInv'
    BY <1>0, <1>1, <2>1 DEF CacheInv
  <2>5. \A q \in Handlers : HandlerOK(handlers'[q], act, settings, snapSpent.deletes)
    <3> SUFFICES ASSUME NEW q \in Handlers, q # r PROVE HandlerOK(Disturbed[q], act, settings, snapSpent.deletes)
      BY <2>2 DEF HandlerOK
    <3> QED BY <1>0, <1>1, DisturbedType DEF HandlerOK
  <2> QED BY <1>1, <2>1, <2>3, <2>4, <2>5 DEF SnapInv
<1>2. ASSUME NEW r \in Handlers, NEW f \in SnapFunctions, NEW v \in SnapRevisions, Activate(r, f, v) PROVE SnapInv'
  <2> DEFINE act == [active EXCEPT ![f] = v]
  <2>1. /\ act \in SnapPointers /\ \A g \in SnapFunctions : active[g] # NoSnapshot => act[g] # NoSnapshot
        /\ \A g \in SnapFunctions \ (known \cup {f}) : act[g] = active[g]
    BY <1>0, DistributionConstants DEF SnapPointers
  <2> QED BY <1>1, <1>2, <2>1 DEF Activate
<1>3. ASSUME NEW r \in Handlers, NEW f \in SnapFunctions, Register(r, f) PROVE SnapInv'
  BY <1>0, <1>1, <1>3 DEF Register
<1>4. ASSUME NEW r \in Handlers, NEW s \in SnapSettings \cup {settings}, FinishChange(r, s) PROVE SnapInv'
  <2> DEFINE hs == IF s = settings THEN handlers ELSE Disturbed
             mark == IF snapshot = NoSnapshot THEN fingerprint ELSE Empty
  <2>1. /\ settings' = s /\ StartBuild(r, mark, s, hs) /\ UNCHANGED <<known, active, snapSpent>>
    BY <1>4 DEF FinishChange
  <2>2. s \in SnapSettings \cup {NoSnapshot} /\ hs \in [Handlers -> Handler] /\ mark = Empty
    BY <1>0, DisturbedType DEF CacheInv
  <2>3. \A q \in Handlers : q # r => HandlerOK(hs[q], active, s, snapSpent.deletes)
    <3>1. CASE s = settings
      BY <1>0, <3>1
    <3>2. CASE s # settings
      BY <1>0, <3>2, DisturbedType DEF HandlerOK
    <3> QED BY <3>1, <3>2
  <2> HIDE DEF hs, mark
  <2> QED BY <2>1, <2>2, <2>3, StartBuildKeeps
<1>5. ASSUME NEW r \in Handlers, Get(r) PROVE SnapInv'
  BY <1>0, <1>5, StartBuildKeeps DEF Get, project
<1>6. ASSUME NEW r \in Handlers, ReadNext(r) PROVE SnapInv'
  <2>1. PICK f : /\ handlers[r].pc = "reading"
                 /\ handlers' = [handlers EXCEPT ![r] = At(@.pc, @.todo \ {f}, [@.got EXCEPT ![f] = active[f]],
                                                           @.answer, @.undisturbed)]
                 /\ UNCHANGED <<project, snapshot, fingerprint, snapSpent>>
    BY <1>6 DEF ReadNext
  <2> DEFINE got == [handlers[r].got EXCEPT ![f] = active[f]]
             todo == handlers[r].todo \ {f}
  <2>2. /\ got \in SnapPointers /\ \A g \in SnapFunctions : got[g] = IF g = f THEN active[g] ELSE handlers[r].got[g]
        /\ todo \in SUBSET SnapFunctions
    BY <1>0 DEF Handler, SnapPointers
  <2>3. handlers' = [handlers EXCEPT ![r] = At("reading", todo, got, handlers[r].answer, handlers[r].undisturbed)]
    BY <1>0, <2>1
  <2> HIDE DEF got, todo
  <2>b. At("reading", todo, got, handlers[r].answer, handlers[r].undisturbed) \in Handler
    BY <1>0, <2>2 DEF At, Handler
  <2>4. /\ handlers' \in [Handlers -> Handler] /\ \A q \in Handlers : q # r => handlers'[q] = handlers[q]
        /\ handlers'[r].pc = "reading" /\ handlers'[r].todo = todo /\ handlers'[r].got = got
        /\ handlers'[r].undisturbed = handlers[r].undisturbed
    BY <1>0, <2>3, <2>b DEF At
  <2>a. handlers'[r].undisturbed => handlers[r].undisturbed
    BY <2>4, Zenon
  <2>5. HandlerOK(handlers'[r], active, settings, snapSpent.deletes)
    <3>1. handlers[r].undisturbed => \A g \in SnapFunctions \ todo : got[g] = active[g]
      BY <1>0, <2>1, <2>2 DEF HandlerOK, todo
    <3>2. snapSpent.deletes = 0 => \A g \in SnapFunctions : got[g] # NoSnapshot => active[g] # NoSnapshot
      BY <1>0, <2>1, <2>2 DEF HandlerOK
    <3> QED BY <2>4, <2>a, <3>1, <3>2 DEF HandlerOK
  <2>6. SnapTypeOK'
    BY <1>0, <2>1, <2>4 DEF SnapTypeOK, project
  <2>7. CacheInv'
    BY <1>0, <2>1 DEF CacheInv, project
  <2> QED BY <1>0, <2>1, <2>4, <2>5, <2>6, <2>7 DEF SnapInv, project
<1>7. ASSUME NEW r \in Handlers, FinishBuild(r) PROVE SnapInv'
  <2>1. /\ handlers[r].pc = "reading" /\ handlers[r].todo = {}
        /\ Answer(r, fingerprint, handlers[r].got, settings, handlers) /\ UNCHANGED <<project, snapSpent>>
    BY <1>7 DEF FinishBuild
  <2>2. handlers[r].got \in SnapPointers
    BY <1>0 DEF Handler
  <2>3. handlers[r].undisturbed => handlers[r].got = active
    BY <1>0, <2>1, <2>2 DEF HandlerOK, SnapPointers
  <2>4. snapSpent.deletes = 0 => \A f \in SnapFunctions : handlers[r].got[f] # NoSnapshot => active[f] # NoSnapshot
    BY <1>0, <2>1 DEF HandlerOK
  <2> QED BY <1>0, <2>1, <2>2, <2>3, <2>4, AnswerKeeps DEF project
<1>8. ASSUME NEW r \in Handlers, Sent(r) PROVE SnapInv'
  <2>1. handlers' = [handlers EXCEPT ![r] = Idle] /\ UNCHANGED <<project, snapshot, fingerprint, snapSpent>>
    BY <1>8 DEF Sent
  <2>2. /\ handlers' \in [Handlers -> Handler] /\ \A q \in Handlers : q # r => handlers'[q] = handlers[q]
        /\ handlers'[r].pc = "idle"
    BY <1>0, <2>1, IdleType
  <2>3. HandlerOK(handlers'[r], active, settings, snapSpent.deletes)
    BY <2>2 DEF HandlerOK
  <2>4. SnapTypeOK'
    BY <1>0, <2>1, <2>2 DEF SnapTypeOK, project
  <2>5. CacheInv'
    BY <1>0, <2>1 DEF CacheInv, project
  <2> QED BY <1>0, <2>1, <2>2, <2>3, <2>4, <2>5 DEF SnapInv, project
<1>9. CASE DropProject
  <2>1. /\ known' = {} /\ active' = Empty /\ settings' = NoSnapshot /\ handlers' = Disturbed
        /\ snapSpent.deletes < MaxDrops /\ snapSpent' = [snapSpent EXCEPT !.deletes = @ + 1]
        /\ UNCHANGED <<snapshot, fingerprint>>
    BY <1>9 DEF DropProject
  <2>2. snapSpent' \in SnapSpentType /\ snapSpent'.deletes # 0
    <3>1. snapSpent.deletes + 1 \in 0..MaxDrops /\ snapSpent.deletes + 1 # 0
      BY <1>0, <2>1, DistributionConstants DEF SnapSpentType
    <3> QED BY <1>0, <2>1, <3>1 DEF SnapSpentType
  <2>3. SnapTypeOK'
    BY <1>0, <2>1, <2>2, EmptyType, DisturbedType DEF SnapTypeOK, SnapSpentType
  <2>4. CacheInv'
    BY <1>0, <2>1, <2>2, EmptyType DEF CacheInv
  <2>5. \A q \in Handlers : HandlerOK(handlers'[q], active', settings', snapSpent'.deletes)
    BY <1>0, <2>1, <2>2, DisturbedType DEF HandlerOK
  <2> QED BY <2>3, <2>4, <2>5 DEF SnapInv
<1>10. CASE RestartControl
  <2>1. /\ snapshot' = NoSnapshot /\ fingerprint' = Empty /\ handlers' = [r \in Handlers |-> Idle]
        /\ snapSpent.restarts < MaxSnapRestarts /\ snapSpent' = [snapSpent EXCEPT !.restarts = @ + 1]
        /\ UNCHANGED project
    BY <1>10 DEF RestartControl
  <2>2. snapSpent' \in SnapSpentType /\ snapSpent'.deletes = snapSpent.deletes
    <3>1. snapSpent.restarts + 1 \in 0..MaxSnapRestarts
      BY <1>0, <2>1, DistributionConstants DEF SnapSpentType
    <3> QED BY <1>0, <2>1, <3>1 DEF SnapSpentType
  <2>3. SnapTypeOK'
    BY <1>0, <2>1, <2>2, EmptyType, IdleType DEF SnapTypeOK, SnapSpentType, project
  <2>4. CacheInv'
    BY <1>0, <2>1 DEF CacheInv, project
  <2>5. \A q \in Handlers : handlers'[q].pc = "idle"
    BY <2>1, IdleType
  <2> QED BY <2>3, <2>4, <2>5 DEF SnapInv, HandlerOK
<1>11. CASE UNCHANGED snapVars
  <2>1. SnapTypeOK' /\ CacheInv'
    BY <1>0, <1>11 DEF SnapTypeOK, CacheInv, snapVars, project
  <2> QED BY <1>0, <1>11, <2>1 DEF SnapInv, snapVars, project
<1> QED
  BY <1>2, <1>3, <1>4, <1>5, <1>6, <1>7, <1>8, <1>9, <1>10, <1>11 DEF SnapNext

\* However requests, deploys and restarts interleave, a build that no change disturbed is
\* answered with the revisions that are active and the routes declared last.
THEOREM SnapshotsAreFresh == SnapSpec => []SnapshotsFresh
<1>1. SnapInv => SnapshotsFresh
  BY DEF SnapInv, SnapshotsFresh, FreshFunctions, FreshSettings, Undisturbed, HandlerOK
<1> QED BY <1>1, InitSnap, StepSnap, PTL DEF SnapSpec

----------------------------------------------------------------------------
(* The refinement: what the endpoint publishes is a SnapshotSource.         *)

\* The published snapshot of the abstract specification.
Published == IF snapshot = NoSnapshot THEN NoSnapshot
             ELSE [version |-> snapshot.version,
                   content |-> [functions |-> snapshot.functions, settings |-> snapshot.settings]]

LEMMA PublicationStep ==
  ASSUME SnapTypeOK, NEW mark, NEW got \in SnapPointers, NEW set \in SnapSettings \cup {NoSnapshot},
         Publication(mark, got, set).version <= MaxVersion, snapshot' = Publication(mark, got, set)
  PROVE  Source!Next \/ Published' = Published
<1>1. CASE Outdated(mark, got)
  <2> DEFINE c == [functions |-> got, settings |-> set]
  <2>1. snapshot' = [version |-> NextVersion, functions |-> got, settings |-> set] /\ NextVersion <= MaxVersion
    BY <1>1 DEF Publication
  <2>2. NextVersion \in 1..MaxVersion
    BY <2>1, DistributionConstants DEF NextVersion, SnapTypeOK, Snapshots
  <2>3. snapshot' \in Snapshots
    BY <2>1, <2>2 DEF Snapshots
  <2>4. Published' = [version |-> NextVersion, content |-> c]
    BY <2>1, <2>3, NoSnapshotIsNone DEF Published
  <2>5. c \in Routings
    BY DEF Routings
  <2>6. snapshot # NoSnapshot => Published \in [version : 1..MaxVersion, content : Routings]
    BY DEF Published, SnapTypeOK, Snapshots, Routings
  <2>7. NextVersion = IF Published = NoSnapshot THEN 1 ELSE Published.version + 1
    BY <2>6, NoSnapshotIsNone DEF NextVersion, Published
  <2> QED BY <2>4, <2>5, <2>7 DEF Published, Source!Next, Source!Publish, Source!NextVersion
<1>2. CASE ~Outdated(mark, got)
  BY <1>2 DEF Publication, Published
<1> QED BY <1>1, <1>2

\* The ETag's promise, as a refinement: the snapshots that the endpoint publishes are those of
\* a SnapshotSource, whose versions count up by one and name one snapshot each until a restart.
THEOREM EndpointImplementsSource == SnapSpec => ImplementsSource
<1>1. SnapInit => Source!Init
  BY DEF SnapInit, Source!Init
<1>2. SnapInv /\ [SnapNext]_snapVars => [Source!Next]_Published
  <2> SUFFICES ASSUME SnapInv, [SnapNext]_snapVars PROVE Source!Next \/ Published' = Published
    OBVIOUS
  <2>0. SnapTypeOK /\ settings \in SnapSettings \cup {NoSnapshot} /\ \A r \in Handlers : handlers[r].got \in SnapPointers
    BY DEF SnapInv, SnapTypeOK, Handler
  <2>1. ASSUME NEW r, NEW mark, NEW got \in SnapPointers, NEW set \in SnapSettings \cup {NoSnapshot}, NEW hs,
               Answer(r, mark, got, set, hs)
        PROVE  Source!Next \/ Published' = Published
    BY <2>0, <2>1, PublicationStep DEF Answer
  <2>2. ASSUME NEW r, NEW mark, NEW set \in SnapSettings \cup {NoSnapshot}, NEW hs, StartBuild(r, mark, set, hs)
        PROVE  Source!Next \/ Published' = Published
    BY <2>1, <2>2, EmptyType DEF StartBuild, Published
  <2>3. ASSUME NEW r \in Handlers, NEW s \in SnapSettings \cup {settings}, FinishChange(r, s)
        PROVE  Source!Next \/ Published' = Published
    BY <2>0, <2>2, <2>3 DEF FinishChange
  <2>4. ASSUME NEW r \in Handlers, Get(r) PROVE Source!Next \/ Published' = Published
    BY <2>0, <2>2, <2>4 DEF Get
  <2>5. ASSUME NEW r \in Handlers, FinishBuild(r) PROVE Source!Next \/ Published' = Published
    BY <2>0, <2>1, <2>5 DEF FinishBuild
  <2>6. CASE RestartControl
    BY <2>6 DEF RestartControl, Source!Next, Source!Restart
  <2>7. CASE UNCHANGED snapshot
    BY <2>7 DEF Published
  <2> QED
    BY <2>3, <2>4, <2>5, <2>6, <2>7 DEF SnapNext, Activate, Register, ReadNext, Sent, DropProject, snapVars
<1> QED BY <1>1, <1>2, InitSnap, StepSnap, PTL DEF SnapSpec, ImplementsSource, Source!Spec, Published

----------------------------------------------------------------------------
(* The backup of a project: the inductive invariant.                        *)

\* A page of keys has a first one: what the list of the KV store returns next exists.
LEMMA LeastKey ==
  ASSUME NEW S \in SUBSET Nat, S # {}
  PROVE  \E j \in S : \A i \in S : j <= i
<1>1. PICK j \in S : \A i \in S : ~(<<i, j>> \in OpToRel(<, Nat))
  BY NatLessThanWellFounded, WFMin
<1>2. \A i \in S : ~(i < j)
  BY <1>1 DEF OpToRel
<1> QED BY <1>2

KvType == [BackupKeys -> KvContents \cup {Nothing}]
RevsType == [Revs -> RevArtifacts \cup {Nothing}]
ContentType == [revs : RevsType, active : Revs \cup {Nothing}, kv : KvType, obj : Small \cup Large \cup {Nothing}]
ArchiveType == [revs : RevsType, active : Revs \cup {Nothing}, kv : KvType,
                obj : [hash : Small \cup Large \cup {Nothing}, data : Small \cup {Nothing}], there : BOOLEAN]
ExporterType == [pc : {"idle", "kv", "objects"}, cursor : 0..NumKeys, found : ArchiveType, quiet : BOOLEAN]
ImporterType == [pc : Phases, overwrite : BOOLEAN, left : SUBSET BackupKeys,
                 outcome : {"none", "restored", "refused", "failed"}, changed : BOOLEAN,
                 existing : SUBSET BackupKeys, lost : BOOLEAN, quiet : BOOLEAN]

\* An export that nobody disturbed has read the project up to its cursor.
ExporterOK(x, c) ==
  x.pc # "idle" /\ x.quiet =>
    /\ x.found.revs = c.revs /\ x.found.active = c.active
    /\ \A k \in BackupKeys : x.found.kv[k] = IF k <= x.cursor THEN c.kv[k] ELSE Nothing
    /\ x.pc = "objects" => \A k \in BackupKeys : k > x.cursor => c.kv[k] = Nothing

\* Until its checks are over an import has changed nothing, and the keys it found are
\* still there; afterwards, unless it may overwrite, no key of the archive is among them.
ChecksOK(i, c, a) ==
  /\ i.pc \in {"cas", "revisionCheck", "kvCheck"} => ~i.changed /\ \A k \in i.existing : c.kv[k] # Nothing
  /\ i.pc = "kvCheck" /\ ~i.overwrite => \A k \in Keys(a) \ i.left : k \notin i.existing
  /\ i.pc \in {"revisions", "kv"} /\ ~i.overwrite => \A k \in Keys(a) : k \notin i.existing

\* An import that nobody disturbed has restored all but what is left.
RestoresOK(i, c, a) ==
  /\ i.pc = "kv" => i.left \subseteq Keys(a)
  /\ i.pc \in {"kv", "objects"} /\ i.quiet =>
       /\ a.active # Nothing => c.active = a.active
       /\ \A k \in Keys(a) : i.pc = "objects" \/ k \notin i.left => c.kv[k] = a.kv[k]

BackupInv ==
  /\ content \in ContentType /\ archive \in ArchiveType /\ exporter \in ExporterType /\ importer \in ImporterType
  /\ (content.active # Nothing => content.revs[content.active] # Nothing)
  /\ cas \subseteq Large /\ changes \in 0..MaxEvolutions
  /\ exporter.pc = "idle" \/ importer.pc = "idle"
  /\ importer.pc # "idle" => ValidArchive(archive) /\ importer.outcome = "none"
  /\ ExporterOK(exporter, content) /\ ChecksOK(importer, content, archive) /\ RestoresOK(importer, content, archive)
  /\ RefusedUntouched /\ KeepsExisting

LEMMA EmptyTypes ==
  /\ EmptyProject \in ContentType /\ EmptyProject.active = Nothing
  /\ EmptyArchive \in ArchiveType
  /\ NotExporting \in ExporterType /\ NotExporting.pc = "idle"
  /\ NotImporting \in ImporterType /\ NotImporting.pc = "idle" /\ NotImporting.outcome = "none"
  /\ ~NotImporting.lost /\ ~NotImporting.changed
<1>1. NoRevs \in RevsType /\ [k \in BackupKeys |-> Nothing] \in KvType
  BY DEF NoRevs, RevsType, KvType
<1>2. EmptyArchive \in ArchiveType
  BY <1>1 DEF EmptyArchive, ArchiveType, NoObject
<1>3. NotExporting \in ExporterType /\ NotExporting.pc = "idle"
  BY <1>2, BackupAssumption DEF NotExporting, ExporterType
<1> QED BY <1>1, <1>2, <1>3 DEF EmptyProject, ContentType, NotImporting, ImporterType, Phases

LEMMA InitBackup == BackupInit => BackupInv
BY EmptyTypes, BackupAssumption
DEF BackupInit, BackupInv, ExporterOK, ChecksOK, RestoresOK, RefusedUntouched, KeepsExisting

\* The fields of an importer after the next phase, and after an error.
LEMMA NextPhaseIs ==
  ASSUME NEW i \in ImporterType, i.pc \in {"cas", "revisionCheck", "kvCheck", "revisions", "kv"}
  PROVE  /\ NextPhase(i) \in ImporterType /\ NextPhase(i).pc = PhaseAfter(i.pc)
         /\ NextPhase(i).left = IF PhaseAfter(i.pc) = "kv" \/ (PhaseAfter(i.pc) = "kvCheck" /\ ~i.overwrite)
                                THEN Keys(archive) ELSE {}
         /\ NextPhase(i).overwrite = i.overwrite /\ NextPhase(i).outcome = i.outcome
         /\ NextPhase(i).changed = i.changed /\ NextPhase(i).existing = i.existing
         /\ NextPhase(i).lost = i.lost /\ NextPhase(i).quiet = i.quiet
<1>1. PhaseAfter(i.pc) \in Phases /\ Keys(archive) \subseteq BackupKeys
  BY DEF PhaseAfter, Phases, Keys
<1> QED BY <1>1 DEF NextPhase, ImporterType

LEMMA EndedIs ==
  ASSUME NEW i \in ImporterType, NEW outcome \in {"restored", "refused", "failed"}
  PROVE  /\ Ended(i, outcome) \in ImporterType /\ Ended(i, outcome).pc = "idle"
         /\ Ended(i, outcome).outcome = outcome /\ Ended(i, outcome).changed = i.changed
         /\ Ended(i, outcome).lost = i.lost
BY DEF Ended, ImporterType, Phases

\* A change made by others.
LEMMA DisturbKeeps ==
  ASSUME BackupInv, NEW touched \in SUBSET BackupKeys, Disturb(touched), content' \in ContentType,
         content'.active # Nothing => content'.revs[content'.active] # Nothing,
         \A k \in BackupKeys \ touched : content'.kv[k] = content.kv[k]
  PROVE  BackupInv'
<1>1. /\ changes < MaxEvolutions /\ changes' = changes + 1 /\ archive' = archive /\ cas' = cas
      /\ exporter' = [exporter EXCEPT !.quiet = (exporter.pc = "idle")]
      /\ importer' = [importer EXCEPT !.quiet = (importer.pc = "idle"), !.existing = importer.existing \ touched]
  BY DEF Disturb
<1>2. /\ exporter \in ExporterType /\ importer \in ImporterType /\ changes \in 0..MaxEvolutions
      /\ ChecksOK(importer, content, archive) /\ RestoresOK(importer, content, archive)
  BY DEF BackupInv
<1>3. changes' \in 0..MaxEvolutions
  BY <1>1, <1>2, BackupAssumption
<1>4. exporter' \in ExporterType /\ exporter'.pc = exporter.pc /\ exporter'.quiet = (exporter.pc = "idle")
  BY <1>1, <1>2 DEF ExporterType
<1>5. exporter'.pc # "idle" => ~exporter'.quiet
  BY <1>4, Zenon
<1>6. /\ importer' \in ImporterType /\ importer'.pc = importer.pc /\ importer'.overwrite = importer.overwrite
      /\ importer'.left = importer.left /\ importer'.outcome = importer.outcome /\ importer'.changed = importer.changed
      /\ importer'.existing = importer.existing \ touched /\ importer'.lost = importer.lost
      /\ importer'.quiet = (importer.pc = "idle")
  BY <1>1, <1>2 DEF ImporterType
<1>7. /\ importer'.pc # "idle" => ~importer'.quiet
      /\ importer'.changed <=> importer.changed
      /\ importer'.overwrite <=> importer.overwrite
      /\ importer'.lost <=> importer.lost
  BY <1>6, Zenon
<1>8. \A k \in importer'.existing : k \in importer.existing /\ content'.kv[k] = content.kv[k]
  BY <1>2, <1>6 DEF ImporterType
<1>9. ChecksOK(importer', content', archive') /\ RestoresOK(importer', content', archive')
  BY <1>1, <1>2, <1>6, <1>7, <1>8 DEF ChecksOK, RestoresOK
<1>10. ExporterOK(exporter', content')
  BY <1>5 DEF ExporterOK
<1>11. RefusedUntouched' /\ KeepsExisting'
  BY <1>6, <1>7 DEF BackupInv, RefusedUntouched, KeepsExisting
<1> QED BY <1>1, <1>3, <1>4, <1>6, <1>9, <1>10, <1>11 DEF BackupInv

\* An import ends without a change.
LEMMA StopKeeps ==
  ASSUME BackupInv, NEW outcome \in {"restored", "refused", "failed"}, importer.pc # "idle",
         importer' = Ended(importer, outcome), UNCHANGED <<content, cas, archive, exporter, changes>>,
         outcome = "refused" => importer.pc \in {"cas", "revisionCheck", "kvCheck"}
  PROVE  BackupInv'
<1>1. importer \in ImporterType /\ ChecksOK(importer, content, archive)
  BY DEF BackupInv
<1>2. /\ importer' \in ImporterType /\ importer'.pc = "idle" /\ importer'.outcome = outcome
      /\ importer'.changed = importer.changed /\ importer'.lost = importer.lost
  BY <1>1, EndedIs
<1>3. (importer'.changed <=> importer.changed) /\ (importer'.lost <=> importer.lost)
  BY <1>2, Zenon
<1>4. RefusedUntouched' /\ KeepsExisting'
  BY <1>1, <1>2, <1>3 DEF BackupInv, RefusedUntouched, KeepsExisting, ChecksOK
<1>5. ChecksOK(importer', content', archive') /\ RestoresOK(importer', content', archive')
  BY <1>2 DEF ChecksOK, RestoresOK
<1>6. ExporterOK(exporter', content')
  BY DEF BackupInv
<1> QED BY <1>2, <1>4, <1>5, <1>6 DEF BackupInv

\* The next phase of an import that has not changed anything.
LEMMA PhaseKeeps ==
  ASSUME BackupInv, importer' = NextPhase(importer), UNCHANGED <<content, cas, archive, exporter, changes>>,
         importer.pc \in {"cas", "revisionCheck", "kvCheck", "kv"},
         importer.pc \in {"kvCheck", "kv"} => importer.left = {}
  PROVE  BackupInv'
<1>1. /\ importer \in ImporterType /\ ChecksOK(importer, content, archive) /\ RestoresOK(importer, content, archive)
  BY DEF BackupInv
<1>2. /\ importer' \in ImporterType /\ importer'.pc = PhaseAfter(importer.pc)
      /\ importer'.left = IF PhaseAfter(importer.pc) = "kv" \/ (PhaseAfter(importer.pc) = "kvCheck" /\ ~importer.overwrite)
                          THEN Keys(archive) ELSE {}
      /\ importer'.overwrite = importer.overwrite /\ importer'.outcome = importer.outcome
      /\ importer'.changed = importer.changed /\ importer'.existing = importer.existing
      /\ importer'.lost = importer.lost /\ importer'.quiet = importer.quiet
  BY <1>1, NextPhaseIs
<1>3. /\ importer'.changed <=> importer.changed
      /\ importer'.overwrite <=> importer.overwrite
      /\ importer'.lost <=> importer.lost
      /\ importer'.quiet <=> importer.quiet
  BY <1>2, Zenon
<1>4. /\ PhaseAfter("cas") = "revisionCheck" /\ PhaseAfter("revisionCheck") = "kvCheck"
      /\ PhaseAfter("kvCheck") = "revisions" /\ PhaseAfter("kv") = "objects"
  BY DEF PhaseAfter
<1>5. ChecksOK(importer', content, archive)
  BY <1>1, <1>2, <1>3, <1>4 DEF ChecksOK
<1>6. RestoresOK(importer', content, archive)
  BY <1>1, <1>2, <1>3, <1>4 DEF RestoresOK
<1>7. RefusedUntouched' /\ KeepsExisting'
  BY <1>2, <1>3 DEF BackupInv, RefusedUntouched, KeepsExisting
<1>8. ExporterOK(exporter', content') /\ importer.pc # "idle" /\ importer'.pc # "idle"
  BY <1>2, <1>4 DEF BackupInv
<1> QED BY <1>2, <1>5, <1>6, <1>7, <1>8 DEF BackupInv

LEMMA StepBackup == BackupInv /\ [BackupNext]_backupVars => BackupInv'
<1> SUFFICES ASSUME BackupInv, [BackupNext]_backupVars PROVE BackupInv'
  OBVIOUS
<1>0. /\ content \in ContentType /\ archive \in ArchiveType /\ exporter \in ExporterType /\ importer \in ImporterType
      /\ (content.active # Nothing => content.revs[content.active] # Nothing)
      /\ cas \subseteq Large /\ changes \in 0..MaxEvolutions
      /\ exporter.pc = "idle" \/ importer.pc = "idle"
      /\ importer.pc # "idle" => ValidArchive(archive) /\ importer.outcome = "none"
      /\ ExporterOK(exporter, content) /\ ChecksOK(importer, content, archive) /\ RestoresOK(importer, content, archive)
      /\ RefusedUntouched /\ KeepsExisting
  BY DEF BackupInv
<1>a. /\ content.revs \in RevsType /\ content.active \in Revs \cup {Nothing} /\ content.kv \in KvType
      /\ archive.revs \in RevsType /\ archive.active \in Revs \cup {Nothing} /\ archive.kv \in KvType
      /\ archive.obj \in [hash : Small \cup Large \cup {Nothing}, data : Small \cup {Nothing}]
  BY <1>0 DEF ContentType, ArchiveType
<1>1. ASSUME NEW r \in Revs, NEW a \in RevArtifacts, DeployRevision(r, a) PROVE BackupInv'
  <2>1. content' = [content EXCEPT !.revs[r] = a, !.active = r] /\ Disturb({})
    BY <1>1 DEF DeployRevision
  <2>2. [content.revs EXCEPT ![r] = a] \in RevsType
    BY <1>a DEF RevsType
  <2>3. /\ content' \in ContentType /\ content'.active = r /\ content'.revs = [content.revs EXCEPT ![r] = a]
        /\ content'.kv = content.kv
    BY <1>0, <2>1, <2>2 DEF ContentType
  <2>4. content'.revs[r] # Nothing
    BY <1>a, <2>3, BackupAssumption DEF RevsType
  <2> QED BY <2>1, <2>3, <2>4, DisturbKeeps
<1>2. ASSUME NEW k \in BackupKeys, NEW v \in KvContents \cup {Nothing}, WriteKey(k, v) PROVE BackupInv'
  <2>1. content' = [content EXCEPT !.kv[k] = v] /\ Disturb({k})
    BY <1>2 DEF WriteKey
  <2>2. [content.kv EXCEPT ![k] = v] \in KvType
    BY <1>a DEF KvType
  <2>3. /\ content' \in ContentType /\ content'.active = content.active /\ content'.revs = content.revs
        /\ content'.kv = [content.kv EXCEPT ![k] = v]
    BY <1>0, <2>1, <2>2 DEF ContentType
  <2>4. \A j \in BackupKeys \ {k} : content'.kv[j] = content.kv[j]
    BY <1>a, <2>3 DEF KvType
  <2> QED BY <1>0, <2>1, <2>3, <2>4, DisturbKeeps
<1>3. ASSUME NEW v \in Small \cup Large \cup {Nothing}, WriteObject(v) PROVE BackupInv'
  <2>1. content' = [content EXCEPT !.obj = v] /\ Disturb({})
    BY <1>3 DEF WriteObject
  <2>2. /\ content' \in ContentType /\ content'.active = content.active /\ content'.revs = content.revs
        /\ content'.kv = content.kv
    BY <1>0, <2>1 DEF ContentType
  <2> QED BY <1>0, <2>1, <2>2, DisturbKeeps
<1>b. ASSUME exporter.pc = "idle", importer.pc = "idle", exporter' = exporter, importer' \in {importer, NotImporting},
             content' \in ContentType, content'.active # Nothing => content'.revs[content'.active] # Nothing,
             archive' \in ArchiveType, cas' \subseteq Large, changes' \in 0..MaxEvolutions
      PROVE  BackupInv'
  <2>1. RefusedUntouched' /\ KeepsExisting' /\ importer' \in ImporterType /\ importer'.pc = "idle"
    <3>1. CASE importer' = importer
      BY <1>0, <1>b, <3>1 DEF RefusedUntouched, KeepsExisting
    <3>2. CASE importer' = NotImporting
      BY <3>2, EmptyTypes DEF RefusedUntouched, KeepsExisting
    <3> QED BY <1>b, <3>1, <3>2
  <2>2. ExporterOK(exporter', content') /\ ChecksOK(importer', content', archive') /\ RestoresOK(importer', content', archive')
    BY <1>b, <2>1 DEF ExporterOK, ChecksOK, RestoresOK
  <2> QED BY <1>0, <1>b, <2>1, <2>2 DEF BackupInv
<1>4. CASE NewInstallation
  BY <1>0, <1>4, <1>b, EmptyTypes DEF NewInstallation
<1>5. CASE EditArchive
  <2>1. /\ importer.pc = "idle" /\ changes < MaxEvolutions /\ changes' = changes + 1
        /\ UNCHANGED <<content, cas, exporter, importer>>
    BY <1>5 DEF EditArchive
  <2>2. changes' \in 0..MaxEvolutions
    BY <1>0, <2>1, BackupAssumption
  <2>3. archive' \in ArchiveType
    <3>1. ASSUME NEW v \in Small, archive' = [archive EXCEPT !.obj.data = v] PROVE archive' \in ArchiveType
      <4>1. [archive.obj EXCEPT !.data = v] \in [hash : Small \cup Large \cup {Nothing}, data : Small \cup {Nothing}]
        BY <1>a
      <4> QED BY <1>0, <3>1, <4>1 DEF ArchiveType
    <3>2. ASSUME NEW r \in Revs, NEW a \in RevArtifacts, archive' = [archive EXCEPT !.revs[r] = a]
          PROVE  archive' \in ArchiveType
      <4>1. [archive.revs EXCEPT ![r] = a] \in RevsType
        BY <1>a DEF RevsType
      <4> QED BY <1>0, <3>2, <4>1 DEF ArchiveType
    <3> QED BY <1>5, <3>1, <3>2 DEF EditArchive
  <2>4. ChecksOK(importer', content', archive') /\ RestoresOK(importer', content', archive') /\ ExporterOK(exporter', content')
    BY <1>0, <2>1 DEF ChecksOK, RestoresOK
  <2>5. RefusedUntouched' /\ KeepsExisting'
    BY <1>0, <2>1 DEF RefusedUntouched, KeepsExisting
  <2> QED BY <1>0, <2>1, <2>2, <2>3, <2>4, <2>5 DEF BackupInv
<1>c. ASSUME importer.pc = "idle", UNCHANGED <<content, importer, changes>>, exporter' \in ExporterType,
             ExporterOK(exporter', content), archive' \in ArchiveType, cas' \subseteq Large
      PROVE  BackupInv'
  <2>1. ChecksOK(importer', content', archive') /\ RestoresOK(importer', content', archive')
    BY <1>c DEF ChecksOK, RestoresOK
  <2>2. RefusedUntouched' /\ KeepsExisting'
    BY <1>0, <1>c DEF RefusedUntouched, KeepsExisting
  <2> QED BY <1>0, <1>c, <2>1, <2>2 DEF BackupInv
<1>6. CASE ExportFunctions
  <2> DEFINE found == [revs |-> content.revs, active |-> content.active, kv |-> [k \in BackupKeys |-> Nothing],
                       obj |-> NoObject, there |-> TRUE]
  <2>1. /\ importer.pc = "idle" /\ exporter' = [NotExporting EXCEPT !.pc = "kv", !.found = found]
        /\ UNCHANGED <<content, cas, archive, importer, changes>>
    BY <1>6 DEF ExportFunctions
  <2>3. found \in ArchiveType
    BY <1>a DEF ArchiveType, NoObject, KvType
  <2>4. /\ found.revs = content.revs /\ found.active = content.active
        /\ \A k \in BackupKeys : found.kv[k] = Nothing
    OBVIOUS
  <2> HIDE DEF found
  <2>5. exporter' = [pc |-> "kv", cursor |-> 0, found |-> found, quiet |-> TRUE]
    BY <2>1 DEF NotExporting
  <2>6. exporter' \in ExporterType
    BY <2>3, <2>5, BackupAssumption DEF ExporterType
  <2>7. ExporterOK(exporter', content)
    <3>1. \A k \in BackupKeys : ~(k <= 0)
      BY DEF BackupKeys
    <3> QED BY <2>4, <2>5, <3>1 DEF ExporterOK
  <2> QED BY <1>0, <1>c, <2>1, <2>6, <2>7
<1>7. CASE ExportKeys
  <2> DEFINE page == PageAfter(exporter.cursor)
             k == CHOOSE j \in page : \A i \in page : j <= i
  <2>1. /\ exporter.pc = "kv" /\ importer.pc = "idle" /\ UNCHANGED <<content, cas, archive, importer, changes>>
        /\ exporter' = IF page = {} THEN [exporter EXCEPT !.pc = "objects"]
                       ELSE [exporter EXCEPT !.cursor = k, !.found = [exporter.found EXCEPT !.kv[k] = content.kv[k]]]
    BY <1>0, <1>7 DEF ExportKeys
  <2>2. exporter.cursor \in 0..NumKeys /\ exporter.found \in ArchiveType /\ exporter.found.kv \in KvType
    BY <1>0 DEF ExporterType, ArchiveType
  <2>3. CASE page = {}
    <3>1. exporter' = [exporter EXCEPT !.pc = "objects"]
      BY <2>1, <2>3
    <3>2. /\ exporter' \in ExporterType /\ exporter'.pc = "objects" /\ exporter'.cursor = exporter.cursor
          /\ exporter'.found = exporter.found /\ exporter'.quiet = exporter.quiet
      BY <1>0, <3>1 DEF ExporterType
    <3>3. exporter'.quiet => exporter.quiet
      BY <3>2, Zenon
    <3>4. \A j \in BackupKeys : j > exporter.cursor => content.kv[j] = Nothing
      BY <2>3 DEF PageAfter
    <3>5. ExporterOK(exporter', content)
      BY <1>0, <2>1, <3>2, <3>3, <3>4 DEF ExporterOK
    <3> QED BY <1>0, <1>c, <2>1, <3>2, <3>5
  <2>4. CASE page # {}
    <3>1. page \in SUBSET Nat
      BY BackupAssumption DEF PageAfter, BackupKeys
    <3>2. k \in page /\ \A i \in page : k <= i
      BY <2>4, <3>1, LeastKey
    <3>3. /\ k \in BackupKeys /\ k \in 1..NumKeys /\ k > exporter.cursor
          /\ \A j \in BackupKeys : j > exporter.cursor /\ content.kv[j] # Nothing => k <= j
      BY <3>2 DEF PageAfter, BackupKeys
    <3> HIDE DEF page, k
    <3> DEFINE kv == [exporter.found.kv EXCEPT ![k] = content.kv[k]]
               found == [exporter.found EXCEPT !.kv = kv]
    <3>4. kv \in KvType /\ \A j \in BackupKeys : kv[j] = IF j = k THEN content.kv[j] ELSE exporter.found.kv[j]
      BY <1>a, <2>2, <3>3 DEF KvType
    <3>5. exporter' = [exporter EXCEPT !.cursor = k, !.found = found]
      BY <2>1, <2>2, <2>4 DEF ArchiveType
    <3> HIDE DEF kv
    <3>6. found \in ArchiveType /\ found.revs = exporter.found.revs /\ found.active = exporter.found.active /\ found.kv = kv
      BY <2>2, <3>4 DEF ArchiveType
    <3> HIDE DEF found
    <3>7. k \in 0..NumKeys
      BY <3>3, BackupAssumption
    <3>8. /\ exporter' \in ExporterType /\ exporter'.pc = "kv" /\ exporter'.cursor = k
          /\ exporter'.found = found /\ exporter'.quiet = exporter.quiet
      BY <1>0, <2>1, <3>5, <3>6, <3>7 DEF ExporterType
    <3>9. exporter'.quiet => exporter.quiet
      BY <3>8, Zenon
    <3>10. exporter.quiet => \A j \in BackupKeys : kv[j] = IF j <= k THEN content.kv[j] ELSE Nothing
      <4> SUFFICES ASSUME exporter.quiet, NEW j \in BackupKeys PROVE kv[j] = IF j <= k THEN content.kv[j] ELSE Nothing
        OBVIOUS
      <4>1. exporter.found.kv[j] = IF j <= exporter.cursor THEN content.kv[j] ELSE Nothing
        BY <1>0, <2>1 DEF ExporterOK
      <4>2. j \in Nat /\ k \in Nat /\ exporter.cursor \in Nat
        BY <2>2, <3>7, BackupAssumption DEF BackupKeys
      <4> QED BY <3>3, <3>4, <4>1, <4>2
    <3>11. ExporterOK(exporter', content)
      BY <1>0, <2>1, <3>6, <3>8, <3>9, <3>10 DEF ExporterOK
    <3> QED BY <1>0, <1>c, <2>1, <3>8, <3>11
  <2> QED BY <2>3, <2>4
<1>8. CASE ExportObjects
  <2> DEFINE o == content.obj
  <2>1. /\ exporter.pc = "objects" /\ importer.pc = "idle" /\ cas' = cas \cup ({o} \cap Large)
        /\ archive' = [exporter.found EXCEPT !.obj = [hash |-> o, data |-> IF o \in Small THEN o ELSE Nothing]]
        /\ exporter' = NotExporting /\ UNCHANGED <<content, importer, changes>>
    BY <1>0, <1>8 DEF ExportObjects
  <2>2. o \in Small \cup Large \cup {Nothing} /\ exporter.found \in ArchiveType
    BY <1>0 DEF ContentType, ExporterType
  <2>3. archive' \in ArchiveType /\ cas' \subseteq Large
    BY <1>0, <2>1, <2>2 DEF ArchiveType
  <2>4. ExporterOK(exporter', content)
    BY <2>1, EmptyTypes DEF ExporterOK
  <2> QED BY <1>c, <2>1, <2>3, <2>4, EmptyTypes
<1>9. CASE ExportFails
  <2>1. ExporterOK(NotExporting, content)
    BY EmptyTypes DEF ExporterOK
  <2> QED BY <1>0, <1>9, <1>c, <2>1, EmptyTypes DEF ExportFails
<1>10. ASSUME NEW overwrite \in BOOLEAN, BeginImport(overwrite) PROVE BackupInv'
  <2> DEFINE existing == {k \in BackupKeys : content.kv[k] # Nothing}
  <2>1. /\ exporter.pc = "idle" /\ ValidArchive(archive) /\ UNCHANGED <<content, cas, archive, exporter, changes>>
        /\ importer' = [NotImporting EXCEPT !.pc = "cas", !.overwrite = overwrite, !.existing = existing]
    BY <1>10 DEF BeginImport
  <2>2. existing \in SUBSET BackupKeys /\ \A k \in existing : content.kv[k] # Nothing
    OBVIOUS
  <2> HIDE DEF existing
  <2>3. /\ importer' \in ImporterType /\ importer'.pc = "cas" /\ importer'.outcome = "none" /\ ~importer'.changed
        /\ ~importer'.lost /\ importer'.existing = existing
    BY <2>1, <2>2 DEF NotImporting, ImporterType, Phases
  <2>4. ChecksOK(importer', content, archive) /\ RestoresOK(importer', content, archive)
    BY <2>2, <2>3 DEF ChecksOK, RestoresOK
  <2>5. RefusedUntouched' /\ KeepsExisting'
    BY <2>3 DEF RefusedUntouched, KeepsExisting
  <2> QED BY <1>0, <2>1, <2>3, <2>4, <2>5 DEF BackupInv
<1>d. ASSUME importer.pc # "idle", importer' = Throws(importer), UNCHANGED <<content, cas, archive, exporter, changes>>
      PROVE  BackupInv'
  <2> DEFINE outcome == IF importer.pc \in {"cas", "revisionCheck", "kvCheck"} THEN "refused" ELSE "failed"
  <2>1. outcome \in {"restored", "refused", "failed"} /\ (outcome = "refused" => importer.pc \in {"cas", "revisionCheck", "kvCheck"})
    OBVIOUS
  <2>2. importer' = Ended(importer, outcome)
    BY <1>d DEF Throws
  <2> HIDE DEF outcome
  <2> QED BY <1>d, <2>1, <2>2, StopKeeps
<1>11. CASE CheckCas
  BY <1>11, <1>d, PhaseKeeps DEF CheckCas
<1>12. CASE CheckRevisions
  BY <1>12, <1>d, PhaseKeeps DEF CheckRevisions
<1>13. CASE CheckKey
  <2>1. importer.pc = "kvCheck" /\ UNCHANGED <<content, cas, archive, exporter, changes>>
    BY <1>13 DEF CheckKey
  <2>2. CASE importer.left = {} /\ importer' = NextPhase(importer)
    BY <2>1, <2>2, PhaseKeeps
  <2>3. CASE importer' = Throws(importer)
    BY <1>d, <2>1, <2>3
  <2>4. ASSUME NEW k \in importer.left, ~Occupied(k), importer' = [importer EXCEPT !.left = importer.left \ {k}]
        PROVE  BackupInv'
    <3>1. /\ importer' \in ImporterType /\ importer'.pc = "kvCheck" /\ importer'.left = importer.left \ {k}
          /\ importer'.outcome = importer.outcome /\ importer'.existing = importer.existing
          /\ importer'.changed = importer.changed /\ importer'.lost = importer.lost
          /\ importer'.overwrite = importer.overwrite
      BY <1>0, <2>1, <2>4 DEF ImporterType
    <3>2. /\ importer'.changed <=> importer.changed
          /\ importer'.overwrite <=> importer.overwrite
          /\ importer'.lost <=> importer.lost
      BY <3>1, Zenon
    <3>3. k \notin importer.existing
      BY <1>0, <2>1, <2>4 DEF ChecksOK, Occupied
    <3>4. ChecksOK(importer', content, archive) /\ RestoresOK(importer', content, archive)
      BY <1>0, <2>1, <3>1, <3>2, <3>3 DEF ChecksOK, RestoresOK
    <3>5. RefusedUntouched' /\ KeepsExisting'
      BY <1>0, <3>1, <3>2 DEF RefusedUntouched, KeepsExisting
    <3> QED BY <1>0, <2>1, <3>1, <3>4, <3>5 DEF BackupInv
  <2> QED BY <1>13, <2>2, <2>3, <2>4 DEF CheckKey
<1>14. CASE RestoreRevisions
  <2> DEFINE revs == [r \in Revs |-> IF content.revs[r] = Nothing THEN archive.revs[r] ELSE content.revs[r]]
             ptr == IF archive.active = Nothing THEN content.active ELSE archive.active
             next == NextPhase(importer)
             changed == importer.changed \/ content' # content
  <2>1. /\ importer.pc = "revisions" /\ content' = [content EXCEPT !.revs = revs, !.active = ptr]
        /\ importer' = [next EXCEPT !.changed = changed] /\ UNCHANGED <<cas, archive, exporter, changes>>
    BY <1>14, Zenon DEF RestoreRevisions
  <2>2. revs \in RevsType /\ ptr \in Revs \cup {Nothing}
    BY <1>a DEF RevsType
  <2>3. ptr # Nothing => revs[ptr] # Nothing
    <3>1. ValidFunctions(archive)
      BY <1>0, <2>1 DEF ValidArchive
    <3> QED BY <1>0, <1>a, <3>1 DEF ValidFunctions
  <2>4. archive.active # Nothing => ptr = archive.active
    OBVIOUS
  <2> HIDE DEF revs, ptr
  <2>5. content' \in ContentType /\ content'.revs = revs /\ content'.active = ptr /\ content'.kv = content.kv
    BY <1>0, <2>1, <2>2 DEF ContentType
  <2>6. /\ next \in ImporterType /\ next.pc = "kv" /\ next.left = Keys(archive) /\ next.overwrite = importer.overwrite
        /\ next.outcome = importer.outcome /\ next.existing = importer.existing /\ next.lost = importer.lost
    BY <1>0, <2>1, NextPhaseIs DEF PhaseAfter
  <2>7. changed \in BOOLEAN
    BY <1>0 DEF ImporterType
  <2> HIDE DEF next, changed
  <2>8. /\ importer' \in ImporterType /\ importer'.pc = "kv" /\ importer'.left = Keys(archive)
        /\ importer'.overwrite = importer.overwrite /\ importer'.outcome = importer.outcome
        /\ importer'.existing = importer.existing /\ importer'.lost = importer.lost
    BY <2>1, <2>6, <2>7 DEF ImporterType
  <2>9. (importer'.overwrite <=> importer.overwrite) /\ (importer'.lost <=> importer.lost)
    BY <2>8, Zenon
  <2>10. ChecksOK(importer', content', archive)
    BY <1>0, <2>1, <2>8, <2>9 DEF ChecksOK
  <2>11. RestoresOK(importer', content', archive)
    BY <2>4, <2>5, <2>8 DEF RestoresOK
  <2>12. RefusedUntouched' /\ KeepsExisting'
    BY <1>0, <2>1, <2>8, <2>9 DEF RefusedUntouched, KeepsExisting
  <2>13. exporter.pc = "idle" /\ ExporterOK(exporter, content')
    BY <1>0, <2>1 DEF ExporterOK
  <2> QED BY <1>0, <2>1, <2>3, <2>5, <2>8, <2>10, <2>11, <2>12, <2>13 DEF BackupInv
<1>15. CASE RestoreKey
  <2>1. importer.pc = "kv" /\ exporter.pc = "idle" /\ UNCHANGED <<cas, archive, exporter, changes>>
    BY <1>0, <1>15 DEF RestoreKey
  <2>2. CASE importer.left = {}
    BY <1>15, <2>1, <2>2, PhaseKeeps DEF RestoreKey
  <2>3. CASE importer.left # {}
    <3>1. PICK k \in importer.left :
            /\ content' = [content EXCEPT !.kv[k] = archive.kv[k]]
            /\ importer' = [importer EXCEPT !.left = importer.left \ {k}, !.changed = (importer.changed \/ content' # content),
                              !.lost = importer.lost \/ (~importer.overwrite /\ k \in importer.existing)]
      BY <1>15, <2>3 DEF RestoreKey
    <3>2. k \in BackupKeys /\ k \in Keys(archive)
      BY <1>0, <2>1 DEF ImporterType, RestoresOK
    <3>3. ~(~importer.overwrite /\ k \in importer.existing) /\ ~importer.lost
      BY <1>0, <2>1, <3>2 DEF ChecksOK, KeepsExisting
    <3> DEFINE changed == importer.changed \/ content' # content
               lost == importer.lost \/ (~importer.overwrite /\ k \in importer.existing)
               kv == [content.kv EXCEPT ![k] = archive.kv[k]]
    <3>4. importer' = [importer EXCEPT !.left = importer.left \ {k}, !.changed = changed, !.lost = lost]
      BY <3>1, Zenon
    <3>5. changed \in BOOLEAN /\ lost \in BOOLEAN /\ ~lost
      BY <1>0, <3>3 DEF ImporterType
    <3>6. kv \in KvType /\ \A j \in BackupKeys : kv[j] = IF j = k THEN archive.kv[k] ELSE content.kv[j]
      BY <1>a, <3>2 DEF KvType
    <3>7. content' = [content EXCEPT !.kv = kv]
      BY <3>1
    <3> HIDE DEF changed, lost, kv
    <3>8. content' \in ContentType /\ content'.revs = content.revs /\ content'.active = content.active /\ content'.kv = kv
      BY <1>0, <3>6, <3>7 DEF ContentType
    <3>9. /\ importer' \in ImporterType /\ importer'.pc = "kv" /\ importer'.left = importer.left \ {k}
          /\ importer'.outcome = importer.outcome /\ importer'.existing = importer.existing /\ importer'.lost = lost
          /\ importer'.overwrite = importer.overwrite /\ importer'.quiet = importer.quiet
      BY <1>0, <2>1, <3>4, <3>5 DEF ImporterType
    <3>10. /\ importer'.overwrite <=> importer.overwrite
           /\ importer'.quiet <=> importer.quiet
           /\ ~importer'.lost
      BY <3>5, <3>9, Zenon
    <3>11. ChecksOK(importer', content', archive)
      BY <1>0, <2>1, <3>9, <3>10 DEF ChecksOK
    <3>12. RestoresOK(importer', content', archive)
      <4>1. Keys(archive) \subseteq BackupKeys
        BY DEF Keys
      <4> QED BY <1>0, <2>1, <3>6, <3>8, <3>9, <3>10, <4>1 DEF RestoresOK
    <3>13. RefusedUntouched' /\ KeepsExisting'
      BY <1>0, <2>1, <3>9, <3>10 DEF RefusedUntouched, KeepsExisting
    <3>14. ExporterOK(exporter, content')
      BY <2>1 DEF ExporterOK
    <3> QED BY <1>0, <2>1, <3>8, <3>9, <3>11, <3>12, <3>13, <3>14 DEF BackupInv
  <2> QED BY <2>2, <2>3
<1>16. CASE RestoreObject
  <2>1. importer.pc = "objects" /\ exporter.pc = "idle" /\ UNCHANGED <<cas, archive, exporter, changes>>
    BY <1>0, <1>16 DEF RestoreObject
  <2>2. CASE /\ archive.obj.hash # Nothing /\ Verified(archive.obj)
             /\ content' = [content EXCEPT !.obj = Payload(archive.obj)]
             /\ importer' = [Ended(importer, "restored") EXCEPT !.changed = (importer.changed \/ content' # content)]
    <3> DEFINE changed == importer.changed \/ content' # content
               ended == Ended(importer, "restored")
    <3>1. importer' = [ended EXCEPT !.changed = changed]
      BY <2>2, Zenon
    <3>2. /\ ended \in ImporterType /\ ended.pc = "idle" /\ ended.outcome = "restored" /\ ended.lost = importer.lost
          /\ changed \in BOOLEAN
      BY <1>0, EndedIs DEF ImporterType
    <3> HIDE DEF changed, ended
    <3>3. importer' \in ImporterType /\ importer'.pc = "idle" /\ importer'.outcome = "restored" /\ importer'.lost = importer.lost
      BY <3>1, <3>2 DEF ImporterType
    <3>4. importer'.lost <=> importer.lost
      BY <3>3, Zenon
    <3>5. content' \in ContentType /\ content'.revs = content.revs /\ content'.active = content.active
      BY <1>0, <1>a, <2>2 DEF ContentType, Payload
    <3>6. ChecksOK(importer', content', archive) /\ RestoresOK(importer', content', archive) /\ ExporterOK(exporter, content')
      BY <2>1, <3>3 DEF ChecksOK, RestoresOK, ExporterOK
    <3>7. RefusedUntouched' /\ KeepsExisting'
      BY <1>0, <3>3, <3>4 DEF RefusedUntouched, KeepsExisting
    <3> QED BY <1>0, <2>1, <3>3, <3>5, <3>6, <3>7 DEF BackupInv
  <2>3. CASE importer' = Throws(importer) /\ UNCHANGED content
    BY <1>d, <2>1, <2>3
  <2>4. CASE importer' = Ended(importer, "restored") /\ UNCHANGED content
    BY <2>1, <2>4, StopKeeps
  <2> QED BY <1>16, <2>2, <2>3, <2>4 DEF RestoreObject
<1>17. CASE ImportFails
  BY <1>17, <1>d DEF ImportFails
<1>18. CASE UNCHANGED backupVars
  BY <1>0, <1>18 DEF backupVars, BackupInv, RefusedUntouched, KeepsExisting
<1> QED
  BY <1>1, <1>2, <1>3, <1>4, <1>5, <1>6, <1>7, <1>8, <1>9, <1>10, <1>11, <1>12, <1>13, <1>14, <1>15, <1>16, <1>17, <1>18
  DEF BackupNext

\* Whatever tenants write meanwhile: an export that none disturbed holds the whole project,
\* an import that succeeds undisturbed restores it, one that is refused changed nothing, and
\* without overwriteKv no value that was there when the import began is replaced.
THEOREM BackupsAreSafe == BackupSpec => BackupSafe
<1>1. BackupInv => BackupTypeOK /\ RefusedUntouched /\ KeepsExisting
  BY DEF BackupInv, BackupTypeOK, ContentType, RevsType, KvType, ExporterType, ImporterType
<1>2. BackupInv /\ [BackupNext]_backupVars => [ArchiveFaithful /\ ImportFaithful]_backupVars
  <2> SUFFICES ASSUME BackupInv PROVE ArchiveFaithful /\ ImportFaithful
    OBVIOUS
  <2>1. ArchiveFaithful
    <3> SUFFICES ASSUME ExportObjects, exporter.quiet
                 PROVE  [revs |-> archive'.revs, active |-> archive'.active, kv |-> archive'.kv, obj |-> archive'.obj.hash] = content
      BY DEF ArchiveFaithful
    <3>1. /\ exporter.pc = "objects" /\ exporter.found \in ArchiveType /\ content \in ContentType
          /\ content.kv \in KvType /\ exporter.found.kv \in KvType /\ exporter.cursor \in Nat
      BY BackupAssumption DEF ExportObjects, BackupInv, ExporterType, ArchiveType, ContentType
    <3>2. /\ exporter.found.revs = content.revs /\ exporter.found.active = content.active
          /\ \A k \in BackupKeys : exporter.found.kv[k] = IF k <= exporter.cursor THEN content.kv[k] ELSE Nothing
          /\ \A k \in BackupKeys : k > exporter.cursor => content.kv[k] = Nothing
      BY <3>1 DEF BackupInv, ExporterOK
    <3>3. \A k \in BackupKeys : exporter.found.kv[k] = content.kv[k]
      BY <3>1, <3>2 DEF BackupKeys
    <3>4. exporter.found.kv = content.kv
      BY <3>1, <3>3 DEF KvType
    <3>5. archive'.revs = exporter.found.revs /\ archive'.active = exporter.found.active /\ archive'.kv = exporter.found.kv
          /\ archive'.obj.hash = content.obj
      BY <3>1 DEF ExportObjects, ArchiveType
    <3> QED BY <3>1, <3>2, <3>4, <3>5 DEF ContentType
  <2>2. ImportFaithful
    <3> SUFFICES ASSUME RestoreObject, importer'.outcome = "restored", importer.quiet
                 PROVE  /\ \A k \in Keys(archive) : content'.kv[k] = archive.kv[k]
                        /\ (archive.active # Nothing => content'.active = archive.active)
                        /\ (archive.obj.hash # Nothing => content'.obj = archive.obj.hash)
      BY DEF ImportFaithful
    <3>1. importer.pc = "objects" /\ importer \in ImporterType /\ content \in ContentType
      BY DEF RestoreObject, BackupInv
    <3>2. /\ \A k \in Keys(archive) : content.kv[k] = archive.kv[k]
          /\ (archive.active # Nothing => content.active = archive.active)
      BY <3>1 DEF BackupInv, RestoresOK
    <3>3. CASE archive.obj.hash # Nothing /\ Verified(archive.obj) /\ content' = [content EXCEPT !.obj = Payload(archive.obj)]
      <4>1. Payload(archive.obj) = archive.obj.hash
        BY <3>3 DEF Verified, Payload
      <4>2. content'.kv = content.kv /\ content'.active = content.active /\ content'.obj = archive.obj.hash
        BY <3>1, <3>3, <4>1 DEF ContentType
      <4> QED BY <3>2, <4>2
    <3>4. CASE importer' = Throws(importer)
      <4>1. importer'.outcome = "failed"
        BY <3>1, <3>4, EndedIs DEF Throws
      <4> QED BY <4>1
    <3>5. CASE archive.obj.hash = Nothing /\ UNCHANGED content
      BY <3>2, <3>5
    <3> QED BY <3>3, <3>4, <3>5 DEF RestoreObject
  <2> QED BY <2>1, <2>2
<1> QED BY <1>1, <1>2, InitBackup, StepBackup, PTL DEF BackupSpec, BackupSafe

=============================================================================
