----------------------------- MODULE StoreProofs -----------------------------
(***************************************************************************)
(* Proofs about what is kept in files and in the key-value store: the      *)
(* fail-static snapshot caches, the secret store, the key-value providers  *)
(* and their paged lists, the SDK helpers that sit above a key-value       *)
(* binding, and the objects of the tenants, each with its own inductive    *)
(* invariant.                                                              *)
(***************************************************************************)
EXTENDS DiskSnapshotCache, SecretStore, SdkHelpers, KvListing, TenantKeys, TLAPS, SequenceTheorems, FiniteSetTheorems, WellFoundedInduction

----------------------------------------------------------------------------
(* The snapshot caches.                                                     *)

\* What an update of one refresh does to its type.
LEMMA MovedType ==
  ASSUME refresh \in [Refreshes -> Refresh], NEW r \in Refreshes,
         NEW pc \in {"idle", "fetching", "fetched", "opening", "writing", "renaming", "failed"},
         NEW got \in Versions \cup {None}, NEW fd \in Inodes \cup {None}
  PROVE  Moved(r, pc, got, fd) \in [Refreshes -> Refresh]
<1>1. refresh[r].polled \in BOOLEAN
  BY DEF Refresh
<1>2. [pc |-> pc, polled |-> refresh[r].polled, got |-> got, fd |-> fd] \in Refresh
  BY <1>1 DEF Refresh
<1>3. QED
  BY <1>2 DEF Moved

LEMMA OtherUpdates ==
  ASSUME refresh \in [Refreshes -> Refresh], NEW r \in Refreshes
  PROVE  /\ [refresh EXCEPT ![r] = IdleRefresh] \in [Refreshes -> Refresh]
         /\ Detached(r) \in [Refreshes -> Refresh]
         /\ \A p \in BOOLEAN : [refresh EXCEPT ![r] = Fetching(p)] \in [Refreshes -> Refresh]
         /\ [x \in Refreshes |-> IdleRefresh] \in [Refreshes -> Refresh]
<1>1. IdleRefresh \in Refresh
  BY DEF IdleRefresh, Refresh
<1>2. [pc |-> refresh[r].pc, polled |-> FALSE, got |-> refresh[r].got, fd |-> refresh[r].fd] \in Refresh
  BY DEF Refresh
<1>3. \A p \in BOOLEAN : Fetching(p) \in Refresh
  BY DEF Fetching, Refresh
<1>4. QED
  BY <1>1, <1>2, <1>3 DEF Detached

\* A refresh past its fetch carries a snapshot, and one that writes has a file.
Carrying ==
  \A r \in Refreshes :
    /\ refresh[r].pc \in {"fetched", "opening", "writing", "renaming", "failed"}
         => refresh[r].got \in Versions
    /\ IF refresh[r].pc = "writing" THEN refresh[r].fd \in Inodes ELSE refresh[r].fd = None

TInv == TypeOK /\ Carrying

LEMMA InitTInv == Init => TInv
<1> SUFFICES ASSUME Init PROVE TInv
  OBVIOUS
<1>1. refresh \in [Refreshes -> Refresh]
  BY DEF Init, IdleRefresh, Refresh
<1>2. content \in [Inodes -> Versions \cup {Partial}]
  BY DEF Init
<1>3. TypeOK
  <2>1. crashes \in 0..MaxCrashes
    BY CacheConstants DEF Init
  <2>2. started \in BOOLEAN /\ isPolling \in BOOLEAN /\ cached \in BOOLEAN /\ unsaved \in BOOLEAN
        /\ hasDisk \in BOOLEAN /\ clash \in BOOLEAN
    BY DEF Init
  <2>3. QED
    BY <1>1, <1>2, <2>1, <2>2 DEF Init, TypeOK
<1>4. Carrying
  BY DEF Init, Carrying, IdleRefresh
<1>5. QED
  BY <1>3, <1>4 DEF TInv

\* A refresh that moves on keeps Carrying if what it carries is right.
LEMMA MovedCarrying ==
  ASSUME TInv, NEW r \in Refreshes, NEW pc, NEW got, NEW fd,
         refresh' = Moved(r, pc, got, fd),
         pc \in {"fetched", "opening", "writing", "renaming", "failed"} => got \in Versions,
         IF pc = "writing" THEN fd \in Inodes ELSE fd = None
  PROVE  Carrying'
<1>1. \A x \in Refreshes : x # r => refresh'[x] = refresh[x]
  BY DEF TInv, TypeOK, Moved
<1>2. refresh'[r] = [pc |-> pc, polled |-> refresh[r].polled, got |-> got, fd |-> fd]
  BY DEF TInv, TypeOK, Moved
<1>3. QED
  BY <1>1, <1>2 DEF Carrying, TInv

\* A refresh that begins, is detached from its poll or ends keeps it too.
LEMMA OtherCarrying ==
  ASSUME TInv, NEW r \in Refreshes,
         \/ refresh' = [refresh EXCEPT ![r] = IdleRefresh]
         \/ refresh' = Detached(r)
         \/ \E p \in BOOLEAN : refresh' = [refresh EXCEPT ![r] = Fetching(p)]
  PROVE  Carrying'
<1>1. \A x \in Refreshes : x # r => refresh'[x] = refresh[x]
  BY DEF TInv, TypeOK, Detached
<1>2. \/ refresh'[r].pc = "idle" /\ refresh'[r].fd = None
      \/ refresh'[r].pc = "fetching" /\ refresh'[r].fd = None
      \/ refresh'[r].pc = refresh[r].pc /\ refresh'[r].got = refresh[r].got /\ refresh'[r].fd = refresh[r].fd
  BY DEF TInv, TypeOK, Detached, IdleRefresh, Fetching
<1>3. QED
  BY <1>1, <1>2 DEF Carrying, TInv

\* The lock and the refreshes when a refresh is polled for or settles.
LEMMA LockStep ==
  ASSUME TInv, NEW r \in Refreshes, PollBackground(r) \/ Settle(r)
  PROVE  /\ refresh' \in [Refreshes -> Refresh] /\ isPolling' \in BOOLEAN
         /\ Carrying'
<1>1. CASE isPolling' = isPolling /\ refresh' = refresh
  BY <1>1 DEF TInv, TypeOK, Carrying
<1>2. CASE isPolling' = TRUE /\ refresh' = [refresh EXCEPT ![r] = Fetching(TRUE)]
  BY <1>2, OtherUpdates, OtherCarrying DEF TInv, TypeOK
<1>3. CASE Settle(r)
  <2>1. refresh' \in [Refreshes -> Refresh] /\ Carrying'
    BY <1>3, OtherUpdates, OtherCarrying DEF TInv, TypeOK, Settle
  <2>2. isPolling' \in BOOLEAN
    BY <1>3 DEF Settle
  <2>3. QED
    BY <2>1, <2>2
<1>4. QED
  BY <1>1, <1>2, <1>3 DEF PollBackground

LEMMA StepTInv == TInv /\ [Next]_vars => TInv'
<1> SUFFICES ASSUME TInv, [Next]_vars PROVE TInv'
  OBVIOUS
<1> USE CacheConstants
<1>a. TypeOK /\ Carrying /\ refresh \in [Refreshes -> Refresh]
  BY DEF TInv, TypeOK
<1>b. \A r \in Refreshes : /\ refresh[r].got \in Versions \cup {None}
                           /\ refresh[r].fd \in Inodes \cup {None}
  BY <1>a DEF Refresh
<1>1. CASE Publish
  BY <1>1, <1>a DEF Publish, TInv, TypeOK, Carrying, Versions, memory, files
<1>2. CASE Stop
  BY <1>2, <1>a DEF Stop, TInv, TypeOK, Carrying, files
<1>3. CASE CrashRestart
  <2>1. refresh' \in [Refreshes -> Refresh]
    <3>1. IdleRefresh \in Refresh
      BY DEF IdleRefresh, Refresh
    <3>2. QED
      BY <1>3, <3>1 DEF CrashRestart
  <2>2. latestSnapshot' \in Versions \cup {None}
    BY <1>3, <1>a DEF CrashRestart, TypeOK
  <2>3. crashes' \in 0..MaxCrashes
    BY <1>3, <1>a DEF CrashRestart, TypeOK
  <2>4. Carrying'
    BY <1>3 DEF CrashRestart, Carrying, IdleRefresh
  <2>5. QED
    BY <1>3, <1>a, <2>1, <2>2, <2>3, <2>4 DEF CrashRestart, TInv, TypeOK, files
<1>4. CASE \E r \in Refreshes : Start(r) \/ Interval(r)
  BY <1>4, <1>a, LockStep DEF Start, Interval, TInv, TypeOK, files
<1>5. CASE \E r \in Refreshes : ForceRefresh(r)
  <2>1. PICK r \in Refreshes : ForceRefresh(r)
    BY <1>5
  <2>2. refresh' \in [Refreshes -> Refresh]
    BY <2>1, <1>a, OtherUpdates DEF ForceRefresh
  <2>3. Carrying'
    BY <2>1, <1>a, OtherCarrying DEF ForceRefresh
  <2>4. QED
    BY <2>1, <2>2, <2>3, <1>a DEF ForceRefresh, TInv, TypeOK, memory, files
<1>6. CASE \E r \in Refreshes : PollTimeout(r)
  <2>1. PICK r \in Refreshes : PollTimeout(r)
    BY <1>6
  <2>2. refresh' \in [Refreshes -> Refresh]
    BY <2>1, <1>a, OtherUpdates DEF PollTimeout
  <2>3. Carrying'
    BY <2>1, <1>a, OtherCarrying DEF PollTimeout
  <2>4. QED
    BY <2>1, <2>2, <2>3, <1>a DEF PollTimeout, TInv, TypeOK, files
<1>7. CASE \E r \in Refreshes : Serve(r)
  <2>1. PICK r \in Refreshes : Serve(r)
    BY <1>7
  <2>2. source \in Versions
    BY <2>1, <1>a DEF Serve, TypeOK, Versions
  <2>3. refresh' \in [Refreshes -> Refresh] /\ Carrying'
    BY <2>1, <2>2, <1>a, MovedType, MovedCarrying DEF Serve
  <2>4. QED
    BY <2>1, <2>3, <1>a DEF Serve, TInv, TypeOK, memory, files
<1>8. CASE \E r \in Refreshes : FetchFails(r)
  BY <1>8, <1>a, LockStep DEF FetchFails, TInv, TypeOK, files
<1>9. CASE \E r \in Refreshes : Apply(r)
  <2>1. PICK r \in Refreshes : Apply(r)
    BY <1>9
  <2>2. refresh[r].got \in Versions
    BY <2>1, <1>a DEF Apply, Carrying
  <2>3. refresh' \in [Refreshes -> Refresh] /\ isPolling' \in BOOLEAN /\ Carrying'
    <3>1. CASE Settle(r)
      BY <3>1, LockStep
    <3>2. CASE refresh' = Moved(r, "opening", refresh[r].got, None) /\ isPolling' = isPolling
      BY <3>2, <2>2, <1>a, MovedType, MovedCarrying DEF TypeOK
    <3>3. QED
      BY <2>1, <3>1, <3>2 DEF Apply
  <2>4. latestSnapshot' \in Versions \cup {None} /\ unsaved' \in BOOLEAN
    BY <2>1, <2>2, <1>a DEF Apply, TypeOK
  <2>5. clash' \in BOOLEAN
    BY <2>1, <1>a DEF Apply, TypeOK
  <2>6. QED
    BY <2>1, <2>3, <2>4, <2>5, <1>a DEF Apply, TInv, TypeOK, files
<1>10. CASE \E r \in Refreshes : OpenTmp(r)
  <2>1. PICK r \in Refreshes : OpenTmp(r)
    BY <1>10
  <2>2. PICK i \in Inodes : /\ tmpFile' = i
                            /\ content' = [content EXCEPT ![i] = Partial]
                            /\ refresh' = Moved(r, "writing", refresh[r].got, i)
    BY <2>1 DEF OpenTmp
  <2>3. refresh[r].got \in Versions
    BY <2>1, <1>a DEF OpenTmp, Carrying
  <2>4. refresh' \in [Refreshes -> Refresh] /\ Carrying'
    BY <2>2, <2>3, <1>a, MovedType, MovedCarrying
  <2>5. content' \in [Inodes -> Versions \cup {Partial}]
    BY <2>2, <1>a DEF TypeOK
  <2>6. QED
    BY <2>1, <2>2, <2>4, <2>5, <1>a DEF OpenTmp, TInv, TypeOK, memory
<1>11. CASE \E r \in Refreshes : WriteTmp(r)
  <2>1. PICK r \in Refreshes : WriteTmp(r)
    BY <1>11
  <2>2. refresh[r].got \in Versions /\ refresh[r].fd \in Inodes
    BY <2>1, <1>a DEF WriteTmp, Carrying
  <2>3. refresh' \in [Refreshes -> Refresh] /\ Carrying'
    BY <2>1, <2>2, <1>a, MovedType, MovedCarrying DEF WriteTmp
  <2>4. content' \in [Inodes -> Versions \cup {Partial}]
    BY <2>1, <2>2, <1>a DEF WriteTmp, TypeOK
  <2>5. cached' \in BOOLEAN
    BY <2>1 DEF WriteTmp
  <2>6. QED
    BY <2>1, <2>3, <2>4, <2>5, <1>a DEF WriteTmp, TInv, TypeOK, memory
<1>12. ASSUME NEW r \in Refreshes, Fail(r), refresh[r].got \in Versions
       PROVE  refresh' \in [Refreshes -> Refresh] /\ Carrying' /\ unsaved' \in BOOLEAN
  <2>1. refresh' \in [Refreshes -> Refresh] /\ Carrying'
    BY <1>12, <1>a, MovedType, MovedCarrying DEF Fail
  <2>2. unsaved' \in BOOLEAN
    BY <1>12 DEF Fail
  <2>3. QED
    BY <2>1, <2>2
<1>13. CASE \E r \in Refreshes : WriteFails(r) \/ RenameFails(r)
  <2>1. PICK r \in Refreshes : WriteFails(r) \/ RenameFails(r)
    BY <1>13
  <2>2. refresh[r].got \in Versions
    BY <2>1, <1>a DEF WriteFails, RenameFails, Carrying
  <2>3. refresh' \in [Refreshes -> Refresh] /\ Carrying' /\ unsaved' \in BOOLEAN
    BY <2>1, <2>2, <1>12 DEF WriteFails, RenameFails
  <2>4. QED
    BY <2>1, <2>3, <1>a DEF WriteFails, RenameFails, TInv, TypeOK, memory, files
<1>14. CASE \E r \in Refreshes : RenameTmp(r)
  <2>1. PICK r \in Refreshes : RenameTmp(r)
    BY <1>14
  <2>2. refresh' \in [Refreshes -> Refresh] /\ isPolling' \in BOOLEAN /\ Carrying'
    BY <2>1, LockStep DEF RenameTmp
  <2>3. cached' \in BOOLEAN
    BY <2>1 DEF RenameTmp
  <2>4. QED
    BY <2>1, <2>2, <2>3, <1>a DEF RenameTmp, TInv, TypeOK
<1>15. CASE \E r \in Refreshes : RemoveTmp(r) \/ MkdirFails(r)
  BY <1>15, <1>a, LockStep DEF RemoveTmp, MkdirFails, TInv, TypeOK, files
<1>16. CASE UNCHANGED vars
  BY <1>16, <1>a DEF vars, memory, files, TInv, TypeOK, Carrying
<1>17. QED
  BY <1>1, <1>2, <1>3, <1>4, <1>5, <1>6, <1>7, <1>8, <1>9, <1>10, <1>11, <1>13, <1>14, <1>15, <1>16
     DEF Next

\* Every variable of the caches keeps its type, and no refresh reaches a file
\* operation without a validated snapshot and, while it writes, an open file.
THEOREM CacheTypeCorrect == Spec => []TypeOK
<1>1. Init => TInv
  BY InitTInv
<1>2. TInv /\ [Next]_vars => TInv'
  BY StepTInv
<1>3. TInv => TypeOK
  BY DEF TInv
<1>4. QED
  BY <1>1, <1>2, <1>3, PTL DEF Spec

----------------------------------------------------------------------------
\* The snapshot in memory is replaced by newer ones only, and lost only when the
\* process dies: for any number of overlapping refreshes whose answers arrive in
\* any order (forceRefresh compares after its await, not before).
THEOREM OnlyNewerHolds == Spec => OnlyNewer
<1>1. ASSUME TInv, [Next]_vars
      PROVE  latestSnapshot # None /\ latestSnapshot' # latestSnapshot
               => CrashRestart \/ latestSnapshot' > latestSnapshot
  <2> SUFFICES ASSUME latestSnapshot # None, latestSnapshot' # latestSnapshot, ~CrashRestart
               PROVE  latestSnapshot' > latestSnapshot
    OBVIOUS
  <2>1. ASSUME NEW r \in Refreshes, Apply(r) PROVE latestSnapshot' > latestSnapshot
    BY <2>1 DEF Apply, Newer
  <2>2. UNCHANGED latestSnapshot \/ \E r \in Refreshes : Apply(r)
    BY <1>1 DEF Next, Publish, Stop, Start, Interval, ForceRefresh, PollTimeout, Serve,
                FetchFails, MkdirFails, OpenTmp, WriteTmp, WriteFails, RenameTmp, RenameFails, RemoveTmp,
                vars, memory
  <2>3. QED
    BY <2>1, <2>2
<1>2. QED
  BY <1>1, InitTInv, StepTInv, PTL DEF Spec, OnlyNewer

----------------------------------------------------------------------------
\* Until two refreshes clash only one persists.
Single == \A r, o \in Refreshes : Persisting(r) /\ Persisting(o) => r = o

\* The temporary and the cache path never name the same file; a refresh writes
\* the temporary file, and has written all of it when it renames it.
Separate ==
  /\ tmpFile # None => tmpFile # cacheFile
  /\ \A r \in Refreshes :
       /\ refresh[r].pc = "writing" => tmpFile # None /\ refresh[r].fd = tmpFile
       /\ refresh[r].pc = "renaming" => tmpFile # None /\ content[tmpFile] # Partial

RInv == ~clash => Single /\ Separate /\ AtomicRename

LEMMA StepRInv == TInv /\ RInv /\ [Next]_vars => RInv'
<1> SUFFICES ASSUME TInv, RInv, [Next]_vars, ~clash'
             PROVE  Single' /\ Separate' /\ AtomicRename'
  BY DEF RInv
<1> USE CacheConstants
<1>c. ~clash
  BY DEF Next, Publish, Stop, CrashRestart, Start, Interval, ForceRefresh, PollTimeout, Serve,
         FetchFails, Apply, MkdirFails, OpenTmp, WriteTmp, WriteFails, RenameTmp, RenameFails, RemoveTmp, vars
<1>a. /\ refresh \in [Refreshes -> Refresh] /\ content \in [Inodes -> Versions \cup {Partial}]
      /\ tmpFile \in Inodes \cup {None} /\ cacheFile \in Inodes \cup {None}
      /\ Carrying /\ Single /\ Separate /\ AtomicRename
  BY <1>c DEF TInv, TypeOK, RInv
<1>1. ASSUME UNCHANGED <<files, cached>>,
             \A r \in Refreshes :
               /\ refresh'[r].pc \in {"writing", "renaming"} =>
                    refresh'[r].pc = refresh[r].pc /\ refresh'[r].fd = refresh[r].fd
               /\ Persisting(r)' => Persisting(r)
      PROVE  Single' /\ Separate' /\ AtomicRename'
  BY <1>1, <1>a DEF Single, Separate, AtomicRename, files
<1>2. ASSUME NEW r \in Refreshes, NEW pc, NEW got, NEW fd, refresh' = Moved(r, pc, got, fd)
      PROVE  refresh'[r].pc = pc /\ refresh'[r].fd = fd
             /\ \A x \in Refreshes : x # r => refresh'[x] = refresh[x]
  BY <1>2, <1>a DEF Moved
<1>3. ASSUME NEW r \in Refreshes, Settle(r)
      PROVE  refresh'[r].pc = "idle" /\ \A x \in Refreshes : x # r => refresh'[x] = refresh[x]
  BY <1>3, <1>a DEF Settle, IdleRefresh
<1>4. CASE Publish \/ Stop \/ CrashRestart \/ UNCHANGED vars
  BY <1>4, <1>1 DEF Publish, Stop, CrashRestart, vars, IdleRefresh, files, Persisting
<1>5. CASE \E r \in Refreshes : Start(r) \/ Interval(r) \/ ForceRefresh(r)
  <2>1. PICK r \in Refreshes : Start(r) \/ Interval(r) \/ ForceRefresh(r)
    BY <1>5
  <2>2. UNCHANGED refresh \/ \E p \in BOOLEAN : refresh' = [refresh EXCEPT ![r] = Fetching(p)]
    BY <2>1 DEF Start, Interval, ForceRefresh, PollBackground
  <2>3. \A x \in Refreshes : refresh'[x] = refresh[x] \/ refresh'[x].pc = "fetching"
    BY <2>2, <1>a DEF Fetching
  <2>4. UNCHANGED <<files, cached>>
    BY <2>1 DEF Start, Interval, ForceRefresh
  <2>5. QED
    BY <2>3, <2>4, <1>1 DEF Persisting
<1>6. CASE \E r \in Refreshes : PollTimeout(r)
  <2>1. PICK r \in Refreshes : PollTimeout(r)
    BY <1>6
  <2>2. \A x \in Refreshes : refresh'[x].pc = refresh[x].pc /\ refresh'[x].fd = refresh[x].fd
    BY <2>1, <1>a DEF PollTimeout, Detached
  <2>3. QED
    BY <2>1, <2>2, <1>1 DEF PollTimeout, Persisting
<1>7. CASE \E r \in Refreshes : Serve(r) \/ FetchFails(r) \/ MkdirFails(r) \/ WriteFails(r) \/ RenameFails(r)
  <2>1. PICK r \in Refreshes : Serve(r) \/ FetchFails(r) \/ MkdirFails(r) \/ WriteFails(r) \/ RenameFails(r)
    BY <1>7
  <2>2. \/ Settle(r)
        \/ \E got, fd : refresh' = Moved(r, "fetched", got, fd)
        \/ Persisting(r) /\ \E got, fd : refresh' = Moved(r, "failed", got, fd)
    BY <2>1 DEF Serve, FetchFails, MkdirFails, WriteFails, RenameFails, Fail, Persisting
  <2>3. /\ \A x \in Refreshes : x # r => refresh'[x] = refresh[x]
        /\ \/ refresh'[r].pc \in {"idle", "fetched"}
           \/ Persisting(r) /\ refresh'[r].pc = "failed"
    BY <2>2, <1>2, <1>3
  <2>4. UNCHANGED <<files, cached>>
    BY <2>1 DEF Serve, FetchFails, MkdirFails, WriteFails, RenameFails
  <2>5. QED
    BY <2>3, <2>4, <1>1 DEF Persisting
<1>8. CASE \E r \in Refreshes : Apply(r)
  <2>1. PICK r \in Refreshes : Apply(r)
    BY <1>8
  <2>2. UNCHANGED <<files, cached>>
    BY <2>1 DEF Apply
  <2>3. CASE Settle(r)
    BY <2>2, <2>3, <1>3, <1>1 DEF Persisting
  <2>4. CASE /\ refresh' = Moved(r, "opening", refresh[r].got, None)
             /\ clash' = (clash \/ \E o \in Refreshes : Persisting(o))
    <3>1. \A o \in Refreshes : ~Persisting(o)
      BY <2>4
    <3>2. /\ refresh'[r].pc = "opening"
          /\ \A x \in Refreshes : x # r => refresh'[x] = refresh[x]
      BY <2>4, <1>2
    <3>3. \A x \in Refreshes : Persisting(x)' => x = r
      BY <3>1, <3>2 DEF Persisting
    <3>4. Single'
      BY <3>3 DEF Single
    <3>5. \A x \in Refreshes : refresh'[x].pc \notin {"writing", "renaming"}
      BY <3>1, <3>2 DEF Persisting
    <3>6. Separate' /\ AtomicRename'
      BY <3>5, <2>2, <1>a DEF Separate, AtomicRename, files
    <3>7. QED
      BY <3>4, <3>6
  <2>5. QED
    BY <2>1, <2>3, <2>4 DEF Apply
\* The refresh that uses the files is the only one that persists.
<1>9. ASSUME NEW r \in Refreshes, Persisting(r),
             \A x \in Refreshes : x # r => refresh'[x] = refresh[x]
      PROVE  /\ \A x \in Refreshes : x # r => ~Persisting(x) /\ ~Persisting(x)'
             /\ Single'
  <2>1. \A x \in Refreshes : x # r => ~Persisting(x) /\ ~Persisting(x)'
    BY <1>9, <1>a DEF Single, Persisting
  <2>2. QED
    BY <2>1 DEF Single
<1>10. CASE \E r \in Refreshes : OpenTmp(r)
  <2>1. PICK r \in Refreshes : OpenTmp(r)
    BY <1>10
  <2>2. PICK i \in Inodes : /\ IF tmpFile = None THEN Unused(i) ELSE i = tmpFile
                            /\ tmpFile' = i
                            /\ content' = [content EXCEPT ![i] = Partial]
                            /\ refresh' = Moved(r, "writing", refresh[r].got, i)
    BY <2>1 DEF OpenTmp
  <2>3. i # cacheFile
    BY <2>2, <1>a DEF Unused, Separate
  <2>4. UNCHANGED <<cacheFile, cached>>
    BY <2>1 DEF OpenTmp
  <2>5. /\ refresh'[r].pc = "writing" /\ refresh'[r].fd = i
        /\ \A x \in Refreshes : x # r => refresh'[x] = refresh[x]
    BY <2>2, <1>2
  <2>6. Single' /\ \A x \in Refreshes : x # r => ~Persisting(x)'
    BY <2>1, <2>5, <1>9 DEF OpenTmp, Persisting
  <2>7. Separate'
    BY <2>2, <2>3, <2>4, <2>5, <2>6 DEF Separate, Persisting
  <2>8. AtomicRename'
    BY <2>2, <2>3, <2>4, <1>a DEF AtomicRename
  <2>9. QED
    BY <2>6, <2>7, <2>8
<1>11. CASE \E r \in Refreshes : WriteTmp(r)
  <2>1. PICK r \in Refreshes : WriteTmp(r)
    BY <1>11
  <2>2. /\ tmpFile # None /\ tmpFile # cacheFile /\ refresh[r].fd = tmpFile
        /\ refresh[r].got \in Versions
    BY <2>1, <1>a DEF WriteTmp, Separate, Carrying
  <2>3. /\ refresh'[r].pc = "renaming"
        /\ \A x \in Refreshes : x # r => refresh'[x] = refresh[x]
    BY <2>1, <1>2 DEF WriteTmp
  <2>4. Single' /\ \A x \in Refreshes : x # r => ~Persisting(x) /\ ~Persisting(x)'
    BY <2>1, <2>3, <1>9 DEF WriteTmp, Persisting
  <2>5. \A x \in Refreshes : x # r => refresh[x].fd = None
    BY <2>4, <1>a DEF Carrying, Persisting
  <2>6. content' = [content EXCEPT ![tmpFile] = refresh[r].got]
    BY <2>1, <2>2, <2>5 DEF WriteTmp
  <2>7. UNCHANGED <<tmpFile, cacheFile>> /\ (cached' <=> cached)
    BY <2>1, <2>2 DEF WriteTmp
  <2>8. Separate'
    BY <2>2, <2>3, <2>4, <2>6, <2>7, <1>a DEF Separate, Persisting
  <2>9. AtomicRename'
    BY <2>2, <2>6, <2>7, <1>a DEF AtomicRename
  <2>10. QED
    BY <2>4, <2>8, <2>9
<1>12. CASE \E r \in Refreshes : RenameTmp(r) \/ RemoveTmp(r)
  <2>1. PICK r \in Refreshes : RenameTmp(r) \/ RemoveTmp(r)
    BY <1>12
  <2>2. /\ refresh'[r].pc = "idle"
        /\ \A x \in Refreshes : x # r => refresh'[x] = refresh[x]
    BY <2>1, <1>3 DEF RenameTmp, RemoveTmp
  <2>3. Single' /\ \A x \in Refreshes : ~Persisting(x)'
    BY <2>1, <2>2, <1>9 DEF RenameTmp, RemoveTmp, Persisting
  <2>4. tmpFile' = None
    BY <2>1 DEF RenameTmp, RemoveTmp
  <2>5. Separate'
    BY <2>3, <2>4 DEF Separate, Persisting
  <2>6. CASE RenameTmp(r)
    <3>1. tmpFile # None /\ content[tmpFile] # Partial
      BY <2>6, <1>a DEF RenameTmp, Separate
    <3>2. AtomicRename'
      BY <2>6, <3>1 DEF RenameTmp, AtomicRename
    <3>3. QED
      BY <3>2, <2>3, <2>5
  <2>7. CASE RemoveTmp(r)
    BY <2>7, <2>3, <2>5, <1>a DEF RemoveTmp, AtomicRename
  <2>8. QED
    BY <2>1, <2>6, <2>7
<1>13. QED
  BY <1>4, <1>5, <1>6, <1>7, <1>8, <1>10, <1>11, <1>12 DEF Next

----------------------------------------------------------------------------
\* Until two refreshes clash, the one that persists carries what is in memory and has
\* written it when it renames; what is in memory is on disk, on its way there, or its
\* write has failed.
OnItsWay ==
  /\ \A r \in Refreshes :
       /\ Persisting(r) => hasDisk /\ refresh[r].got = latestSnapshot
       /\ refresh[r].pc = "renaming" => content[tmpFile] = refresh[r].got
  /\ hasDisk /\ latestSnapshot # None /\ ~unsaved =>
       \/ cacheFile # None /\ content[cacheFile] = latestSnapshot
       \/ \E r \in Refreshes : refresh[r].pc \in {"opening", "writing", "renaming"}

SInv == ~clash => OnItsWay

LEMMA StepSInv == TInv /\ RInv /\ SInv /\ [Next]_vars => SInv'
<1> SUFFICES ASSUME TInv, RInv, SInv, [Next]_vars, ~clash'
             PROVE  OnItsWay'
  BY DEF SInv
<1> USE CacheConstants
<1>c. ~clash
  BY DEF Next, Publish, Stop, CrashRestart, Start, Interval, ForceRefresh, PollTimeout, Serve,
         FetchFails, Apply, MkdirFails, OpenTmp, WriteTmp, WriteFails, RenameTmp, RenameFails, RemoveTmp, vars
<1>a. /\ refresh \in [Refreshes -> Refresh] /\ content \in [Inodes -> Versions \cup {Partial}]
      /\ tmpFile \in Inodes \cup {None} /\ cacheFile \in Inodes \cup {None}
      /\ Carrying /\ Single /\ Separate /\ OnItsWay
  BY <1>c DEF TInv, TypeOK, RInv, SInv
\* A step that leaves files and memory alone and moves no refresh that persists.
<1>1. ASSUME UNCHANGED <<files, latestSnapshot, unsaved, hasDisk>>,
             \A r \in Refreshes :
               \/ ~Persisting(r) /\ ~Persisting(r)'
               \/ refresh'[r].pc = refresh[r].pc /\ refresh'[r].got = refresh[r].got
      PROVE  OnItsWay'
  <2>1. \A r \in Refreshes : refresh'[r].pc \in {"opening", "writing", "renaming", "failed"} =>
          refresh'[r].pc = refresh[r].pc /\ refresh'[r].got = refresh[r].got
    BY <1>1 DEF Persisting
  <2>2. \A r \in Refreshes : refresh[r].pc \in {"opening", "writing", "renaming"} => refresh'[r].pc = refresh[r].pc
    BY <1>1 DEF Persisting
  <2> QED BY <1>1, <2>1, <2>2, <1>a DEF OnItsWay, Persisting, files
<1>2. ASSUME NEW r \in Refreshes, NEW pc, NEW got, NEW fd, refresh' = Moved(r, pc, got, fd)
      PROVE  refresh'[r].pc = pc /\ refresh'[r].got = got
             /\ \A x \in Refreshes : x # r => refresh'[x] = refresh[x]
  BY <1>2, <1>a DEF Moved
<1>3. ASSUME NEW r \in Refreshes, Settle(r)
      PROVE  refresh'[r].pc = "idle" /\ \A x \in Refreshes : x # r => refresh'[x] = refresh[x]
  BY <1>3, <1>a DEF Settle, IdleRefresh
<1>4. CASE Publish \/ Stop \/ UNCHANGED vars
  BY <1>4, <1>1 DEF Publish, Stop, vars, memory
<1>5. CASE CrashRestart
  <2>1. \A r \in Refreshes : refresh'[r].pc = "idle"
    BY <1>5 DEF CrashRestart, IdleRefresh
  <2>2. latestSnapshot' # None => cacheFile' # None /\ content'[cacheFile'] = latestSnapshot'
    BY <1>5 DEF CrashRestart, files
  <2> QED BY <2>1, <2>2 DEF OnItsWay, Persisting
<1>6. CASE \E r \in Refreshes : Start(r) \/ Interval(r) \/ ForceRefresh(r)
  <2>1. PICK r \in Refreshes : Start(r) \/ Interval(r) \/ ForceRefresh(r)
    BY <1>6
  <2>2. \/ UNCHANGED refresh
        \/ refresh[r].pc = "idle" /\ \E p \in BOOLEAN : refresh' = [refresh EXCEPT ![r] = Fetching(p)]
    BY <2>1 DEF Start, Interval, ForceRefresh, PollBackground
  <2>3. \A x \in Refreshes : refresh'[x] = refresh[x] \/ (refresh[x].pc = "idle" /\ refresh'[x].pc = "fetching")
    BY <2>2, <1>a DEF Fetching
  <2>4. UNCHANGED <<files, latestSnapshot, unsaved, hasDisk>>
    BY <2>1 DEF Start, Interval, ForceRefresh, memory
  <2> QED BY <2>3, <2>4, <1>1 DEF Persisting
<1>7. CASE \E r \in Refreshes : PollTimeout(r)
  <2>1. PICK r \in Refreshes : PollTimeout(r)
    BY <1>7
  <2>2. \A x \in Refreshes : refresh'[x].pc = refresh[x].pc /\ refresh'[x].got = refresh[x].got
    BY <2>1, <1>a DEF PollTimeout, Detached
  <2>3. UNCHANGED <<files, latestSnapshot, unsaved, hasDisk>>
    BY <2>1 DEF PollTimeout
  <2> QED BY <2>2, <2>3, <1>1
<1>8. CASE \E r \in Refreshes : Serve(r) \/ FetchFails(r)
  <2>1. PICK r \in Refreshes : Serve(r) \/ FetchFails(r)
    BY <1>8
  <2>2. /\ \A x \in Refreshes : x # r => refresh'[x] = refresh[x]
        /\ refresh[r].pc \in {"fetching", "fetched"} /\ refresh'[r].pc \in {"idle", "fetched"}
    BY <2>1, <1>2, <1>3 DEF Serve, FetchFails
  <2>3. UNCHANGED <<files, latestSnapshot, unsaved, hasDisk>>
    BY <2>1 DEF Serve, FetchFails, memory
  <2> QED BY <2>2, <2>3, <1>1 DEF Persisting
\* The answer arrives while nothing is being persisted.
<1>9. CASE \E r \in Refreshes : Apply(r)
  <2>1. PICK r \in Refreshes : Apply(r)
    BY <1>9
  <2>2. refresh[r].pc = "fetched" /\ UNCHANGED <<files, hasDisk>>
    BY <2>1 DEF Apply
  <2>3. CASE Settle(r) /\ UNCHANGED <<latestSnapshot, unsaved>>
    BY <2>2, <2>3, <1>3, <1>1 DEF Persisting
  <2>4. CASE ~hasDisk /\ Settle(r)
    <3>1. \A x \in Refreshes : ~Persisting(x)
      BY <2>4, <1>a DEF OnItsWay
    <3>2. \A x \in Refreshes : ~Persisting(x)'
      BY <2>4, <3>1, <1>3 DEF Persisting
    <3> QED BY <2>2, <2>4, <3>2 DEF OnItsWay, Persisting
  <2>5. CASE /\ hasDisk /\ refresh' = Moved(r, "opening", refresh[r].got, None)
             /\ latestSnapshot' = refresh[r].got
             /\ clash' = (clash \/ \E o \in Refreshes : Persisting(o))
    <3>1. \A o \in Refreshes : ~Persisting(o)
      BY <2>5
    <3>2. /\ refresh'[r].pc = "opening" /\ refresh'[r].got = latestSnapshot'
          /\ \A x \in Refreshes : x # r => refresh'[x] = refresh[x]
      BY <2>5, <1>2
    <3> QED BY <2>2, <2>5, <3>1, <3>2 DEF OnItsWay, Persisting
  <2> QED BY <2>1, <2>3, <2>4, <2>5 DEF Apply
\* The refresh that uses the files is the only one that persists.
<1>10. ASSUME NEW r \in Refreshes, Persisting(r),
              \A x \in Refreshes : x # r => refresh'[x] = refresh[x]
       PROVE  \A x \in Refreshes : x # r => ~Persisting(x) /\ ~Persisting(x)'
  BY <1>10, <1>a DEF Single, Persisting
<1>11. CASE \E r \in Refreshes : OpenTmp(r)
  <2>1. PICK r \in Refreshes : OpenTmp(r)
    BY <1>11
  <2>2. PICK i \in Inodes : refresh' = Moved(r, "writing", refresh[r].got, i)
    BY <2>1 DEF OpenTmp
  <2>3. /\ refresh'[r].pc = "writing" /\ refresh'[r].got = refresh[r].got
        /\ \A x \in Refreshes : x # r => refresh'[x] = refresh[x]
    BY <2>2, <1>2
  <2>4. Persisting(r) /\ UNCHANGED <<latestSnapshot, unsaved, hasDisk>>
    BY <2>1 DEF OpenTmp, Persisting, memory
  <2>5. \A x \in Refreshes : x # r => ~Persisting(x)'
    BY <2>3, <2>4, <1>10
  <2> QED BY <2>3, <2>4, <2>5, <1>a DEF OnItsWay, Persisting
<1>12. CASE \E r \in Refreshes : WriteTmp(r)
  <2>1. PICK r \in Refreshes : WriteTmp(r)
    BY <1>12
  <2>2. /\ tmpFile \in Inodes /\ refresh[r].fd = tmpFile
        /\ refresh[r].got \in Versions
    BY <2>1, <1>a DEF WriteTmp, Separate, Carrying
  <2>3. /\ refresh'[r].pc = "renaming" /\ refresh'[r].got = refresh[r].got
        /\ \A x \in Refreshes : x # r => refresh'[x] = refresh[x]
    BY <2>1, <1>2 DEF WriteTmp
  <2>4. Persisting(r) /\ UNCHANGED <<latestSnapshot, unsaved, hasDisk, tmpFile>>
    BY <2>1 DEF WriteTmp, Persisting, memory
  <2>5. \A x \in Refreshes : x # r => ~Persisting(x) /\ ~Persisting(x)'
    BY <2>3, <2>4, <1>10
  <2>6. \A x \in Refreshes : x # r => refresh[x].fd = None
    BY <2>5, <1>a DEF Carrying, Persisting
  <2>7. content' = [content EXCEPT ![tmpFile] = refresh[r].got]
    BY <2>1, <2>2, <2>6 DEF WriteTmp
  <2>8. content'[tmpFile'] = refresh'[r].got
    BY <2>2, <2>3, <2>4, <2>7, <1>a
  <2> QED BY <2>3, <2>4, <2>5, <2>8, <1>a DEF OnItsWay, Persisting
<1>13. CASE \E r \in Refreshes : WriteFails(r) \/ RenameFails(r)
  <2>1. PICK r \in Refreshes : WriteFails(r) \/ RenameFails(r)
    BY <1>13
  <2>2. Persisting(r) /\ Fail(r) /\ UNCHANGED <<latestSnapshot, hasDisk>>
    BY <2>1 DEF WriteFails, RenameFails, Persisting, memory
  <2>3. /\ refresh'[r].pc = "failed" /\ refresh'[r].got = refresh[r].got
        /\ \A x \in Refreshes : x # r => refresh'[x] = refresh[x]
    BY <2>2, <1>2 DEF Fail
  <2>4. unsaved'
    BY <2>2, <1>a DEF Fail, OnItsWay
  <2>5. \A x \in Refreshes : x # r => ~Persisting(x)'
    BY <2>2, <2>3, <1>10
  <2> QED BY <2>2, <2>3, <2>4, <2>5, <1>a DEF OnItsWay, Persisting
<1>14. CASE \E r \in Refreshes : RenameTmp(r)
  <2>1. PICK r \in Refreshes : RenameTmp(r)
    BY <1>14
  <2>2. /\ refresh'[r].pc = "idle"
        /\ \A x \in Refreshes : x # r => refresh'[x] = refresh[x]
    BY <2>1, <1>3 DEF RenameTmp
  <2>3. \A x \in Refreshes : ~Persisting(x)'
    BY <2>1, <2>2, <1>10 DEF RenameTmp, Persisting
  <2>4. content[tmpFile] = latestSnapshot /\ tmpFile # None
    BY <2>1, <1>a DEF RenameTmp, OnItsWay, Persisting
  <2>5. cacheFile' # None /\ content'[cacheFile'] = latestSnapshot'
    BY <2>1, <2>4 DEF RenameTmp
  <2> QED BY <2>3, <2>5 DEF OnItsWay, Persisting
<1>15. CASE \E r \in Refreshes : RemoveTmp(r)
  <2>1. PICK r \in Refreshes : RemoveTmp(r)
    BY <1>15
  <2>2. /\ refresh'[r].pc = "idle"
        /\ \A x \in Refreshes : x # r => refresh'[x] = refresh[x]
    BY <2>1, <1>3 DEF RemoveTmp
  <2>3. \A x \in Refreshes : ~Persisting(x)' /\ refresh[x].pc \notin {"opening", "writing", "renaming"}
    BY <2>1, <2>2, <1>10 DEF RemoveTmp, Persisting
  <2> QED BY <2>1, <2>3, <1>a DEF RemoveTmp, OnItsWay, Persisting
<1>16. CASE \E r \in Refreshes : MkdirFails(r)
  <2>1. PICK r \in Refreshes : MkdirFails(r)
    BY <1>16
  <2>2. /\ refresh'[r].pc = "idle"
        /\ \A x \in Refreshes : x # r => refresh'[x] = refresh[x]
    BY <2>1, <1>3 DEF MkdirFails
  <2>3. \A x \in Refreshes : ~Persisting(x)'
    BY <2>1, <2>2, <1>10 DEF MkdirFails, Persisting
  <2>4. unsaved'
    BY <2>1, <1>a DEF MkdirFails, OnItsWay, Persisting
  <2> QED BY <2>3, <2>4 DEF OnItsWay, Persisting
<1> QED
  BY <1>4, <1>5, <1>6, <1>7, <1>8, <1>9, <1>11, <1>12, <1>13, <1>14, <1>15, <1>16 DEF Next

\* Writing beside the cache file and renaming over it is atomic until two refreshes
\* persist at once: once a snapshot is cached, a crash at any step leaves a cache file
\* that a cold start can read, and a refresh that is over without a failed write leaves
\* there what is in memory.  CacheSharedTmp shows that two refreshes sharing the
\* temporary path break it.
THEOREM CacheIsSafe == Spec => []CacheSafe
<1>1. Init => TInv /\ RInv /\ SInv
  <2>1. Init => RInv
    BY DEF Init, RInv, Single, Separate, AtomicRename, IdleRefresh, Persisting
  <2>2. Init => SInv
    BY DEF Init, SInv, OnItsWay, IdleRefresh, Persisting
  <2>3. QED
    BY <2>1, <2>2, InitTInv
<1>2. TInv /\ RInv /\ SInv /\ [Next]_vars => (TInv /\ RInv /\ SInv)'
  BY StepTInv, StepRInv, StepSInv
<1>3. TInv /\ RInv /\ SInv => CacheSafe
  BY DEF RInv, SInv, OnItsWay, Quiet, DiskCatchesUp, CacheReadable, CacheSafe
<1>4. QED
  BY <1>1, <1>2, <1>3, PTL DEF Spec

----------------------------------------------------------------------------
(* The secret store: the inductive invariant, over the set calls ss, what  *)
(* the setters ts do, the files fs, the resolutions vs and the numbers un   *)
(* of the undisturbed sets.                                                 *)

SetCall == [name : SecretNames, length : {1, 2}]
Setter == [pc : {"idle", "encrypted", "truncated", "unlinked"}, set : Nat, solo : BOOLEAN]
EnvEntry == [name : SecretNames, file : Seq(Nat)]
Resolver == [pc : {"idle", "reading"}, left : SUBSET SecretNames, env : Seq(EnvEntry)]

SetsOf(ss, n) == {k \in DOMAIN ss : ss[k].name = n}
Whole(ss, k) == [i \in 1..ss[k].length |-> k]

SetsTyped(ss, ts) ==
  /\ ss \in Seq(SetCall) /\ ts \in [Setters -> Setter]
  /\ \A s \in Setters : IF ts[s].pc = "idle" THEN ts[s].set = 0 ELSE ts[s].set \in DOMAIN ss

\* A file is made of blocks that sets of its secret wrote; the one that a set has opened is there.
FilesWritten(ss, ts, fs) ==
  /\ fs \in [SecretNames -> Seq(Nat)]
  /\ \A n \in SecretNames : fs[n] = NoFile \/ fs[n] \in Seq(SetsOf(ss, n))
  /\ \A s \in Setters : ts[s].pc = "truncated" => fs[ss[ts[s].set].name] # NoFile

\* A set on its own is alone, and the file it has truncated is empty.
SoloAlone(ss, ts, fs) ==
  \A s \in Setters : ts[s].pc # "idle" /\ ts[s].solo =>
    /\ \A t \in Setters : t # s /\ ts[t].pc # "idle" => ss[ts[t].set].name # ss[ts[s].set].name
    /\ ts[s].pc = "truncated" => fs[ss[ts[s].set].name] = <<>>

\* The file of an undisturbed set is its record, and nobody is at work on it.
Readable(ss, ts, fs, un) ==
  /\ un \in [SecretNames -> Nat]
  /\ \A n \in SecretNames : un[n] # 0 =>
       /\ un[n] \in SetsOf(ss, n) /\ fs[n] = Whole(ss, un[n])
       /\ \A s \in Setters : ts[s].pc # "idle" => ss[ts[s].set].name # n

\* What was resolved is the record of a set of that secret, each secret once, and it is
\* not among those left.
Genuine(ss, v) ==
  /\ v \in Resolver
  /\ \A i \in DOMAIN v.env : v.env[i].name \notin v.left /\ \E k \in SetsOf(ss, v.env[i].name) : v.env[i].file = Whole(ss, k)
  /\ \A i, j \in DOMAIN v.env : v.env[i].name = v.env[j].name => i = j

SecretInv ==
  /\ SetsTyped(sets, setters) /\ FilesWritten(sets, setters, records)
  /\ SoloAlone(sets, setters, records) /\ Readable(sets, setters, records, undisturbed)
  /\ DOMAIN resolvers = Resolvers /\ \A r \in Resolvers : Genuine(sets, resolvers[r])

----------------------------------------------------------------------------
LEMMA WiderSeq ==
  ASSUME NEW S, NEW T, \A x \in S : x \in T, NEW q \in Seq(S)
  PROVE  q \in Seq(T)
<1>1. Len(q) \in Nat /\ q \in [1..Len(q) -> S] /\ DOMAIN q = 1..Len(q)
  BY LenProperties
<1>2. q \in [1..Len(q) -> T]
  BY <1>1
<1> QED BY <1>1, <1>2

LEMMA WholeRecord ==
  ASSUME NEW ss \in Seq(SetCall), NEW k \in DOMAIN ss
  PROVE  /\ k \in Nat /\ k # 0 /\ ss[k] \in SetCall
         /\ Whole(ss, k) \in Seq({k}) /\ Len(Whole(ss, k)) = ss[k].length
         /\ Whole(ss, k) # <<>> /\ Whole(ss, k)[1] = k /\ DOMAIN Whole(ss, k) = 1..ss[k].length
<1>1. Len(ss) \in Nat /\ DOMAIN ss = 1..Len(ss)
  BY LenProperties
<1>2. k \in Nat /\ k # 0
  BY <1>1
<1>3. ss[k] \in SetCall
  BY <1>1, ElementOfSeq
<1>4. ss[k].length \in Nat /\ ss[k].length >= 1
  BY <1>3 DEF SetCall
<1> DEFINE m == ss[k].length
           q == [i \in 1..m |-> k]
<1> HIDE DEF m
<1>5. q \in [1..m -> {k}] /\ DOMAIN q = 1..m
  OBVIOUS
<1>6. q \in Seq({k}) /\ Len(q) = m /\ q[1] = k
  BY <1>4, <1>5 DEF m
<1>7. q # <<>>
  BY <1>4, <1>6, EmptySeq DEF m
<1> QED BY <1>2, <1>3, <1>5, <1>6, <1>7 DEF Whole, m

LEMMA NoFileSeq == NoFile \in Seq(Nat) /\ NoFile # <<>> /\ <<>> \in Seq(Nat)
BY EmptySeq DEF NoFile

LEMMA InitSecrets == SecretInit => SecretInv
<1> SUFFICES ASSUME SecretInit PROVE SecretInv
  OBVIOUS
<1>1. sets \in Seq(SetCall) /\ DOMAIN sets = {}
  BY EmptySeq DEF SecretInit
<1>2. setters \in [Setters -> Setter] /\ \A s \in Setters : setters[s].pc = "idle" /\ setters[s].set = 0
  BY DEF SecretInit, NotSetting, Setter
<1>3. FilesWritten(sets, setters, records)
  BY <1>2, NoFileSeq DEF SecretInit, FilesWritten
<1>4. \A r \in Resolvers : Genuine(sets, resolvers[r])
  <2>1. <<>> \in Seq(EnvEntry) /\ DOMAIN <<>> = {}
    BY EmptySeq
  <2> QED BY <2>1 DEF SecretInit, NotResolving, Genuine, Resolver
<1> QED BY <1>1, <1>2, <1>3, <1>4 DEF SecretInit, SecretInv, SetsTyped, SoloAlone, Readable

LEMMA BeginSetKeeps ==
  ASSUME SecretInv, NEW s \in Setters, NEW n \in SecretNames, NEW length \in 1..2, BeginSet(s, n, length)
  PROVE  SecretInv'
<1> DEFINE call == [name |-> n, length |-> length]
           m == Len(sets) + 1
<1>0. SetsTyped(sets, setters) /\ FilesWritten(sets, setters, records)
      /\ SoloAlone(sets, setters, records) /\ Readable(sets, setters, records, undisturbed)
      /\ DOMAIN resolvers = Resolvers /\ \A r \in Resolvers : Genuine(sets, resolvers[r])
  BY DEF SecretInv
<1>1. /\ setters[s].pc = "idle" /\ sets' = Append(sets, call) /\ records' = records /\ resolvers' = resolvers
      /\ undisturbed' = [undisturbed EXCEPT ![n] = 0]
      /\ setters' = [t \in Setters |->
           IF t = s THEN [pc |-> "encrypted", set |-> Len(sets) + 1, solo |-> Setting(n) = {}]
           ELSE IF t \in Setting(n) THEN [setters[t] EXCEPT !.solo = FALSE] ELSE setters[t]]
  BY DEF BeginSet
<1>2. sets \in Seq(SetCall) /\ setters \in [Setters -> Setter] /\ \A t \in Setters : setters[t].pc # "idle" => setters[t].set \in DOMAIN sets
  BY <1>0 DEF SetsTyped
<1>3. call \in SetCall /\ call.name = n
  BY DEF SetCall
<1> HIDE DEF call
<1>4. /\ sets' \in Seq(SetCall) /\ m \in Nat /\ m \in DOMAIN sets' /\ m \notin DOMAIN sets /\ sets'[m] = call
      /\ \A k \in DOMAIN sets : k \in DOMAIN sets' /\ sets'[k] = sets[k]
      /\ \A k \in DOMAIN sets' : k \in DOMAIN sets \/ k = m
  <2>1. Len(sets) \in Nat /\ DOMAIN sets = 1..Len(sets)
    BY <1>2, LenProperties
  <2>2. /\ sets' \in Seq(SetCall) /\ DOMAIN sets' = 1..m /\ sets'[m] = call
        /\ \A k \in 1..Len(sets) : sets'[k] = sets[k]
    BY <1>1, <1>2, <1>3, <2>1, AppendProperties, LenProperties
  <2> QED BY <2>1, <2>2
<1> HIDE DEF m
<1>5. ASSUME NEW t \in Setters, t # s
      PROVE  /\ setters'[t] \in Setter /\ setters'[t].pc = setters[t].pc /\ setters'[t].set = setters[t].set
             /\ setters'[t].solo => setters[t].solo
             /\ setters[t].pc # "idle" => setters[t].set \in DOMAIN sets /\ sets'[setters'[t].set].name = sets[setters[t].set].name
             /\ t \in Setting(n) => ~setters'[t].solo
  <2>1. setters[t] \in Setter
    BY <1>2
  <2>2. CASE t \in Setting(n)
    <3>1. setters'[t] = [setters[t] EXCEPT !.solo = FALSE]
      BY <1>1, <1>5, <2>2
    <3>2. setters'[t] \in Setter /\ setters'[t].pc = setters[t].pc /\ setters'[t].set = setters[t].set
      BY <2>1, <3>1 DEF Setter
    <3>3. ~setters'[t].solo
      BY <2>1, <3>1 DEF Setter
    <3> QED BY <1>2, <1>4, <3>2, <3>3
  <2>3. CASE t \notin Setting(n)
    <3>1. setters'[t] = setters[t]
      BY <1>1, <1>5, <2>3
    <3> QED BY <1>2, <1>4, <2>1, <2>3, <3>1
  <2> QED BY <2>2, <2>3
<1>6. /\ setters'[s] \in Setter /\ setters'[s].pc = "encrypted" /\ setters'[s].set = m
      /\ setters'[s].solo => Setting(n) = {}
  <2>1. setters'[s] = [pc |-> "encrypted", set |-> m, solo |-> Setting(n) = {}]
    BY <1>1 DEF m
  <2>2. setters'[s].solo => Setting(n) = {}
    <3> DEFINE b == Setting(n) = {}
    <3> HIDE DEF b
    <3>1. setters'[s].solo = b
      BY <2>1 DEF b
    <3>2. setters'[s].solo => b
      BY <3>1, Zenon
    <3> QED BY <3>2 DEF b
  <2>3. (Setting(n) = {}) \in BOOLEAN
    BY Zenon
  <2> QED BY <1>4, <2>1, <2>2, <2>3 DEF Setter
<1>7. SetsTyped(sets', setters')
  <2>1. DOMAIN setters' = Setters
    BY <1>1
  <2>2. \A t \in Setters : setters'[t] \in Setter
    BY <1>5, <1>6
  <2>3. \A t \in Setters : IF setters'[t].pc = "idle" THEN setters'[t].set = 0 ELSE setters'[t].set \in DOMAIN sets'
    BY <1>0, <1>2, <1>4, <1>5, <1>6 DEF SetsTyped
  <2>4. setters' \in [Setters -> Setter]
    BY <1>1, <2>1, <2>2
  <2> QED BY <1>4, <2>3, <2>4 DEF SetsTyped
<1>8. \A o \in SecretNames : \A k \in SetsOf(sets, o) : k \in SetsOf(sets', o) /\ Whole(sets', k) = Whole(sets, k)
  BY <1>4 DEF SetsOf, Whole
<1>9. FilesWritten(sets', setters', records')
  <2>1. \A o \in SecretNames : records[o] = NoFile \/ records[o] \in Seq(SetsOf(sets', o))
    BY <1>0, <1>8, WiderSeq DEF FilesWritten
  <2>2. \A t \in Setters : setters'[t].pc = "truncated" => records[sets'[setters'[t].set].name] # NoFile
    BY <1>0, <1>5, <1>6 DEF FilesWritten
  <2> QED BY <1>0, <1>1, <2>1, <2>2 DEF FilesWritten
<1>10. SoloAlone(sets', setters', records')
  <2>1. ASSUME NEW t \in Setters, setters'[t].pc # "idle" /\ setters'[t].solo
        PROVE  /\ \A u \in Setters : u # t /\ setters'[u].pc # "idle" => sets'[setters'[u].set].name # sets'[setters'[t].set].name
               /\ setters'[t].pc = "truncated" => records[sets'[setters'[t].set].name] = <<>>
    <3>1. CASE t = s
      <4>1. sets'[setters'[t].set].name = n
        BY <1>3, <1>4, <1>6, <3>1
      <4>2. Setting(n) = {}
        BY <1>6, <2>1, <3>1
      <4>3. \A u \in Setters : u # s /\ setters[u].pc # "idle" => sets[setters[u].set].name # n
        BY <4>2 DEF Setting
      <4> QED BY <1>5, <1>6, <3>1, <4>1, <4>3
    <3>2. CASE t # s
      <4>1. /\ setters[t].pc # "idle" /\ setters[t].solo /\ t \notin Setting(n) /\ setters'[t].pc = setters[t].pc
            /\ sets'[setters'[t].set].name = sets[setters[t].set].name
        BY <1>5, <2>1, <3>2
      <4>2. sets[setters[t].set].name # n
        BY <4>1 DEF Setting
      <4>3. /\ \A u \in Setters : u # t /\ setters[u].pc # "idle" => sets[setters[u].set].name # sets[setters[t].set].name
            /\ setters[t].pc = "truncated" => records[sets[setters[t].set].name] = <<>>
        BY <1>0, <4>1 DEF SoloAlone
      <4>4. sets'[setters'[s].set].name = n
        BY <1>3, <1>4, <1>6
      <4>5. ASSUME NEW u \in Setters, u # t, setters'[u].pc # "idle"
            PROVE  sets'[setters'[u].set].name # sets'[setters'[t].set].name
        <5>1. CASE u = s
          BY <4>1, <4>2, <4>4, <5>1
        <5>2. CASE u # s
          BY <1>5, <4>1, <4>3, <4>5, <5>2
        <5> QED BY <5>1, <5>2
      <4> QED BY <4>1, <4>3, <4>5
    <3> QED BY <3>1, <3>2
  <2> QED BY <1>1, <2>1 DEF SoloAlone
<1>11. Readable(sets', setters', records', undisturbed')
  <2>1. undisturbed \in [SecretNames -> Nat]
    BY <1>0 DEF Readable
  <2>2. undisturbed' \in [SecretNames -> Nat] /\ \A o \in SecretNames : undisturbed'[o] = IF o = n THEN 0 ELSE undisturbed[o]
    BY <1>1, <2>1
  <2>3. ASSUME NEW o \in SecretNames, undisturbed'[o] # 0
        PROVE  /\ undisturbed'[o] \in SetsOf(sets', o) /\ records'[o] = Whole(sets', undisturbed'[o])
               /\ \A t \in Setters : setters'[t].pc # "idle" => sets'[setters'[t].set].name # o
    <3>1. o # n /\ undisturbed'[o] = undisturbed[o] /\ undisturbed[o] # 0
      BY <2>2, <2>3
    <3>2. /\ undisturbed[o] \in SetsOf(sets, o) /\ records[o] = Whole(sets, undisturbed[o])
          /\ \A t \in Setters : setters[t].pc # "idle" => sets[setters[t].set].name # o
      BY <1>0, <3>1 DEF Readable
    <3>3. \A t \in Setters : setters'[t].pc # "idle" => sets'[setters'[t].set].name # o
      BY <1>3, <1>4, <1>5, <1>6, <3>1, <3>2
    <3> QED BY <1>1, <1>8, <3>1, <3>2, <3>3
  <2> QED BY <2>2, <2>3 DEF Readable
<1>12. \A r \in Resolvers : Genuine(sets', resolvers'[r])
  <2>1. TAKE r \in Resolvers
  <2>2. Genuine(sets, resolvers[r])
    BY <1>0
  <2>3. \A i \in DOMAIN resolvers[r].env : resolvers[r].env[i].name \in SecretNames
    <3>1. resolvers[r].env \in Seq(EnvEntry)
      BY <2>2 DEF Genuine, Resolver
    <3>2. \A i \in DOMAIN resolvers[r].env : resolvers[r].env[i] \in EnvEntry
      BY <3>1, ElementOfSeq, LenProperties
    <3> QED BY <3>2 DEF EnvEntry
  <2> QED BY <1>1, <1>8, <2>2, <2>3 DEF Genuine
<1> QED BY <1>0, <1>1, <1>7, <1>9, <1>10, <1>11, <1>12 DEF SecretInv

\* Facts of the invariant about a setter at work.
LEMMA SetterAtWork ==
  ASSUME SecretInv, NEW s \in Setters, setters[s].pc # "idle"
  PROVE  /\ sets \in Seq(SetCall) /\ setters \in [Setters -> Setter] /\ setters[s] \in Setter
         /\ setters[s].set \in DOMAIN sets /\ sets[setters[s].set] \in SetCall
         /\ sets[setters[s].set].name \in SecretNames
         /\ records \in [SecretNames -> Seq(Nat)] /\ undisturbed \in [SecretNames -> Nat]
         /\ undisturbed[sets[setters[s].set].name] = 0
<1>1. /\ sets \in Seq(SetCall) /\ setters \in [Setters -> Setter] /\ setters[s] \in Setter
      /\ setters[s].set \in DOMAIN sets
  BY DEF SecretInv, SetsTyped
<1>2. sets[setters[s].set] \in SetCall
  BY <1>1, ElementOfSeq, LenProperties
<1>3. sets[setters[s].set].name \in SecretNames
  BY <1>2 DEF SetCall
<1> QED BY <1>1, <1>2, <1>3 DEF SecretInv, FilesWritten, Readable

LEMMA TruncateKeeps ==
  ASSUME SecretInv, NEW s \in Setters, Truncate(s)
  PROVE  SecretInv'
<1> DEFINE n == sets[setters[s].set].name
<1>1. /\ setters[s].pc = "encrypted" /\ records' = [records EXCEPT ![n] = <<>>]
      /\ setters' = [setters EXCEPT ![s].pc = "truncated"]
      /\ sets' = sets /\ resolvers' = resolvers /\ undisturbed' = undisturbed
  BY DEF Truncate, Truncated
<1>2. /\ sets \in Seq(SetCall) /\ setters \in [Setters -> Setter] /\ setters[s] \in Setter
      /\ setters[s].set \in DOMAIN sets /\ n \in SecretNames
      /\ records \in [SecretNames -> Seq(Nat)] /\ undisturbed[n] = 0
  BY <1>1, SetterAtWork
<1>3. /\ setters' \in [Setters -> Setter] /\ \A t \in Setters : t # s => setters'[t] = setters[t]
      /\ setters'[s].pc = "truncated" /\ setters'[s].set = setters[s].set
  BY <1>1, <1>2 DEF Setter
<1>4. setters'[s].solo => setters[s].solo
  <2>1. setters'[s].solo = setters[s].solo
    BY <1>1, <1>2 DEF Setter
  <2> QED BY <2>1, Zenon
<1>5. PICK o : o = n
  OBVIOUS
<1>6. /\ records' \in [SecretNames -> Seq(Nat)] /\ records'[o] = <<>>
      /\ \A p \in SecretNames : p # o => records'[p] = records[p]
  BY <1>1, <1>2, <1>5, NoFileSeq
<1>7. SetsTyped(sets', setters')
  BY <1>1, <1>2, <1>3 DEF SecretInv, SetsTyped
<1>8. FilesWritten(sets', setters', records')
  <2>1. <<>> \in Seq(SetsOf(sets, o)) /\ NoFile # <<>>
    BY EmptySeq, NoFileSeq
  <2>2. \A p \in SecretNames : records'[p] = NoFile \/ records'[p] \in Seq(SetsOf(sets', p))
    BY <1>1, <1>6, <2>1 DEF SecretInv, FilesWritten
  <2>3. ASSUME NEW t \in Setters, setters'[t].pc = "truncated" PROVE records'[sets'[setters'[t].set].name] # NoFile
    <3>1. CASE t = s
      BY <1>1, <1>3, <1>5, <1>6, <2>1, <3>1
    <3>2. CASE t # s
      <4>1. setters[t].pc = "truncated" /\ setters'[t] = setters[t]
        BY <1>3, <2>3, <3>2
      <4>2. records[sets[setters[t].set].name] # NoFile /\ sets[setters[t].set].name \in SecretNames
        BY <4>1, SetterAtWork DEF SecretInv, FilesWritten
      <4> QED BY <1>1, <1>6, <2>1, <4>1, <4>2
    <3> QED BY <3>1, <3>2
  <2> QED BY <1>6, <2>2, <2>3 DEF FilesWritten
<1>9. SoloAlone(sets', setters', records')
  <2>1. ASSUME NEW t \in Setters, setters'[t].pc # "idle" /\ setters'[t].solo
        PROVE  /\ \A u \in Setters : u # t /\ setters'[u].pc # "idle" => sets[setters'[u].set].name # sets[setters'[t].set].name
               /\ setters'[t].pc = "truncated" => records'[sets[setters'[t].set].name] = <<>>
    <3>1. setters[t].pc # "idle" /\ setters[t].solo /\ setters'[t].set = setters[t].set
      BY <1>1, <1>3, <1>4, <2>1
    <3>2. /\ \A u \in Setters : u # t /\ setters[u].pc # "idle" => sets[setters[u].set].name # sets[setters[t].set].name
          /\ setters[t].pc = "truncated" => records[sets[setters[t].set].name] = <<>>
      BY <3>1 DEF SecretInv, SoloAlone
    <3>3. \A u \in Setters : u # t /\ setters'[u].pc # "idle" => sets[setters'[u].set].name # sets[setters'[t].set].name
      BY <1>1, <1>3, <3>1, <3>2
    <3>4. sets[setters[t].set].name \in SecretNames
      BY <3>1, SetterAtWork
    <3>5. setters'[t].pc = "truncated" => records'[sets[setters'[t].set].name] = <<>>
      <4>1. CASE t = s
        BY <1>5, <1>6, <3>1, <4>1
      <4>2. CASE t # s
        BY <1>3, <1>6, <3>1, <3>2, <3>4, <4>2
      <4> QED BY <4>1, <4>2
    <3> QED BY <3>3, <3>5
  <2> QED BY <1>1, <2>1 DEF SoloAlone
<1>10. Readable(sets', setters', records', undisturbed')
  <2>1. ASSUME NEW p \in SecretNames, undisturbed[p] # 0
        PROVE  /\ undisturbed[p] \in SetsOf(sets, p) /\ records'[p] = Whole(sets, undisturbed[p])
               /\ \A t \in Setters : setters'[t].pc # "idle" => sets[setters'[t].set].name # p
    <3>1. p # o
      BY <1>2, <1>5, <2>1
    <3>2. /\ undisturbed[p] \in SetsOf(sets, p) /\ records[p] = Whole(sets, undisturbed[p])
          /\ \A t \in Setters : setters[t].pc # "idle" => sets[setters[t].set].name # p
      BY <2>1 DEF SecretInv, Readable
    <3>3. \A t \in Setters : setters'[t].pc # "idle" => sets[setters'[t].set].name # p
      BY <1>1, <1>3, <3>2
    <3> QED BY <1>6, <3>1, <3>2, <3>3
  <2> QED BY <1>1, <2>1 DEF SecretInv, Readable
<1> QED BY <1>1, <1>7, <1>8, <1>9, <1>10 DEF SecretInv

\* What a set writes over the file of its secret is again made of blocks of sets of the secret.
LEMMA Overwritten ==
  ASSUME NEW ss \in Seq(SetCall), NEW k \in DOMAIN ss, NEW file \in Seq(SetsOf(ss, ss[k].name))
  PROVE  /\ Whole(ss, k) \o SubSeq(file, ss[k].length + 1, Len(file)) \in Seq(SetsOf(ss, ss[k].name))
         /\ Whole(ss, k) \o SubSeq(file, ss[k].length + 1, Len(file)) # NoFile
         /\ file = <<>> => Whole(ss, k) \o SubSeq(file, ss[k].length + 1, Len(file)) = Whole(ss, k)
<1> DEFINE S == SetsOf(ss, ss[k].name)
           w == Whole(ss, k)
           m == ss[k].length
           rest == SubSeq(file, m + 1, Len(file))
<1>1. k \in Nat /\ k # 0 /\ w \in Seq({k}) /\ Len(w) = m /\ w # <<>> /\ w[1] = k /\ m \in 1..2
  <2>1. ss[k] \in SetCall /\ k \in Nat /\ k # 0 /\ w \in Seq({k}) /\ Len(w) = m /\ w # <<>> /\ w[1] = k
    BY WholeRecord
  <2>2. m \in 1..2
    <3>1. ss[k].length \in {1, 2}
      BY <2>1 DEF SetCall
    <3> QED BY <3>1
  <2> QED BY <2>1, <2>2
<1>2. w \in Seq(S)
  <2>1. k \in S
    BY DEF SetsOf
  <2> HIDE DEF S, w
  <2> QED BY <1>1, <2>1, WiderSeq
<1>3. Len(file) \in Nat /\ DOMAIN file = 1..Len(file) /\ \A i \in 1..Len(file) : file[i] \in S
  BY LenProperties, ElementOfSeq
<1> HIDE DEF S, w, m
<1>4. rest \in Seq(S) /\ Len(rest) \in Nat
  <2>1. \A i \in (m + 1)..Len(file) : file[i] \in S
    BY <1>1, <1>3
  <2>2. rest \in Seq(S)
    BY <1>1, <1>3, <2>1, SubSeqProperties
  <2> QED BY <2>2, LenProperties
<1>5. w \o rest \in Seq(S) /\ (w \o rest)[1] = k
  <2>1. 1 \in 1..(Len(w) + Len(rest)) /\ 1 <= Len(w)
    BY <1>1, <1>4
  <2> QED BY <1>1, <1>2, <1>4, <2>1, ConcatProperties
<1>6. w \o rest # NoFile
  <2>1. NoFile[1] = 0
    BY DEF NoFile
  <2> HIDE DEF rest
  <2> QED BY <1>1, <1>5, <2>1
<1>7. ASSUME file = <<>> PROVE w \o rest = w
  <2>1. Len(file) = 0
    BY <1>7
  <2>2. rest = <<>>
    BY <1>1, <1>7, <2>1
  <2> HIDE DEF rest
  <2> QED BY <1>2, <2>2, ConcatEmptySeq
<1> QED BY <1>5, <1>6, <1>7 DEF S, w, m

LEMMA WriteRecordKeeps ==
  ASSUME SecretInv, NEW s \in Setters, WriteRecord(s)
  PROVE  SecretInv'
<1>0. PICK k, n : k = setters[s].set /\ n = sets[k].name
  OBVIOUS
<1> DEFINE file == Whole(sets, k) \o SubSeq(records[n], sets[k].length + 1, Len(records[n]))
<1>1. /\ setters[s].pc = "truncated" /\ records' = [records EXCEPT ![n] = file]
      /\ undisturbed' = IF setters[s].solo THEN [undisturbed EXCEPT ![n] = k] ELSE undisturbed
      /\ setters' = [setters EXCEPT ![s] = NotSetting]
      /\ sets' = sets /\ resolvers' = resolvers
  BY <1>0 DEF WriteRecord, Record, Whole
<1>2. /\ sets \in Seq(SetCall) /\ setters \in [Setters -> Setter] /\ setters[s] \in Setter
      /\ k \in DOMAIN sets /\ n \in SecretNames
      /\ records \in [SecretNames -> Seq(Nat)] /\ undisturbed \in [SecretNames -> Nat] /\ undisturbed[n] = 0
  BY <1>0, <1>1, SetterAtWork
<1>3. records[n] \in Seq(SetsOf(sets, n))
  BY <1>0, <1>1, <1>2 DEF SecretInv, FilesWritten
<1>4. file \in Seq(SetsOf(sets, n)) /\ file # NoFile /\ (records[n] = <<>> => file = Whole(sets, k))
  BY <1>0, <1>2, <1>3, Overwritten
<1> HIDE DEF file
<1>5. file \in Seq(Nat)
  <2>1. \A x \in SetsOf(sets, n) : x \in Nat
    BY <1>2, WholeRecord DEF SetsOf
  <2> QED BY <1>4, <2>1, WiderSeq
<1>6. /\ records' \in [SecretNames -> Seq(Nat)] /\ records'[n] = file
      /\ \A p \in SecretNames : p # n => records'[p] = records[p]
  BY <1>1, <1>2, <1>5
<1>7. setters' \in [Setters -> Setter] /\ setters'[s].pc = "idle" /\ setters'[s].set = 0 /\ \A t \in Setters : t # s => setters'[t] = setters[t]
  BY <1>1, <1>2 DEF NotSetting, Setter
<1>8. SetsTyped(sets', setters')
  BY <1>1, <1>2, <1>7 DEF SecretInv, SetsTyped
<1>9. FilesWritten(sets', setters', records')
  <2>1. \A p \in SecretNames : records'[p] = NoFile \/ records'[p] \in Seq(SetsOf(sets', p))
    BY <1>1, <1>4, <1>6 DEF SecretInv, FilesWritten
  <2>2. ASSUME NEW t \in Setters, setters'[t].pc = "truncated" PROVE records'[sets'[setters'[t].set].name] # NoFile
    <3>1. t # s /\ setters'[t] = setters[t] /\ setters[t].pc = "truncated"
      BY <1>7, <2>2
    <3>2. records[sets[setters[t].set].name] # NoFile /\ sets[setters[t].set].name \in SecretNames
      BY <3>1, SetterAtWork DEF SecretInv, FilesWritten
    <3> QED BY <1>1, <1>4, <1>6, <3>1, <3>2
  <2> QED BY <1>6, <2>1, <2>2 DEF FilesWritten
<1>10. SoloAlone(sets', setters', records')
  <2>1. ASSUME NEW t \in Setters, setters'[t].pc # "idle" /\ setters'[t].solo
        PROVE  /\ \A u \in Setters : u # t /\ setters'[u].pc # "idle" => sets[setters'[u].set].name # sets[setters'[t].set].name
               /\ setters'[t].pc = "truncated" => records'[sets[setters'[t].set].name] = <<>>
    <3>1. t # s /\ setters'[t] = setters[t] /\ setters[t].pc # "idle" /\ setters[t].solo
      BY <1>7, <2>1
    <3>2. /\ \A u \in Setters : u # t /\ setters[u].pc # "idle" => sets[setters[u].set].name # sets[setters[t].set].name
          /\ setters[t].pc = "truncated" => records[sets[setters[t].set].name] = <<>>
      BY <3>1 DEF SecretInv, SoloAlone
    <3>3. sets[setters[t].set].name # n /\ sets[setters[t].set].name \in SecretNames
      BY <1>0, <1>1, <3>1, <3>2, SetterAtWork
    <3> QED BY <1>6, <1>7, <3>1, <3>2, <3>3
  <2> QED BY <1>1, <2>1 DEF SoloAlone
<1>11. Readable(sets', setters', records', undisturbed')
  <2>1. /\ undisturbed' \in [SecretNames -> Nat] /\ \A p \in SecretNames : p # n => undisturbed'[p] = undisturbed[p]
        /\ undisturbed'[n] # 0 => setters[s].solo /\ undisturbed'[n] = k
    <3>1. k \in Nat
      BY <1>2, WholeRecord
    <3>2. CASE setters[s].solo
      BY <1>1, <1>2, <3>1, <3>2
    <3>3. CASE ~setters[s].solo
      BY <1>1, <1>2, <3>3
    <3> QED BY <3>2, <3>3
  <2>2. ASSUME NEW p \in SecretNames, undisturbed'[p] # 0
        PROVE  /\ undisturbed'[p] \in SetsOf(sets, p) /\ records'[p] = Whole(sets, undisturbed'[p])
               /\ \A t \in Setters : setters'[t].pc # "idle" => sets[setters'[t].set].name # p
    <3>1. CASE p = n
      <4>1. setters[s].solo /\ undisturbed'[p] = k
        BY <2>1, <2>2, <3>1
      <4>2. /\ \A t \in Setters : t # s /\ setters[t].pc # "idle" => sets[setters[t].set].name # n
            /\ records[n] = <<>>
        BY <1>0, <1>1, <4>1 DEF SecretInv, SoloAlone
      <4>3. k \in SetsOf(sets, n)
        BY <1>0, <1>2 DEF SetsOf
      <4> QED BY <1>4, <1>6, <1>7, <3>1, <4>1, <4>2, <4>3
    <3>2. CASE p # n
      <4>1. undisturbed'[p] = undisturbed[p] /\ records'[p] = records[p]
        BY <1>6, <2>1, <3>2
      <4>2. /\ undisturbed[p] \in SetsOf(sets, p) /\ records[p] = Whole(sets, undisturbed[p])
            /\ \A t \in Setters : setters[t].pc # "idle" => sets[setters[t].set].name # p
        BY <2>2, <4>1 DEF SecretInv, Readable
      <4> QED BY <1>7, <4>1, <4>2
    <3> QED BY <3>1, <3>2
  <2> QED BY <1>1, <2>1, <2>2 DEF Readable
<1> QED BY <1>1, <1>8, <1>9, <1>10, <1>11 DEF SecretInv

\* So is the file of a set that broke off after the first block.
LEMMA FirstOverwritten ==
  ASSUME NEW ss \in Seq(SetCall), NEW k \in DOMAIN ss, NEW file \in Seq(SetsOf(ss, ss[k].name))
  PROVE  /\ <<k>> \o SubSeq(file, 2, Len(file)) \in Seq(SetsOf(ss, ss[k].name))
         /\ <<k>> \o SubSeq(file, 2, Len(file)) # NoFile
<1> DEFINE S == SetsOf(ss, ss[k].name)
           w == <<k>>
           rest == SubSeq(file, 2, Len(file))
<1>1. k \in Nat /\ k # 0 /\ k \in S
  BY WholeRecord DEF SetsOf
<1>2. Len(file) \in Nat /\ DOMAIN file = 1..Len(file) /\ \A i \in 1..Len(file) : file[i] \in S
  BY LenProperties, ElementOfSeq
<1> HIDE DEF S
<1>3. w \in Seq(S) /\ Len(w) = 1 /\ w[1] = k
  BY <1>1
<1>4. rest \in Seq(S) /\ Len(rest) \in Nat
  <2>1. \A i \in 2..Len(file) : file[i] \in S
    BY <1>2
  <2>2. rest \in Seq(S)
    BY <1>2, <2>1, SubSeqProperties
  <2> QED BY <2>2, LenProperties
<1> HIDE DEF w, rest
<1>5. w \o rest \in Seq(S) /\ (w \o rest)[1] = k
  <2>1. 1 \in 1..(Len(w) + Len(rest)) /\ 1 <= Len(w)
    BY <1>3, <1>4
  <2> QED BY <1>3, <1>4, <2>1, ConcatProperties
<1>6. w \o rest # NoFile
  <2>1. NoFile[1] = 0
    BY DEF NoFile
  <2> QED BY <1>1, <1>5, <2>1
<1> QED BY <1>5, <1>6 DEF S, w, rest

LEMMA BreakOffKeeps ==
  ASSUME SecretInv, NEW s \in Setters, BreakOff(s)
  PROVE  SecretInv'
<1>0. PICK k, n : k = setters[s].set /\ n = sets[k].name
  OBVIOUS
<1> DEFINE file == <<k>> \o SubSeq(records[n], 2, Len(records[n]))
<1>1. /\ setters[s].pc = "truncated" /\ records' = [records EXCEPT ![n] = file]
      /\ undisturbed' = undisturbed
      /\ setters' = [setters EXCEPT ![s] = NotSetting]
      /\ sets' = sets /\ resolvers' = resolvers
  BY <1>0 DEF BreakOff
<1>2. /\ sets \in Seq(SetCall) /\ setters \in [Setters -> Setter] /\ setters[s] \in Setter
      /\ k \in DOMAIN sets /\ n \in SecretNames
      /\ records \in [SecretNames -> Seq(Nat)] /\ undisturbed \in [SecretNames -> Nat] /\ undisturbed[n] = 0
  BY <1>0, <1>1, SetterAtWork
<1>3. records[n] \in Seq(SetsOf(sets, n))
  BY <1>0, <1>1, <1>2 DEF SecretInv, FilesWritten
<1>4. file \in Seq(SetsOf(sets, n)) /\ file # NoFile
  BY <1>0, <1>2, <1>3, FirstOverwritten
<1> HIDE DEF file
<1>5. file \in Seq(Nat)
  <2>1. \A x \in SetsOf(sets, n) : x \in Nat
    BY <1>2, WholeRecord DEF SetsOf
  <2> QED BY <1>4, <2>1, WiderSeq
<1>6. /\ records' \in [SecretNames -> Seq(Nat)] /\ records'[n] = file
      /\ \A p \in SecretNames : p # n => records'[p] = records[p]
  BY <1>1, <1>2, <1>5
<1>7. setters' \in [Setters -> Setter] /\ setters'[s].pc = "idle" /\ setters'[s].set = 0 /\ \A t \in Setters : t # s => setters'[t] = setters[t]
  BY <1>1, <1>2 DEF NotSetting, Setter
<1>8. SetsTyped(sets', setters')
  BY <1>1, <1>2, <1>7 DEF SecretInv, SetsTyped
<1>9. FilesWritten(sets', setters', records')
  <2>1. \A p \in SecretNames : records'[p] = NoFile \/ records'[p] \in Seq(SetsOf(sets', p))
    BY <1>1, <1>4, <1>6 DEF SecretInv, FilesWritten
  <2>2. ASSUME NEW t \in Setters, setters'[t].pc = "truncated" PROVE records'[sets'[setters'[t].set].name] # NoFile
    <3>1. t # s /\ setters'[t] = setters[t] /\ setters[t].pc = "truncated"
      BY <1>7, <2>2
    <3>2. records[sets[setters[t].set].name] # NoFile /\ sets[setters[t].set].name \in SecretNames
      BY <3>1, SetterAtWork DEF SecretInv, FilesWritten
    <3> QED BY <1>1, <1>4, <1>6, <3>1, <3>2
  <2> QED BY <1>6, <2>1, <2>2 DEF FilesWritten
<1>10. SoloAlone(sets', setters', records')
  <2>1. ASSUME NEW t \in Setters, setters'[t].pc # "idle" /\ setters'[t].solo
        PROVE  /\ \A u \in Setters : u # t /\ setters'[u].pc # "idle" => sets[setters'[u].set].name # sets[setters'[t].set].name
               /\ setters'[t].pc = "truncated" => records'[sets[setters'[t].set].name] = <<>>
    <3>1. t # s /\ setters'[t] = setters[t] /\ setters[t].pc # "idle" /\ setters[t].solo
      BY <1>7, <2>1
    <3>2. /\ \A u \in Setters : u # t /\ setters[u].pc # "idle" => sets[setters[u].set].name # sets[setters[t].set].name
          /\ setters[t].pc = "truncated" => records[sets[setters[t].set].name] = <<>>
      BY <3>1 DEF SecretInv, SoloAlone
    <3>3. sets[setters[t].set].name # n /\ sets[setters[t].set].name \in SecretNames
      BY <1>0, <1>1, <3>1, <3>2, SetterAtWork
    <3> QED BY <1>6, <1>7, <3>1, <3>2, <3>3
  <2> QED BY <1>1, <2>1 DEF SoloAlone
<1>11. Readable(sets', setters', records', undisturbed')
  <2>1. ASSUME NEW p \in SecretNames, undisturbed[p] # 0
        PROVE  /\ undisturbed[p] \in SetsOf(sets, p) /\ records'[p] = Whole(sets, undisturbed[p])
               /\ \A t \in Setters : setters'[t].pc # "idle" => sets[setters'[t].set].name # p
    <3>1. p # n /\ records'[p] = records[p]
      BY <1>2, <1>6, <2>1
    <3>2. /\ undisturbed[p] \in SetsOf(sets, p) /\ records[p] = Whole(sets, undisturbed[p])
          /\ \A t \in Setters : setters[t].pc # "idle" => sets[setters[t].set].name # p
      BY <2>1 DEF SecretInv, Readable
    <3> QED BY <1>7, <3>1, <3>2
  <2> QED BY <1>1, <1>2, <2>1 DEF Readable
<1> QED BY <1>1, <1>8, <1>9, <1>10, <1>11 DEF SecretInv

LEMMA SetFailsKeeps ==
  ASSUME SecretInv, NEW s \in Setters, SetFails(s)
  PROVE  SecretInv'
<1>1. /\ setters[s].pc # "idle" /\ setters' = [setters EXCEPT ![s] = NotSetting]
      /\ records' = records /\ undisturbed' = undisturbed /\ sets' = sets /\ resolvers' = resolvers
  BY DEF SetFails
<1>2. setters \in [Setters -> Setter]
  BY DEF SecretInv, SetsTyped
<1>3. setters' \in [Setters -> Setter] /\ setters'[s].pc = "idle" /\ setters'[s].set = 0 /\ \A t \in Setters : t # s => setters'[t] = setters[t]
  BY <1>1, <1>2 DEF NotSetting, Setter
<1>4. SetsTyped(sets', setters')
  BY <1>1, <1>3 DEF SecretInv, SetsTyped
<1>5. FilesWritten(sets', setters', records')
  BY <1>1, <1>3 DEF SecretInv, FilesWritten
<1>6. SoloAlone(sets', setters', records')
  BY <1>1, <1>3 DEF SecretInv, SoloAlone
<1>7. Readable(sets', setters', records', undisturbed')
  BY <1>1, <1>3 DEF SecretInv, Readable
<1> QED BY <1>1, <1>4, <1>5, <1>6, <1>7 DEF SecretInv

LEMMA DeleteSecretKeeps ==
  ASSUME SecretInv, NEW n \in SecretNames, DeleteSecret(n)
  PROVE  SecretInv'
<1>1. /\ records' = [records EXCEPT ![n] = NoFile] /\ undisturbed' = [undisturbed EXCEPT ![n] = 0]
      /\ setters' = [s \in Setters |->
           IF s \in Setting(n) /\ setters[s].pc = "truncated" THEN [setters[s] EXCEPT !.pc = "unlinked"] ELSE setters[s]]
      /\ sets' = sets /\ resolvers' = resolvers
  BY DEF DeleteSecret
<1>2. /\ setters \in [Setters -> Setter] /\ records \in [SecretNames -> Seq(Nat)] /\ undisturbed \in [SecretNames -> Nat]
  BY DEF SecretInv, SetsTyped, FilesWritten, Readable
<1>3. /\ records' \in [SecretNames -> Seq(Nat)] /\ records'[n] = NoFile
      /\ \A p \in SecretNames : p # n => records'[p] = records[p]
  BY <1>1, <1>2, NoFileSeq
<1>4. ASSUME NEW t \in Setters
      PROVE  /\ setters'[t] \in Setter /\ setters'[t].set = setters[t].set
             /\ setters'[t].pc = "idle" <=> setters[t].pc = "idle"
             /\ setters'[t].solo => setters[t].solo
             /\ setters'[t].pc = "truncated" => setters[t].pc = "truncated" /\ sets[setters[t].set].name # n
  <2>1. setters[t] \in Setter
    BY <1>2
  <2>2. CASE t \in Setting(n) /\ setters[t].pc = "truncated"
    <3>1. setters'[t] = [setters[t] EXCEPT !.pc = "unlinked"]
      BY <1>1, <2>2
    <3>2. setters'[t] \in Setter /\ setters'[t].set = setters[t].set /\ setters'[t].pc = "unlinked"
      BY <2>1, <3>1 DEF Setter
    <3>3. setters'[t].solo => setters[t].solo
      <4>1. setters'[t].solo = setters[t].solo
        BY <2>1, <3>1 DEF Setter
      <4> QED BY <4>1, Zenon
    <3> QED BY <2>2, <3>2, <3>3
  <2>3. CASE ~(t \in Setting(n) /\ setters[t].pc = "truncated")
    <3>1. setters'[t] = setters[t]
      BY <1>1, <2>3
    <3> QED BY <2>1, <2>3, <3>1 DEF Setting
  <2> QED BY <2>2, <2>3
<1>5. setters' \in [Setters -> Setter]
  <2>1. DOMAIN setters' = Setters
    BY <1>1
  <2> QED BY <1>1, <1>4, <2>1
<1>6. SetsTyped(sets', setters')
  BY <1>1, <1>4, <1>5 DEF SecretInv, SetsTyped
<1>7. FilesWritten(sets', setters', records')
  <2>1. ASSUME NEW t \in Setters, setters'[t].pc = "truncated" PROVE records'[sets'[setters'[t].set].name] # NoFile
    <3>1. setters[t].pc = "truncated" /\ sets[setters[t].set].name # n /\ setters'[t].set = setters[t].set
      BY <1>4, <2>1
    <3>2. records[sets[setters[t].set].name] # NoFile /\ sets[setters[t].set].name \in SecretNames
      BY <3>1, SetterAtWork DEF SecretInv, FilesWritten
    <3> QED BY <1>1, <1>3, <3>1, <3>2
  <2>2. \A p \in SecretNames : records'[p] = NoFile \/ records'[p] \in Seq(SetsOf(sets', p))
    BY <1>1, <1>3 DEF SecretInv, FilesWritten
  <2> QED BY <1>3, <2>1, <2>2 DEF FilesWritten
<1>8. SoloAlone(sets', setters', records')
  <2>1. ASSUME NEW t \in Setters, setters'[t].pc # "idle" /\ setters'[t].solo
        PROVE  /\ \A u \in Setters : u # t /\ setters'[u].pc # "idle" => sets[setters'[u].set].name # sets[setters'[t].set].name
               /\ setters'[t].pc = "truncated" => records'[sets[setters'[t].set].name] = <<>>
    <3>1. setters[t].pc # "idle" /\ setters[t].solo /\ setters'[t].set = setters[t].set
      BY <1>4, <2>1
    <3>2. /\ \A u \in Setters : u # t /\ setters[u].pc # "idle" => sets[setters[u].set].name # sets[setters[t].set].name
          /\ setters[t].pc = "truncated" => records[sets[setters[t].set].name] = <<>>
      BY <3>1 DEF SecretInv, SoloAlone
    <3>3. sets[setters[t].set].name \in SecretNames
      BY <3>1, SetterAtWork
    <3>4. \A u \in Setters : u # t /\ setters'[u].pc # "idle" => sets[setters'[u].set].name # sets[setters'[t].set].name
      BY <1>4, <3>1, <3>2
    <3>5. setters'[t].pc = "truncated" => records'[sets[setters'[t].set].name] = <<>>
      BY <1>3, <1>4, <3>1, <3>2, <3>3
    <3> QED BY <3>4, <3>5
  <2> QED BY <1>1, <2>1 DEF SoloAlone
<1>9. Readable(sets', setters', records', undisturbed')
  <2>1. undisturbed' \in [SecretNames -> Nat] /\ \A p \in SecretNames : undisturbed'[p] = IF p = n THEN 0 ELSE undisturbed[p]
    BY <1>1, <1>2
  <2>2. ASSUME NEW p \in SecretNames, undisturbed'[p] # 0
        PROVE  /\ undisturbed'[p] \in SetsOf(sets, p) /\ records'[p] = Whole(sets, undisturbed'[p])
               /\ \A t \in Setters : setters'[t].pc # "idle" => sets[setters'[t].set].name # p
    <3>1. p # n /\ undisturbed'[p] = undisturbed[p] /\ records'[p] = records[p] /\ undisturbed[p] # 0
      BY <1>3, <2>1, <2>2
    <3>2. /\ undisturbed[p] \in SetsOf(sets, p) /\ records[p] = Whole(sets, undisturbed[p])
          /\ \A t \in Setters : setters[t].pc # "idle" => sets[setters[t].set].name # p
      BY <3>1 DEF SecretInv, Readable
    <3>3. \A t \in Setters : setters'[t].pc # "idle" => sets[setters'[t].set].name # p
      BY <1>4, <3>2
    <3> QED BY <3>1, <3>2, <3>3
  <2> QED BY <1>1, <2>1, <2>2 DEF Readable
<1> QED BY <1>1, <1>6, <1>7, <1>8, <1>9 DEF SecretInv

\* A resolution goes on; nothing else changes.
LEMMA ResolvingKeeps ==
  ASSUME SecretInv, NEW r \in Resolvers, NEW v, Genuine(sets, v), resolvers' = [resolvers EXCEPT ![r] = v],
         UNCHANGED <<records, sets, setters, undisturbed>>
  PROVE  SecretInv'
<1>1. DOMAIN resolvers = Resolvers /\ \A q \in Resolvers : Genuine(sets, resolvers[q])
  BY DEF SecretInv
<1>2. DOMAIN resolvers' = Resolvers /\ \A q \in Resolvers : resolvers'[q] = IF q = r THEN v ELSE resolvers[q]
  BY <1>1
<1>3. \A q \in Resolvers : Genuine(sets, resolvers'[q])
  BY <1>1, <1>2
<1> QED BY <1>2, <1>3 DEF SecretInv

LEMMA BeginResolveKeeps ==
  ASSUME SecretInv, NEW r \in Resolvers, NEW declared \in SUBSET SecretNames, BeginResolve(r, declared)
  PROVE  SecretInv'
<1> DEFINE v == [pc |-> "reading", left |-> {n \in declared : records[n] # NoFile}, env |-> <<>>]
<1>1. <<>> \in Seq(EnvEntry) /\ DOMAIN <<>> = {}
  BY EmptySeq
<1>2. v \in Resolver /\ DOMAIN v.env = {}
  BY <1>1 DEF Resolver
<1>3. Genuine(sets, v)
  BY <1>2 DEF Genuine
<1>4. resolvers' = [resolvers EXCEPT ![r] = v] /\ UNCHANGED <<records, sets, setters, undisturbed>>
  BY DEF BeginResolve
<1> HIDE DEF v
<1> QED BY <1>3, <1>4, ResolvingKeeps

LEMMA EndResolveKeeps ==
  ASSUME SecretInv, NEW r \in Resolvers, EndResolve(r)
  PROVE  SecretInv'
<1>1. <<>> \in Seq(EnvEntry) /\ DOMAIN <<>> = {}
  BY EmptySeq
<1>2. NotResolving \in Resolver /\ DOMAIN NotResolving.env = {}
  BY <1>1 DEF Resolver, NotResolving
<1>3. Genuine(sets, NotResolving)
  BY <1>2 DEF Genuine
<1> QED BY <1>3, ResolvingKeeps DEF EndResolve

LEMMA ReadSecretKeeps ==
  ASSUME SecretInv, NEW r \in Resolvers, NEW n \in SecretNames, ReadSecret(r, n)
  PROVE  SecretInv'
<1>0. PICK v : v = resolvers[r]
  OBVIOUS
<1>1. Genuine(sets, v) /\ v \in Resolver /\ v.env \in Seq(EnvEntry) /\ n \in v.left
  BY <1>0 DEF SecretInv, Genuine, Resolver, ReadSecret
<1>2. UNCHANGED <<records, sets, setters, undisturbed>>
  BY DEF ReadSecret
<1> DEFINE skipped == [v EXCEPT !.left = v.left \ {n}]
           ended == [v EXCEPT !.left = {}]
           found == [v EXCEPT !.left = v.left \ {n}, !.env = Append(v.env, [name |-> n, file |-> records[n]])]
<1>3. CASE records[n] = NoFile
  <2>1. skipped \in Resolver /\ skipped.env = v.env /\ skipped.left = v.left \ {n}
    BY <1>1 DEF Resolver
  <2>2. resolvers' = [resolvers EXCEPT ![r] = skipped]
    BY <1>0, <1>3 DEF ReadSecret
  <2> HIDE DEF skipped
  <2>3. Genuine(sets, skipped)
    BY <1>1, <2>1 DEF Genuine
  <2> QED BY <1>2, <2>2, <2>3, ResolvingKeeps
<1>4. CASE records[n] # NoFile /\ ~Decrypts(records[n])
  <2>1. ended \in Resolver /\ ended.env = v.env /\ ended.left = {}
    BY <1>1 DEF Resolver
  <2>2. resolvers' = [resolvers EXCEPT ![r] = ended]
    BY <1>0, <1>4 DEF ReadSecret
  <2> HIDE DEF ended
  <2>3. Genuine(sets, ended)
    BY <1>1, <2>1 DEF Genuine
  <2> QED BY <1>2, <2>2, <2>3, ResolvingKeeps
<1>5. CASE records[n] # NoFile /\ Decrypts(records[n])
  <2>1. records[n] \in Seq(SetsOf(sets, n)) /\ records[n] \in Seq(Nat)
    BY <1>5 DEF SecretInv, FilesWritten
  <2>2. records[n] # <<>> /\ records[n] = Whole(sets, records[n][1])
    BY <1>5 DEF Decrypts, Record, Whole
  <2>3. records[n][1] \in SetsOf(sets, n)
    BY <2>1, <2>2, ElementOfSeq, EmptySeq, LenProperties
  <2> DEFINE e == [name |-> n, file |-> records[n]]
  <2>4. e \in EnvEntry /\ e.name = n /\ \E k \in SetsOf(sets, n) : e.file = Whole(sets, k)
    BY <2>1, <2>2, <2>3 DEF EnvEntry
  <2> HIDE DEF e
  <2> DEFINE env == Append(v.env, e)
  <2>5. /\ env \in Seq(EnvEntry) /\ Len(v.env) \in Nat /\ DOMAIN v.env = 1..Len(v.env) /\ DOMAIN env = 1..(Len(v.env) + 1)
        /\ \A i \in 1..Len(v.env) : env[i] = v.env[i]
        /\ env[Len(v.env) + 1] = e
    BY <1>1, <2>4, AppendProperties, LenProperties
  <2>6. \A i \in DOMAIN env : i \in DOMAIN v.env \/ i = Len(v.env) + 1
    BY <2>5
  <2> HIDE DEF env
  <2> DEFINE w == [v EXCEPT !.left = v.left \ {n}, !.env = env]
  <2>7. w \in Resolver /\ w.env = env /\ w.left = v.left \ {n}
    BY <1>1, <2>5 DEF Resolver
  <2>8. resolvers' = [resolvers EXCEPT ![r] = w]
    BY <1>0, <1>5 DEF ReadSecret, env, e
  <2> HIDE DEF w
  <2>9. ASSUME NEW i \in DOMAIN env
        PROVE  env[i].name \notin w.left /\ \E k \in SetsOf(sets, env[i].name) : env[i].file = Whole(sets, k)
    <3>1. CASE i \in DOMAIN v.env
      BY <1>1, <2>5, <2>7, <3>1 DEF Genuine
    <3>2. CASE i = Len(v.env) + 1
      BY <2>4, <2>5, <2>7, <3>2
    <3> QED BY <2>6, <3>1, <3>2
  <2>10. \A i \in DOMAIN v.env : env[i].name # n
    BY <1>1, <2>5 DEF Genuine
  <2>11. ASSUME NEW i \in DOMAIN env, NEW j \in DOMAIN env, env[i].name = env[j].name PROVE i = j
    <3>1. CASE i \in DOMAIN v.env /\ j \in DOMAIN v.env
      BY <1>1, <2>5, <2>11, <3>1 DEF Genuine
    <3>2. CASE i \notin DOMAIN v.env \/ j \notin DOMAIN v.env
      BY <2>4, <2>5, <2>6, <2>10, <2>11, <3>2
    <3> QED BY <3>1, <3>2
  <2>12. Genuine(sets, w)
    BY <2>7, <2>9, <2>11 DEF Genuine
  <2> QED BY <1>2, <2>8, <2>12, ResolvingKeeps
<1> QED BY <1>3, <1>4, <1>5

LEMMA StepSecrets == SecretInv /\ [SecretNext]_secretVars => SecretInv'
<1> SUFFICES ASSUME SecretInv, [SecretNext]_secretVars PROVE SecretInv'
  OBVIOUS
<1>1. CASE UNCHANGED secretVars
  BY <1>1 DEF secretVars, SecretInv
<1> QED BY <1>1, BeginSetKeeps, TruncateKeeps, WriteRecordKeeps, BreakOffKeeps, SetFailsKeeps, DeleteSecretKeeps,
           BeginResolveKeeps, ReadSecretKeeps, EndResolveKeeps DEF SecretNext

\* What an invocation is given of the secret store is what some set wrote under that name, and
\* a set that nothing overlapped can be read back, for every number of secrets, of setters that
\* overlap and crash, and of resolutions (SecretStore.set, delete, get and resolveSecrets).
THEOREM SecretsAreSafe == SecretSpec => []SecretsSafe
<1>1. SecretInv => SecretsSafe
  <2> SUFFICES ASSUME SecretInv PROVE SecretsSafe
    OBVIOUS
  <2>1. sets \in Seq(SetCall) /\ Len(sets) \in Nat /\ DOMAIN sets = 1..Len(sets) /\ setters \in [Setters -> Setter]
    BY LenProperties DEF SecretInv, SetsTyped
  <2>2. \A n \in SecretNames : records[n] = NoFile \/ records[n] \in Seq(DOMAIN sets)
    <3>1. \A n \in SecretNames : \A k \in SetsOf(sets, n) : k \in DOMAIN sets
      BY DEF SetsOf
    <3> QED BY <3>1, WiderSeq DEF SecretInv, FilesWritten
  <2>3. SecretTypeOK
    <3>1. \A s \in Setters : setters[s].pc \in {"idle", "encrypted", "truncated", "unlinked"}
      BY <2>1 DEF Setter
    <3>2. \A r \in Resolvers : \A i, j \in DOMAIN resolvers[r].env : resolvers[r].env[i].name = resolvers[r].env[j].name => i = j
      BY DEF SecretInv, Genuine
    <3>3. \A s \in Setters : setters[s].set \in 0..Len(sets)
      BY <2>1 DEF SecretInv, SetsTyped
    <3> QED BY <2>2, <3>1, <3>2, <3>3 DEF SecretTypeOK
  <2>4. SecretsGenuine
    BY DEF SecretInv, Genuine, SetsOf, SecretsGenuine, Record, Whole
  <2>5. SoloSetReadable
    BY DEF SecretInv, Readable, SoloSetReadable, Record, Whole
  <2> QED BY <2>3, <2>4, <2>5 DEF SecretsSafe
<1> QED BY <1>1, InitSecrets, StepSecrets, PTL DEF SecretSpec

----------------------------------------------------------------------------
(* The SDK helpers: the inductive invariant.  h is the helper in use, vd    *)
(* says whether the binding tells versions, e is the entry of the key and q *)
(* a call.                                                                  *)

Mutating == {"reading", "getting", "updating", "sleeping"}

\* What mutate passes to check(), for an entry of version v that its attempt saw.
Expected(vd, v) == IF vd THEN v ELSE IF v > 0 THEN 1 ELSE 0

\* An attempt of mutate that is about to commit expects no newer version than it saw; while
\* the key was not deleted it only grew since; while nobody wrote it is as it was seen.
AttemptOK(vd, e, q) ==
  /\ q.expected <= q.seen.version
  /\ ~q.removed => q.seen.version <= e.version /\ (q.seen.version = e.version => q.seen.value = e.value)
  /\ ~q.raced => e = q.seen /\ q.expected = Expected(vd, q.seen.version)

CallOK(h, vd, e, q) ==
  /\ q \in Call
  /\ q.pc \in Mutating \cup {"conflict"} => h = "mutate"
  /\ q.pc = "marking" => h = "idempotency"
  /\ q.pc = "acting" => h # "mutate"
  /\ q.pc \in Mutating => q.attempt <= MaxRetries
  /\ q.pc = "getting" /\ ~q.raced => e.version = 0
  /\ q.pc = "updating" => AttemptOK(vd, e, q)
  /\ q.pc = "conflict" /\ ~q.raced => ~vd /\ q.seen.version > 1

CallsOK(h, vd, e, cs) == cs \in [SdkCallers -> Call] /\ \A c \in SdkCallers : CallOK(h, vd, e, cs[c])

\* A marker, a call about to write one and an answer all come after the action.
MarkersOK(h, e, cs, done, ans) ==
  h = "idempotency" /\ (e # Absent \/ ans \/ \E c \in SdkCallers : cs[c].pc = "marking") => done

\* As long as calls did not overlap: the count is right, at most one call is under way, and the
\* state it has read is the one stored.
CountOK(h, e, cs, n, ov) ==
  h = "breaker" /\ ~ov =>
    /\ e.value = n /\ (e.opened <=> n >= TripThreshold)
    /\ \A c \in SdkCallers : cs[c].pc # "idle" =>
         /\ cs[c].seen.value = e.value /\ (cs[c].seen.opened <=> e.opened)
         /\ \A d \in SdkCallers : cs[d].pc # "idle" => d = c

HelperInv ==
  /\ helper \in Helpers /\ versioned \in BOOLEAN /\ entry \in Entry
  /\ completed \in BOOLEAN /\ answered \in BOOLEAN /\ streak \in Nat /\ overlapped \in BOOLEAN
  /\ CallsOK(helper, versioned, entry, calls)
  /\ MarkersOK(helper, entry, calls, completed, answered)
  /\ CountOK(helper, entry, calls, streak, overlapped)

----------------------------------------------------------------------------
LEMMA AbsentFields ==
  /\ Absent \in Entry /\ Absent.value = 0 /\ Absent.version = 0 /\ Absent.open = 0
  /\ ~Absent.opened
BY SdkConstants DEF Absent, Entry

LEMMA NoCallOK ==
  ASSUME NEW h, NEW vd, NEW e
  PROVE  CallOK(h, vd, e, NoCall) /\ NoCall.pc = "idle" /\ NoCall \in Call
<1>1. NoCall \in Call /\ NoCall.pc = "idle"
  BY AbsentFields, SdkConstants DEF NoCall, Call
<1> QED BY <1>1 DEF CallOK, Mutating

LEMMA LearnsFields ==
  ASSUME NEW q \in Call, NEW gone \in BOOLEAN
  PROVE  /\ Learns(q, gone) \in Call /\ Learns(q, gone).pc = q.pc /\ Learns(q, gone).seen = q.seen
         /\ Learns(q, gone).expected = q.expected /\ Learns(q, gone).attempt = q.attempt
         /\ q.pc # "idle" => Learns(q, gone).raced
         /\ ~Learns(q, gone).removed /\ q.pc # "idle" => ~q.removed /\ ~gone
<1>1. CASE q.pc = "idle"
  BY <1>1 DEF Learns
<1>2. CASE q.pc # "idle"
  <2> DEFINE g == q.removed \/ gone
  <2>1. g \in BOOLEAN
    OBVIOUS
  <2>2. Learns(q, gone) = [q EXCEPT !.raced = TRUE, !.removed = g]
    BY <1>2 DEF Learns
  <2> HIDE DEF g
  <2>3. /\ Learns(q, gone) \in Call /\ Learns(q, gone).pc = q.pc /\ Learns(q, gone).seen = q.seen
        /\ Learns(q, gone).expected = q.expected /\ Learns(q, gone).attempt = q.attempt
        /\ Learns(q, gone).raced
    BY <2>1, <2>2 DEF Call
  <2>4. Learns(q, gone).removed = g
    BY <2>2 DEF Call
  <2>5. ~Learns(q, gone).removed => ~g
    BY <2>4, Zenon
  <2>6. ~Learns(q, gone).removed => ~q.removed /\ ~gone
    BY <2>5, Zenon DEF g
  <2> QED BY <1>2, <2>3, <2>6
<1> QED BY <1>1, <1>2

\* The key is written or deleted, and who is under way learns it.
LEMMA LearnsKeeps ==
  ASSUME NEW h, NEW vd, NEW e \in Entry, NEW e2 \in Entry, NEW q, NEW gone \in BOOLEAN,
         CallOK(h, vd, e, q), gone \/ e2.version = e.version + 1
  PROVE  CallOK(h, vd, e2, Learns(q, gone))
<1> DEFINE l == Learns(q, gone)
<1>1. /\ q \in Call /\ l \in Call /\ l.pc = q.pc /\ l.seen = q.seen /\ l.expected = q.expected /\ l.attempt = q.attempt
      /\ q.pc # "idle" => l.raced
      /\ ~l.removed /\ q.pc # "idle" => ~q.removed /\ ~gone
  BY LearnsFields DEF CallOK
<1> HIDE DEF l
<1>2. ASSUME l.pc = "updating" PROVE AttemptOK(vd, e2, l)
  <2>1. q.expected <= q.seen.version /\ (~q.removed => q.seen.version <= e.version)
    BY <1>1, <1>2 DEF CallOK, AttemptOK
  <2>2. e.version \in Nat /\ q.seen.version \in Nat
    BY <1>1 DEF Entry, Call
  <2>3. ~l.removed => l.seen.version <= e2.version /\ l.seen.version # e2.version
    BY <1>1, <1>2, <2>1, <2>2
  <2> QED BY <1>1, <1>2, <2>1, <2>3 DEF AttemptOK
<1> QED BY <1>1, <1>2 DEF CallOK, Mutating, l

LEMMA ToldKeeps ==
  ASSUME NEW gone \in BOOLEAN, NEW e2 \in Entry, HelperInv, gone \/ e2.version = entry.version + 1
  PROVE  CallsOK(helper, versioned, e2, Told(gone)) /\ \A c \in SdkCallers : Told(gone)[c].pc = calls[c].pc /\ Told(gone)[c].seen = calls[c].seen
<1>1. DOMAIN Told(gone) = SdkCallers /\ \A c \in SdkCallers : Told(gone)[c] = Learns(calls[c], gone)
  BY DEF Told
<1>2. \A c \in SdkCallers : CallOK(helper, versioned, entry, calls[c])
  BY DEF HelperInv, CallsOK
<1>3. \A c \in SdkCallers : CallOK(helper, versioned, e2, Told(gone)[c])
  BY <1>1, <1>2, LearnsKeeps DEF HelperInv
<1>4. \A c \in SdkCallers : Told(gone)[c] \in Call
  BY <1>3 DEF CallOK
<1>5. Told(gone) \in [SdkCallers -> Call]
  BY <1>4 DEF Told
<1> QED BY <1>1, <1>2, <1>3, <1>5, LearnsFields DEF CallsOK, CallOK

\* A call other than of mutate does not care for the entry.
LEMMA OthersKeep ==
  ASSUME NEW h, NEW vd, NEW e, NEW e2, NEW q, CallOK(h, vd, e, q), h # "mutate"
  PROVE  CallOK(h, vd, e2, q)
BY DEF CallOK, Mutating

\* One call changes.
LEMMA OneCall ==
  ASSUME NEW h, NEW vd, NEW e, NEW cs, NEW c \in SdkCallers, NEW q, CallsOK(h, vd, e, cs), CallOK(h, vd, e, q)
  PROVE  CallsOK(h, vd, e, [cs EXCEPT ![c] = q])
<1>1. cs \in [SdkCallers -> Call] /\ q \in Call
  BY DEF CallsOK, CallOK
<1> QED BY <1>1 DEF CallsOK

LEMMA StoredFields ==
  ASSUME NEW v \in Nat, HelperInv, Stored(v).version <= MaxSdkWrites, Stored(v).value <= MaxSdkWrites
  PROVE  Stored(v) \in Entry /\ Stored(v).version = entry.version + 1 /\ Stored(v).value = v /\ Stored(v) # Absent
<1>1. entry.version \in Nat
  BY DEF HelperInv, Entry
<1>3. Stored(v).version = entry.version + 1 /\ Stored(v).value = v /\ Stored(v).opened = FALSE /\ Stored(v).open = 0
  BY DEF Stored, Absent
<1>4. Stored(v) \in Entry
  <2>1. entry.version + 1 \in 0..MaxSdkWrites /\ v \in 0..MaxSdkWrites
    BY <1>1, <1>3, SdkConstants
  <2> QED BY <2>1, AbsentFields DEF Stored, Entry
<1>5. Stored(v) # Absent
  BY <1>1, <1>3, AbsentFields
<1> QED BY <1>3, <1>4, <1>5

LEMMA InitHelpers == SdkInit => HelperInv
<1> SUFFICES ASSUME SdkInit PROVE HelperInv
  OBVIOUS
<1>1. entry = Absent /\ DOMAIN calls = SdkCallers /\ \A c \in SdkCallers : calls[c] = NoCall /\ calls[c].pc = "idle"
  BY NoCallOK DEF SdkInit
<1>2. CallsOK(helper, versioned, entry, calls)
  <2>1. calls \in [SdkCallers -> Call]
    BY NoCallOK DEF SdkInit
  <2> QED BY <1>1, <2>1, NoCallOK DEF CallsOK
<1>3. MarkersOK(helper, entry, calls, completed, answered)
  BY <1>1 DEF SdkInit, MarkersOK
<1>4. CountOK(helper, entry, calls, streak, overlapped)
  BY <1>1, AbsentFields, SdkConstants DEF SdkInit, CountOK
<1> QED BY <1>1, <1>2, <1>3, <1>4, AbsentFields DEF SdkInit, HelperInv

\* The commits of a step stay within the bounds.
Bounded == entry'.version <= MaxSdkWrites /\ entry'.value <= MaxSdkWrites

\* A step of mutate on the call c, which leaves the key alone.
LEMMA MutateStep ==
  ASSUME HelperInv, helper = "mutate", NEW c \in SdkCallers, NEW q, CallOK(helper, versioned, entry, q),
         calls' = [calls EXCEPT ![c] = q],
         UNCHANGED <<helper, versioned, entry, completed, answered, streak, overlapped>>
  PROVE  HelperInv'
<1>1. CallsOK(helper, versioned, entry, calls')
  BY OneCall DEF HelperInv
<1> QED BY <1>1 DEF HelperInv, MarkersOK, CountOK

LEMMA CallMutateKeeps ==
  ASSUME HelperInv, NEW c \in SdkCallers, CallMutate(c)
  PROVE  HelperInv'
<1> DEFINE q == [NoCall EXCEPT !.pc = "reading"]
<1>1. q \in Call /\ q.pc = "reading" /\ q.attempt = 0
  BY NoCallOK DEF NoCall, Call
<1>2. helper = "mutate" /\ calls' = [calls EXCEPT ![c] = q] /\ UNCHANGED <<helper, versioned, entry, completed, answered, streak, overlapped>>
  BY DEF CallMutate
<1> HIDE DEF q
<1>3. CallOK(helper, versioned, entry, q)
  BY <1>1, <1>2, SdkConstants DEF CallOK, Mutating
<1> QED BY <1>2, <1>3, MutateStep

LEMMA MutateListKeeps ==
  ASSUME HelperInv, NEW c \in SdkCallers, MutateList(c)
  PROVE  HelperInv'
<1>1. CallOK(helper, versioned, entry, calls[c]) /\ calls[c] \in Call /\ calls[c].pc = "reading" /\ helper = "mutate"
      /\ calls[c].attempt <= MaxRetries /\ entry \in Entry /\ versioned \in BOOLEAN
  BY DEF HelperInv, CallsOK, CallOK, MutateList, Mutating
<1>2. entry.version \in 0..MaxSdkWrites /\ entry.version \in Nat /\ entry.value \in Nat
  BY <1>1 DEF Entry
<1>3. /\ ListedVersion \in 0..MaxSdkWrites /\ ListedVersion \in Nat
      /\ entry.version > 0 => ListedVersion <= entry.version /\ ListedVersion = Expected(versioned, entry.version)
  BY <1>2, SdkConstants DEF ListedVersion, Expected
<1> DEFINE q == [calls[c] EXCEPT !.pc = IF entry.version > 0 THEN "updating" ELSE "getting",
                   !.seen = entry, !.expected = ListedVersion, !.removed = FALSE, !.raced = FALSE]
<1>4. calls' = [calls EXCEPT ![c] = q] /\ UNCHANGED <<helper, versioned, entry, completed, answered, streak, overlapped>>
  BY DEF MutateList
<1>5. /\ q \in Call /\ q.pc = (IF entry.version > 0 THEN "updating" ELSE "getting") /\ q.seen = entry
      /\ q.expected = ListedVersion /\ q.attempt = calls[c].attempt
  BY <1>1, <1>3 DEF Call
<1> HIDE DEF q
<1>6. CallOK(helper, versioned, entry, q)
  <2>1. CASE entry.version > 0
    <3>1. AttemptOK(versioned, entry, q)
      BY <1>2, <1>3, <1>5, <2>1 DEF AttemptOK
    <3> QED BY <1>1, <1>5, <2>1, <3>1 DEF CallOK, Mutating
  <2>2. CASE ~(entry.version > 0)
    <3>1. entry.version = 0 /\ q.pc = "getting"
      BY <1>2, <1>5, <2>2
    <3> QED BY <1>1, <1>5, <3>1 DEF CallOK, Mutating
  <2> QED BY <2>1, <2>2
<1> QED BY <1>1, <1>4, <1>6, MutateStep

LEMMA MutateGetKeeps ==
  ASSUME HelperInv, NEW c \in SdkCallers, MutateGet(c)
  PROVE  HelperInv'
<1>1. CallOK(helper, versioned, entry, calls[c]) /\ calls[c] \in Call /\ calls[c].pc = "getting" /\ helper = "mutate"
      /\ calls[c].attempt <= MaxRetries /\ entry \in Entry /\ versioned \in BOOLEAN
      /\ (~calls[c].raced => entry.version = 0)
  BY DEF HelperInv, CallsOK, CallOK, MutateGet, Mutating
<1>2. entry.version \in 0..MaxSdkWrites /\ entry.version \in Nat /\ entry.value \in Nat
  BY <1>1 DEF Entry
<1> DEFINE x == IF entry.version > 0 THEN 1 ELSE 0
           q == [calls[c] EXCEPT !.pc = "updating", !.seen = entry, !.expected = x, !.removed = FALSE]
<1>3. x \in 0..MaxSdkWrites /\ x \in Nat /\ x <= entry.version /\ (entry.version = 0 => x = Expected(versioned, entry.version))
  BY <1>2, SdkConstants DEF Expected
<1>4. calls' = [calls EXCEPT ![c] = q] /\ UNCHANGED <<helper, versioned, entry, completed, answered, streak, overlapped>>
  BY DEF MutateGet
<1> HIDE DEF x
<1>5. q \in Call /\ q.pc = "updating" /\ q.seen = entry /\ q.expected = x /\ q.attempt = calls[c].attempt
  BY <1>1, <1>3 DEF Call
<1>6. ~q.raced => ~calls[c].raced
  <2>1. q.raced = calls[c].raced
    BY <1>1 DEF Call
  <2> QED BY <2>1, Zenon
<1> HIDE DEF q
<1>7. AttemptOK(versioned, entry, q)
  BY <1>1, <1>2, <1>3, <1>5, <1>6 DEF AttemptOK
<1>8. CallOK(helper, versioned, entry, q)
  BY <1>1, <1>5, <1>7 DEF CallOK, Mutating
<1> QED BY <1>1, <1>4, <1>8, MutateStep

LEMMA MutateConflictsKeeps ==
  ASSUME HelperInv, NEW c \in SdkCallers, MutateConflicts(c)
  PROVE  HelperInv'
<1>1. CallOK(helper, versioned, entry, calls[c]) /\ calls[c] \in Call /\ calls[c].pc = "updating" /\ helper = "mutate"
      /\ calls[c].attempt <= MaxRetries /\ entry \in Entry /\ versioned \in BOOLEAN
      /\ AttemptOK(versioned, entry, calls[c]) /\ entry.version # calls[c].expected
  BY DEF HelperInv, CallsOK, CallOK, MutateConflicts, Mutating
<1>2. calls[c].attempt \in Nat /\ calls[c].attempt + 1 \in 0..MaxRetries + 1 /\ entry.version \in Nat
  BY <1>1, SdkConstants DEF Call, Entry
<1> DEFINE q == [calls[c] EXCEPT !.attempt = calls[c].attempt + 1,
                   !.pc = IF calls[c].attempt + 1 > MaxRetries THEN "conflict" ELSE "sleeping"]
<1>3. calls' = [calls EXCEPT ![c] = q] /\ UNCHANGED <<helper, versioned, entry, completed, answered, streak, overlapped>>
  BY DEF MutateConflicts
<1>4. /\ q \in Call /\ q.pc = (IF calls[c].attempt + 1 > MaxRetries THEN "conflict" ELSE "sleeping")
      /\ q.attempt = calls[c].attempt + 1 /\ q.seen = calls[c].seen
  BY <1>1, <1>2 DEF Call
<1>5. ~q.raced => ~calls[c].raced
  <2>1. q.raced = calls[c].raced
    BY <1>1 DEF Call
  <2> QED BY <2>1, Zenon
<1> HIDE DEF q
<1>6. ~q.raced => ~versioned /\ q.seen.version > 1
  <2>1. ASSUME ~q.raced PROVE ~versioned /\ calls[c].seen.version > 1
    <3>1. entry = calls[c].seen /\ calls[c].expected = Expected(versioned, calls[c].seen.version)
      BY <1>1, <1>5, <2>1 DEF AttemptOK
    <3> QED BY <1>1, <1>2, <3>1 DEF Expected
  <2> QED BY <1>4, <2>1
<1>7. CallOK(helper, versioned, entry, q)
  BY <1>1, <1>2, <1>4, <1>6, SdkConstants DEF CallOK, Mutating
<1> QED BY <1>1, <1>3, <1>7, MutateStep

LEMMA MutateGoesOnKeeps ==
  ASSUME HelperInv, NEW c \in SdkCallers, MutateGoesOn(c)
  PROVE  HelperInv'
<1>1. CallOK(helper, versioned, entry, calls[c]) /\ calls[c] \in Call /\ calls[c].pc \in {"sleeping", "conflict"} /\ helper = "mutate"
      /\ UNCHANGED <<helper, versioned, entry, completed, answered, streak, overlapped>>
  BY DEF HelperInv, CallsOK, CallOK, MutateGoesOn, Mutating
<1>2. CASE calls[c].pc = "conflict"
  <2>1. calls' = [calls EXCEPT ![c] = NoCall]
    BY <1>2 DEF MutateGoesOn
  <2> QED BY <1>1, <2>1, MutateStep, NoCallOK
<1>3. CASE calls[c].pc = "sleeping"
  <2> DEFINE q == [calls[c] EXCEPT !.pc = "reading"]
  <2>1. calls' = [calls EXCEPT ![c] = q]
    BY <1>3 DEF MutateGoesOn
  <2>2. q \in Call /\ q.pc = "reading" /\ q.attempt = calls[c].attempt
    BY <1>1 DEF Call
  <2> HIDE DEF q
  <2>3. CallOK(helper, versioned, entry, q)
    BY <1>1, <1>3, <2>2 DEF CallOK, Mutating
  <2> QED BY <1>1, <2>1, <2>3, MutateStep
<1> QED BY <1>1, <1>2, <1>3

\* The key is written under mutate.
LEMMA MutateWrites ==
  ASSUME HelperInv, helper = "mutate", NEW cs, CallsOK(helper, versioned, entry', cs), calls' = cs, entry' \in Entry,
         UNCHANGED <<helper, versioned, completed, answered, streak, overlapped>>
  PROVE  HelperInv'
BY DEF HelperInv, MarkersOK, CountOK

LEMMA SdkSetKeeps ==
  ASSUME HelperInv, SdkSet, Bounded
  PROVE  HelperInv'
<1>1. helper = "mutate" /\ entry' = Stored(0) /\ calls' = Told(FALSE) /\ UNCHANGED <<helper, versioned, completed, answered, streak, overlapped>>
  BY DEF SdkSet
<1>2. entry' \in Entry /\ entry'.version = entry.version + 1
  BY <1>1, StoredFields DEF Bounded
<1>3. CallsOK(helper, versioned, entry', Told(FALSE))
  BY <1>2, ToldKeeps
<1> QED BY <1>1, <1>2, <1>3, MutateWrites

LEMMA MutateCommitsKeeps ==
  ASSUME HelperInv, NEW c \in SdkCallers, MutateCommits(c), Bounded
  PROVE  HelperInv'
<1>1. /\ helper = "mutate" /\ calls[c].seen.value \in Nat
      /\ entry' = Stored(calls[c].seen.value + 1) /\ calls' = [Told(FALSE) EXCEPT ![c] = NoCall]
      /\ UNCHANGED <<helper, versioned, completed, answered, streak, overlapped>>
  BY DEF HelperInv, CallsOK, CallOK, MutateCommits, Mutating, Call, Entry
<1>2. entry' \in Entry /\ entry'.version = entry.version + 1
  BY <1>1, StoredFields DEF Bounded
<1>3. CallsOK(helper, versioned, entry', Told(FALSE))
  BY <1>2, ToldKeeps
<1>4. CallsOK(helper, versioned, entry', [Told(FALSE) EXCEPT ![c] = NoCall])
  BY <1>3, NoCallOK, OneCall
<1> QED BY <1>1, <1>2, <1>4, MutateWrites

LEMMA SdkExpireKeeps ==
  ASSUME HelperInv, SdkExpire
  PROVE  HelperInv'
<1>1. /\ entry' = Absent /\ calls' = Told(TRUE) /\ streak' = 0 /\ overlapped' = (overlapped \/ Running # {})
      /\ UNCHANGED <<helper, versioned, completed, answered>>
  BY DEF SdkExpire
<1>2. entry' \in Entry
  BY <1>1, AbsentFields
<1>3. CallsOK(helper, versioned, entry', calls') /\ \A c \in SdkCallers : calls'[c].pc = calls[c].pc
  BY <1>1, <1>2, ToldKeeps
<1>4. MarkersOK(helper, entry', calls', completed, answered)
  BY <1>1, <1>3 DEF HelperInv, MarkersOK
<1>5. CountOK(helper, entry', calls', streak', overlapped')
  <2> SUFFICES ASSUME helper = "breaker", ~overlapped' PROVE CountOK(helper, entry', calls', streak', overlapped')
    BY DEF CountOK
  <2>1. Running = {}
    BY <1>1
  <2>2. \A c \in SdkCallers : calls[c].pc = "idle"
    <3>1. \A c \in SdkCallers : calls[c].pc # "acting"
      BY <2>1 DEF Running
    <3> QED BY <3>1 DEF HelperInv, CallsOK, CallOK, Mutating, Call
  <2>3. \A c \in SdkCallers : calls'[c].pc = "idle"
    BY <1>3, <2>2
  <2>4. entry'.value = streak' /\ ~entry'.opened /\ ~(streak' >= TripThreshold)
    BY <1>1, AbsentFields, SdkConstants
  <2> QED BY <2>3, <2>4 DEF CountOK
<1>6. overlapped' \in BOOLEAN
  BY <1>1
<1> QED BY <1>1, <1>2, <1>3, <1>4, <1>5, <1>6 DEF HelperInv

----------------------------------------------------------------------------
(* withIdempotency.                                                         *)

LEMMA IdempotentCallKeeps ==
  ASSUME HelperInv, NEW c \in SdkCallers, IdempotentCall(c)
  PROVE  HelperInv'
<1>1. helper = "idempotency" /\ UNCHANGED <<helper, versioned, entry, completed, streak, overlapped>>
  BY DEF IdempotentCall
<1> DEFINE q == [NoCall EXCEPT !.pc = "acting"]
<1>2. q \in Call /\ q.pc = "acting"
  BY NoCallOK DEF NoCall, Call
<1>3. CASE entry = Absent
  <2>1. calls' = [calls EXCEPT ![c] = q] /\ answered' = answered
    BY <1>3 DEF IdempotentCall
  <2> HIDE DEF q
  <2>2. CallOK(helper, versioned, entry, q)
    BY <1>1, <1>2 DEF CallOK, Mutating
  <2>3. CallsOK(helper, versioned, entry, calls') /\ calls'[c] = q /\ \A d \in SdkCallers : d # c => calls'[d] = calls[d]
    <3>1. CallsOK(helper, versioned, entry, calls)
      BY DEF HelperInv
    <3>2. CallsOK(helper, versioned, entry, calls')
      BY <2>1, <2>2, <3>1, OneCall
    <3>3. calls \in [SdkCallers -> Call]
      BY <3>1 DEF CallsOK
    <3> QED BY <2>1, <2>2, <3>2, <3>3
  <2>4. MarkersOK(helper, entry, calls', completed, answered)
    BY <1>2, <2>3 DEF HelperInv, MarkersOK
  <2> QED BY <1>1, <2>1, <2>3, <2>4 DEF HelperInv, CountOK
<1>4. CASE entry # Absent
  <2>1. calls' = calls /\ answered' = TRUE
    BY <1>4 DEF IdempotentCall
  <2>2. MarkersOK(helper, entry, calls, completed, TRUE)
    BY <1>4 DEF HelperInv, MarkersOK
  <2> QED BY <1>1, <2>1, <2>2 DEF HelperInv, CountOK
<1> QED BY <1>3, <1>4

LEMMA ActionEndsKeeps ==
  ASSUME HelperInv, NEW c \in SdkCallers, ActionEnds(c)
  PROVE  HelperInv'
<1>1. PICK done \in BOOLEAN :
        /\ calls' = [calls EXCEPT ![c] = IF done THEN [calls[c] EXCEPT !.pc = "marking"] ELSE NoCall]
        /\ completed' = (completed \/ done)
  BY DEF ActionEnds
<1>2. helper = "idempotency" /\ calls[c].pc = "acting" /\ UNCHANGED <<helper, versioned, entry, answered, streak, overlapped>>
  BY DEF ActionEnds
<1>3. completed' \in BOOLEAN /\ (completed => completed') /\ (done => completed')
  BY <1>1
<1> DEFINE m == [calls[c] EXCEPT !.pc = "marking"]
           q == IF done THEN m ELSE NoCall
<1>4. calls[c] \in Call
  BY DEF HelperInv, CallsOK, CallOK
<1>5. m \in Call /\ m.pc = "marking"
  BY <1>4 DEF Call
<1> HIDE DEF m
<1>6. CallOK(helper, versioned, entry, q) /\ (q.pc = "marking" => done)
  <2>1. CASE done
    BY <1>2, <1>5, <2>1 DEF CallOK, Mutating
  <2>2. CASE ~done
    BY <2>2, NoCallOK
  <2> QED BY <2>1, <2>2
<1>7. calls' = [calls EXCEPT ![c] = q]
  BY <1>1 DEF m
<1> HIDE DEF q
<1>8. CallsOK(helper, versioned, entry, calls') /\ calls'[c] = q /\ \A d \in SdkCallers : d # c => calls'[d] = calls[d]
  <2>1. CallsOK(helper, versioned, entry, calls)
    BY DEF HelperInv
  <2>2. CallsOK(helper, versioned, entry, calls')
    BY <1>6, <1>7, <2>1, OneCall
  <2>3. calls \in [SdkCallers -> Call]
    BY <2>1 DEF CallsOK
  <2> QED BY <1>6, <1>7, <2>2, <2>3
<1>9. MarkersOK(helper, entry, calls', completed', answered)
  <2> SUFFICES ASSUME entry # Absent \/ answered \/ \E d \in SdkCallers : calls'[d].pc = "marking" PROVE completed'
    BY DEF MarkersOK
  <2>1. CASE entry # Absent \/ answered
    BY <1>2, <1>3, <2>1 DEF HelperInv, MarkersOK
  <2>2. CASE \E d \in SdkCallers : calls'[d].pc = "marking"
    <3>1. PICK d \in SdkCallers : calls'[d].pc = "marking"
      BY <2>2
    <3>2. CASE d = c
      BY <1>3, <1>6, <1>8, <3>1, <3>2
    <3>3. CASE d # c
      BY <1>2, <1>3, <1>8, <3>1, <3>3 DEF HelperInv, MarkersOK
    <3> QED BY <3>2, <3>3
  <2> QED BY <2>1, <2>2
<1> QED BY <1>2, <1>3, <1>8, <1>9 DEF HelperInv, CountOK

LEMMA MarkDoneKeeps ==
  ASSUME HelperInv, NEW c \in SdkCallers, MarkDone(c), Bounded
  PROVE  HelperInv'
<1>1. helper = "idempotency" /\ calls[c].pc = "marking" /\ UNCHANGED <<helper, versioned, completed, streak, overlapped>>
  BY DEF HelperInv, CallsOK, CallOK, MarkDone
<1>2. completed
  BY <1>1 DEF HelperInv, MarkersOK
<1>3. MarkersOK(helper, entry', calls', completed', answered')
  BY <1>1, <1>2 DEF MarkersOK
<1>4. CASE entry' = Stored(1) /\ answered' = TRUE /\ calls' = [Told(FALSE) EXCEPT ![c] = NoCall]
  <2>1. entry' \in Entry /\ entry'.version = entry.version + 1
    BY <1>4, StoredFields DEF Bounded
  <2>2. CallsOK(helper, versioned, entry', Told(FALSE))
    BY <2>1, ToldKeeps
  <2>3. CallsOK(helper, versioned, entry', calls')
    BY <1>4, <2>2, NoCallOK, OneCall
  <2> QED BY <1>1, <1>3, <1>4, <2>1, <2>3 DEF HelperInv, CountOK
<1>5. CASE calls' = [calls EXCEPT ![c] = NoCall] /\ UNCHANGED <<entry, answered>>
  <2>1. CallsOK(helper, versioned, entry, calls')
    BY <1>5, NoCallOK, OneCall DEF HelperInv
  <2> QED BY <1>1, <1>3, <1>5, <2>1 DEF HelperInv, CountOK
<1> QED BY <1>4, <1>5 DEF MarkDone

----------------------------------------------------------------------------
(* withCircuitBreaker.                                                      *)

LEMMA BreakerCallKeeps ==
  ASSUME HelperInv, NEW c \in SdkCallers, BreakerCall(c)
  PROVE  HelperInv'
<1>1. /\ helper = "breaker" /\ calls[c].pc = "idle" /\ overlapped' = (overlapped \/ Running # {})
      /\ UNCHANGED <<helper, versioned, entry, completed, answered, streak>> /\ entry \in Entry
  BY DEF BreakerCall, HelperInv
<1> DEFINE q == [NoCall EXCEPT !.pc = "acting", !.seen = entry]
<1>2. q \in Call /\ q.pc = "acting" /\ q.seen = entry
  BY <1>1, NoCallOK DEF NoCall, Call
<1>3. calls' = [calls EXCEPT ![c] = q]
  BY DEF BreakerCall
<1> HIDE DEF q
<1>4. CallOK(helper, versioned, entry, q)
  BY <1>1, <1>2 DEF CallOK, Mutating
<1>5. CallsOK(helper, versioned, entry, calls') /\ calls'[c] = q /\ \A d \in SdkCallers : d # c => calls'[d] = calls[d]
  <2>1. CallsOK(helper, versioned, entry, calls)
    BY DEF HelperInv
  <2>2. CallsOK(helper, versioned, entry, calls')
    BY <1>3, <1>4, <2>1, OneCall
  <2>3. calls \in [SdkCallers -> Call]
    BY <2>1 DEF CallsOK
  <2> QED BY <1>3, <1>4, <2>2, <2>3
<1>6. overlapped' \in BOOLEAN
  BY <1>1
<1>7. CountOK(helper, entry, calls', streak, overlapped')
  <2> SUFFICES ASSUME ~overlapped' PROVE CountOK(helper, entry, calls', streak, overlapped')
    BY DEF CountOK
  <2>1. Running = {} /\ ~overlapped
    BY <1>1
  <2>2. \A d \in SdkCallers : calls[d].pc = "idle"
    <3>1. \A d \in SdkCallers : calls[d].pc # "acting"
      BY <2>1 DEF Running
    <3> QED BY <1>1, <3>1 DEF HelperInv, CallsOK, CallOK, Mutating, Call
  <2>3. \A d \in SdkCallers : calls'[d].pc # "idle" => d = c
    BY <1>5, <2>2
  <2>4. entry.value = streak /\ (entry.opened <=> streak >= TripThreshold)
    BY <1>1, <2>1 DEF HelperInv, CountOK
  <2>5. calls'[c].seen = entry
    BY <1>2, <1>5
  <2> QED BY <2>3, <2>4, <2>5 DEF CountOK
<1> QED BY <1>1, <1>5, <1>6, <1>7 DEF HelperInv, MarkersOK

LEMMA BreakerEndsKeeps ==
  ASSUME HelperInv, NEW c \in SdkCallers, BreakerEnds(c), Bounded
  PROVE  HelperInv'
<1>1. /\ helper = "breaker" /\ calls[c].pc = "acting" /\ calls' = [calls EXCEPT ![c] = NoCall]
      /\ UNCHANGED <<helper, versioned, completed, answered, overlapped>> /\ entry \in Entry /\ streak \in Nat
      /\ calls[c] \in Call
  BY DEF BreakerEnds, HelperInv, CallsOK, CallOK
<1>2. CallsOK(helper, versioned, entry, calls') /\ calls'[c].pc = "idle" /\ \A d \in SdkCallers : d # c => calls'[d] = calls[d]
  <2>1. CallsOK(helper, versioned, entry, calls)
    BY DEF HelperInv
  <2>2. CallsOK(helper, versioned, entry, calls')
    BY <1>1, NoCallOK, <2>1, OneCall
  <2>3. calls \in [SdkCallers -> Call]
    BY <2>1 DEF CallsOK
  <2> QED BY <1>1, NoCallOK, <2>2, <2>3
<1>3. CallsOK(helper, versioned, entry', calls')
  BY <1>1, <1>2, OthersKeep DEF CallsOK
<1>4. ~overlapped =>
        /\ entry.value = streak /\ (entry.opened <=> streak >= TripThreshold)
        /\ calls[c].seen.value = entry.value /\ (calls[c].seen.opened <=> entry.opened)
        /\ \A d \in SdkCallers : calls'[d].pc = "idle"
  BY <1>1, <1>2 DEF HelperInv, CountOK
<1>5. calls[c].seen.value \in Nat /\ calls[c].elapsed \in 0..OpenTime /\ entry.version \in Nat /\ calls[c].seen \in Entry
  BY <1>1 DEF Call, Entry
<1>6. /\ entry' \in Entry /\ streak' \in Nat
      /\ ~overlapped => entry'.value = streak' /\ (entry'.opened <=> streak' >= TripThreshold)
  <2>1. CASE entry' = AfterSuccess(c) /\ streak' = 0
    <3>1. CASE calls[c].seen.value > 0 \/ calls[c].seen.opened
      BY <2>1, <3>1, AbsentFields, SdkConstants DEF AfterSuccess
    <3>2. CASE ~(calls[c].seen.value > 0 \/ calls[c].seen.opened)
      <4>1. entry' = entry
        BY <2>1, <3>2 DEF AfterSuccess
      <4>2. ~overlapped => entry.value = 0 /\ ~entry.opened
        BY <1>4, <1>5, <3>2
      <4> QED BY <1>1, <2>1, <4>1, <4>2, SdkConstants
    <3> QED BY <3>1, <3>2
  <2>2. CASE entry' = AfterFailure(c) /\ streak' = streak + 1
    <3> DEFINE f == calls[c].seen.value + 1
               b == f >= TripThreshold
               o == IF b THEN OpenTime - calls[c].elapsed ELSE 0
    <3>1. entry' = [value |-> f, version |-> entry.version + 1, opened |-> b, open |-> o]
      BY <2>2 DEF AfterFailure
    <3>2. b \in BOOLEAN /\ o \in 0..OpenTime /\ f \in Nat /\ entry.version + 1 \in Nat
      BY <1>5, SdkConstants
    <3>3. ~overlapped => f = streak + 1 /\ (b <=> streak + 1 >= TripThreshold)
      BY <1>4
    <3> HIDE DEF f, b, o
    <3>4. entry'.value = f /\ entry'.version = entry.version + 1 /\ entry'.opened = b
      BY <3>1
    <3>5. f \in 0..MaxSdkWrites /\ entry.version + 1 \in 0..MaxSdkWrites
      BY <3>2, <3>4, SdkConstants DEF Bounded
    <3>6. entry' \in Entry
      BY <3>1, <3>2, <3>5 DEF Entry
    <3>7. entry'.opened <=> b
      BY <3>2, <3>4, Zenon
    <3> QED BY <1>1, <2>2, <3>3, <3>4, <3>6, <3>7
  <2>3. CASE UNCHANGED <<entry, streak>>
    BY <1>1, <1>4, <2>3
  <2> QED BY <2>1, <2>2, <2>3 DEF BreakerEnds
<1>7. CountOK(helper, entry', calls', streak', overlapped)
  BY <1>4, <1>6 DEF CountOK
<1> QED BY <1>1, <1>3, <1>6, <1>7 DEF HelperInv, MarkersOK

LEMMA SdkTickKeeps ==
  ASSUME HelperInv, SdkTick
  PROVE  HelperInv'
<1>1. /\ helper = "breaker" /\ entry \in Entry
      /\ entry' = [entry EXCEPT !.open = IF entry.open > 0 THEN entry.open - 1 ELSE 0]
      /\ calls' = [c \in SdkCallers |->
           IF c \in Running /\ calls[c].elapsed < OpenTime THEN [calls[c] EXCEPT !.elapsed = calls[c].elapsed + 1] ELSE calls[c]]
      /\ UNCHANGED <<helper, versioned, completed, answered, streak, overlapped>>
  BY DEF SdkTick, HelperInv
<1>2. entry' \in Entry /\ entry'.value = entry.value /\ entry'.opened = entry.opened
  <2>1. (IF entry.open > 0 THEN entry.open - 1 ELSE 0) \in 0..OpenTime
    BY <1>1, SdkConstants DEF Entry
  <2> QED BY <1>1, <2>1 DEF Entry
<1>3. ASSUME NEW c \in SdkCallers
      PROVE  CallOK(helper, versioned, entry', calls'[c]) /\ calls'[c].pc = calls[c].pc /\ calls'[c].seen = calls[c].seen
  <2>1. CallOK(helper, versioned, entry, calls[c]) /\ calls[c] \in Call
    BY DEF HelperInv, CallsOK, CallOK
  <2>2. CASE c \in Running /\ calls[c].elapsed < OpenTime
    <3>1. calls[c].elapsed + 1 \in 0..OpenTime
      BY <2>1, <2>2, SdkConstants DEF Call
    <3>2. calls'[c] = [calls[c] EXCEPT !.elapsed = calls[c].elapsed + 1]
      BY <1>1, <2>2
    <3>3. calls'[c] \in Call /\ calls'[c].pc = calls[c].pc /\ calls'[c].seen = calls[c].seen
      BY <2>1, <3>1, <3>2 DEF Call
    <3>4. calls[c].pc = "acting"
      BY <2>2 DEF Running
    <3> QED BY <1>1, <3>3, <3>4 DEF CallOK, Mutating
  <2>3. CASE ~(c \in Running /\ calls[c].elapsed < OpenTime)
    <3>1. calls'[c] = calls[c]
      BY <1>1, <2>3
    <3> QED BY <1>1, <2>1, <3>1, OthersKeep
  <2> QED BY <2>2, <2>3
<1>4. CallsOK(helper, versioned, entry', calls')
  <2>1. \A c \in SdkCallers : calls'[c] \in Call
    BY <1>3 DEF CallOK
  <2>2. calls' \in [SdkCallers -> Call]
    BY <1>1, <2>1
  <2> QED BY <1>3, <2>2 DEF CallsOK
<1>5. CountOK(helper, entry', calls', streak, overlapped)
  <2>1. entry'.opened <=> entry.opened
    BY <1>2, Zenon
  <2>2. \A c \in SdkCallers : calls'[c].pc = calls[c].pc /\ calls'[c].seen = calls[c].seen
    BY <1>3
  <2> QED BY <1>2, <2>1, <2>2 DEF HelperInv, CountOK
<1> QED BY <1>1, <1>2, <1>4, <1>5 DEF HelperInv, MarkersOK

----------------------------------------------------------------------------
LEMMA StepHelpers == HelperInv /\ [SdkNext]_sdkVars => HelperInv'
<1> SUFFICES ASSUME HelperInv, [SdkNext]_sdkVars PROVE HelperInv'
  OBVIOUS
<1>1. CASE UNCHANGED sdkVars
  BY <1>1 DEF sdkVars, HelperInv
<1>2. ASSUME SdkNext PROVE Bounded
  BY <1>2 DEF SdkNext, Bounded
<1> QED BY <1>1, <1>2, SdkSetKeeps, SdkExpireKeeps, SdkTickKeeps, CallMutateKeeps, MutateListKeeps, MutateGetKeeps,
           MutateCommitsKeeps, MutateConflictsKeeps, MutateGoesOnKeeps, IdempotentCallKeeps, ActionEndsKeeps,
           MarkDoneKeeps, BreakerCallKeeps, BreakerEndsKeeps DEF SdkNext

\* mutate replaces the value its updater was given and reports only real conflicts, an acked
\* message was processed, and the circuit breaker counts right as long as its calls do not
\* overlap, for every number of invocations, retries and writes (sdk/typescript/helpers.ts).
THEOREM HelpersAreSafe == SdkSpec => []HelpersSafe
<1>1. HelperInv => HelpersSafe
  <2> SUFFICES ASSUME HelperInv PROVE HelpersSafe
    OBVIOUS
  <2>1. SdkTypeOK
    <3>1. calls \in [SdkCallers -> Call]
      BY DEF HelperInv, CallsOK
    <3> QED BY <3>1 DEF HelperInv, SdkTypeOK
  <2>2. MutateSeesCurrent
    <3> SUFFICES ASSUME NEW c \in SdkCallers, calls[c].pc = "updating", entry.version = calls[c].expected, ~calls[c].removed
                 PROVE  entry.value = calls[c].seen.value
      BY DEF MutateSeesCurrent
    <3>1. AttemptOK(versioned, entry, calls[c]) /\ calls[c] \in Call /\ entry \in Entry
      BY DEF HelperInv, CallsOK, CallOK
    <3>2. entry.version \in Nat /\ calls[c].seen.version \in Nat
      BY <3>1 DEF Call, Entry
    <3>3. calls[c].seen.version = entry.version
      BY <3>1, <3>2 DEF AttemptOK
    <3> QED BY <3>1, <3>3 DEF AttemptOK
  <2>3. ConflictsAreReal
    BY DEF HelperInv, CallsOK, CallOK, ConflictsAreReal
  <2>4. AckedMeansDone
    BY DEF HelperInv, MarkersOK, AckedMeansDone
  <2>5. CountsAlone
    BY DEF HelperInv, CountOK, CountsAlone
  <2> QED BY <2>1, <2>2, <2>3, <2>4, <2>5 DEF HelpersSafe
<1> QED BY <1>1, InitHelpers, StepHelpers, PTL DEF SdkSpec

----------------------------------------------------------------------------
(* The paged list of keys.                                                  *)

\* What the scan has listed lies at or before the cursor; the databases list each key
\* up to there that stayed exactly once and none beyond.  A scan of Redis has one page.
ScanInv ==
  /\ ListingTypeOK /\ stable \subseteq stored
  /\ scan.pc = "paging" => \A k \in PathKeys : listed[k] <= scan.cursor
  /\ pager = "database" =>
       /\ \A k \in PathKeys : listed[k] <= 1
       /\ scan.pc = "paging" => \A k \in PathKeys : /\ k > scan.cursor => listed[k] = 0
                                                    /\ k \in stable /\ k <= scan.cursor => listed[k] = 1
       /\ scan.pc = "done" => \A k \in stable : listed[k] = 1
  /\ pager = "redis" =>
       /\ \A k \in PathKeys : listed[k] <= 1
       /\ scan.pc = "done" => \A k \in stable : listed[k] = 1

LEMMA LeastOfNumbers ==
  ASSUME NEW S \in SUBSET Nat, S # {}
  PROVE  \E j \in S : \A i \in S : j <= i
<1>1. PICK j \in S : \A i \in S : ~(<<i, j>> \in OpToRel(<, Nat))
  BY NatLessThanWellFounded, WFMin
<1>2. \A i \in S : ~(i < j)
  BY <1>1 DEF OpToRel
<1> QED BY <1>2

LEMMA RankBounded ==
  ASSUME ListingTypeOK, NEW k \in PathKeys
  PROVE  Rank(k) \in Nat /\ Rank(k) <= LastKey /\ LastKey - Rank(k) \in Nat
<1>1. Rank(k) \in 1..LastKey
  BY ListingConstants DEF Rank, PathKeys
<1> QED BY <1>1, ListingConstants

LEMMA FirstByRank ==
  ASSUME ListingTypeOK, NEW keys \in SUBSET PathKeys, keys # {}
  PROVE  \E k \in keys : \A j \in keys : Rank(k) <= Rank(j)
<1> DEFINE S == {Rank(k) : k \in keys}
<1>1. S \in SUBSET Nat /\ S # {}
  BY RankBounded
<1>2. PICK x \in S : \A y \in S : x <= y
  BY <1>1, LeastOfNumbers
<1> QED BY <1>2

LEMMA LastByRank ==
  ASSUME ListingTypeOK, NEW keys \in SUBSET PathKeys, keys # {}
  PROVE  \E k \in keys : \A j \in keys : Rank(j) <= Rank(k)
<1> DEFINE S == {LastKey - Rank(k) : k \in keys}
<1>1. S \in SUBSET Nat /\ S # {}
  BY RankBounded
<1>2. PICK x \in S : \A y \in S : x <= y
  BY <1>1, LeastOfNumbers
<1>3. PICK k \in keys : x = LastKey - Rank(k)
  BY <1>2
<1>4. ASSUME NEW j \in keys PROVE Rank(j) <= Rank(k)
  <2>1. LastKey - Rank(k) <= LastKey - Rank(j)
    BY <1>2, <1>3
  <2>2. Rank(j) \in Nat /\ Rank(k) \in Nat
    BY RankBounded
  <2> QED BY <2>1, <2>2, ListingConstants
<1> QED BY <1>4

LEMMA KeysFinite ==
  ASSUME NEW keys \in SUBSET PathKeys
  PROVE  IsFiniteSet(keys) /\ Cardinality(keys) \in Nat
<1>1. 1 \in Int /\ LastKey \in Int
  BY ListingConstants
<1>2. IsFiniteSet(PathKeys)
  BY <1>1, FS_Interval DEF PathKeys
<1>3. IsFiniteSet(keys)
  BY <1>2, FS_Subset
<1> QED BY <1>3, FS_CardinalityType

\* A page of what is left holds at least its first key.
LEMMA PageNotEmpty ==
  ASSUME ListingTypeOK, NEW keys \in SUBSET PathKeys, keys # {}, NEW n \in 1..MaxLimit
  PROVE  FirstOf(keys, n) # {}
<1>1. PICK k \in keys : \A j \in keys : Rank(k) <= Rank(j)
  BY FirstByRank
<1>2. \A j \in keys : ~(Rank(j) < Rank(k))
  BY <1>1, RankBounded
<1>3. {j \in keys : Rank(j) < Rank(k)} = {}
  BY <1>2
<1>4. Cardinality({j \in keys : Rank(j) < Rank(k)}) = 0
  BY <1>3, FS_EmptySet
<1>5. 0 < n
  BY ListingConstants
<1>6. k \in FirstOf(keys, n)
  BY <1>4, <1>5 DEF FirstOf
<1> QED BY <1>6

\* With a page come the keys before those on it.
LEMMA PageDownwards ==
  ASSUME ListingTypeOK, pager = "database", NEW keys \in SUBSET PathKeys, NEW n \in 1..MaxLimit,
         NEW k \in FirstOf(keys, n), NEW j \in keys, j <= k
  PROVE  j \in FirstOf(keys, n)
<1> DEFINE A == {i \in keys : Rank(i) < Rank(j)}
           B == {i \in keys : Rank(i) < Rank(k)}
<1>1. k \in keys /\ Cardinality(B) < n
  BY DEF FirstOf
<1>2. A \subseteq B /\ B \in SUBSET PathKeys /\ A \in SUBSET PathKeys
  <2>1. ASSUME NEW i \in A PROVE i \in B
    <3>1. i \in Nat /\ j \in Nat /\ k \in Nat /\ i < j
      BY <1>1, ListingConstants DEF Rank, PathKeys
    <3>2. i < k
      BY <3>1
    <3> QED BY <3>2 DEF Rank
  <2> QED BY <2>1
<1> HIDE DEF A, B
<1>3. IsFiniteSet(B) /\ Cardinality(B) \in Nat /\ Cardinality(A) \in Nat
  BY <1>2, KeysFinite
<1>4. Cardinality(A) <= Cardinality(B)
  BY <1>2, <1>3, FS_Subset
<1>5. n \in Nat
  BY ListingConstants
<1>6. Cardinality(A) < n
  BY <1>1, <1>3, <1>4, <1>5
<1> QED BY <1>6 DEF FirstOf, A

\* A page that is not too small holds everything.
LEMMA PageOfAll ==
  ASSUME ListingTypeOK, NEW keys \in SUBSET PathKeys, NEW n \in 1..MaxLimit, ~(Cardinality(keys) > n)
  PROVE  FirstOf(keys, n) = keys
<1>1. ASSUME NEW k \in keys PROVE k \in FirstOf(keys, n)
  <2> DEFINE B == {i \in keys : Rank(i) < Rank(k)}
             R == keys \ {k}
  <2>1. IsFiniteSet(keys) /\ Cardinality(keys) \in Nat /\ n \in Nat
    BY KeysFinite, ListingConstants
  <2>2. Cardinality(R) = Cardinality(keys) - 1 /\ IsFiniteSet(R)
    BY <2>1, FS_RemoveElement
  <2>3. k \notin B
    BY RankBounded
  <2>4. B \subseteq R /\ B \in SUBSET PathKeys /\ R \in SUBSET PathKeys
    BY <2>3
  <2> HIDE DEF B, R
  <2>5. Cardinality(B) \in Nat /\ Cardinality(R) \in Nat
    BY <2>4, KeysFinite
  <2>6. Cardinality(B) <= Cardinality(R)
    BY <2>2, <2>4, FS_Subset
  <2>7. Cardinality(B) < n
    BY <2>1, <2>2, <2>5, <2>6
  <2> QED BY <2>7 DEF FirstOf, B
<1> QED BY <1>1 DEF FirstOf

LEMMA ListingStart == ListingInit => ScanInv
<1> SUFFICES ASSUME ListingInit PROVE ScanInv
  OBVIOUS
<1>1. 0 \in 0..LastKey /\ 1 \in 1..MaxLimit
  BY ListingConstants
<1>2. ListingTypeOK
  BY <1>1 DEF ListingInit, ListingTypeOK
<1>3. \A k \in PathKeys : listed[k] = 0
  BY DEF ListingInit
<1> QED BY <1>2, <1>3 DEF ListingInit, ScanInv

LEMMA EditStep ==
  ASSUME ScanInv, NEW k \in PathKeys, Insert(k) \/ RemoveKey(k)
  PROVE  ScanInv'
<1>1. /\ pager' = pager /\ scan' = scan /\ listed' = listed /\ stable' \subseteq stable
      /\ stored' \subseteq PathKeys /\ stable' \subseteq stored'
  BY DEF Insert, RemoveKey, ScanInv, ListingTypeOK
<1>2. ListingTypeOK'
  BY <1>1 DEF ScanInv, ListingTypeOK
<1> QED BY <1>1, <1>2 DEF ScanInv

LEMMA StartStep ==
  ASSUME ScanInv, NEW limit \in 1..MaxLimit, StartScan(limit)
  PROVE  ScanInv'
<1>1. 0 \in 0..LastKey
  BY ListingConstants
<1>2. /\ scan' = [limit |-> limit, cursor |-> 0, pc |-> "paging"] /\ stable' = stored /\ pager' = pager /\ stored' = stored
      /\ listed' = [k \in PathKeys |-> 0]
  BY DEF StartScan
<1>3. scan' \in [limit : 1..MaxLimit, cursor : 0..LastKey, pc : {"idle", "paging", "done", "refused"}]
  BY <1>1, <1>2
<1>4. listed' \in [PathKeys -> 0..LastKey]
  BY <1>1, <1>2
<1>5. ListingTypeOK'
  BY <1>2, <1>3, <1>4 DEF ScanInv, ListingTypeOK
<1>6. /\ scan'.cursor = 0 /\ scan'.pc = "paging" /\ \A k \in PathKeys : listed'[k] = 0
      /\ \A k \in PathKeys : ~(k <= 0)
  BY <1>2, ListingConstants DEF PathKeys
<1> QED BY <1>2, <1>5, <1>6 DEF ScanInv

\* A page is full and its last key is the cursor, or it holds everything and ends the scan.
LEMMA PageTaken ==
  ASSUME ListingTypeOK, NEW rest \in SUBSET PathKeys
  PROVE  LET page == FirstOf(rest, scan.limit)
             last == CHOOSE k \in page : \A j \in page : Rank(j) <= Rank(k)
         IN  /\ page \subseteq rest
             /\ HasMore(rest) => last \in page /\ \A j \in page : Rank(j) <= Rank(last)
             /\ ~HasMore(rest) => page = rest
<1> DEFINE page == FirstOf(rest, scan.limit)
           last == CHOOSE k \in page : \A j \in page : Rank(j) <= Rank(k)
<1>1. scan.limit \in 1..MaxLimit
  BY DEF ListingTypeOK
<1>2. page \subseteq rest
  BY DEF FirstOf
<1>4. HasMore(rest) <=> Cardinality(rest) > scan.limit
  BY DEF HasMore
<1>5. HasMore(rest) => last \in page /\ \A j \in page : Rank(j) <= Rank(last)
  <2> SUFFICES ASSUME HasMore(rest) PROVE last \in page /\ \A j \in page : Rank(j) <= Rank(last)
    OBVIOUS
  <2>1. rest # {}
    <3>1. Cardinality({}) = 0 /\ ~(0 > scan.limit)
      BY <1>1, FS_EmptySet, ListingConstants
    <3> QED BY <1>4, <3>1
  <2>2. page # {} /\ page \in SUBSET PathKeys
    BY <1>1, <1>2, <2>1, PageNotEmpty
  <2> HIDE DEF page
  <2>3. \E k \in page : \A j \in page : Rank(j) <= Rank(k)
    BY <2>2, LastByRank
  <2> QED BY <2>3
<1>6. ~HasMore(rest) => page = rest
  BY <1>1, <1>4, PageOfAll
<1> QED BY <1>2, <1>5, <1>6

LEMMA PageStep ==
  ASSUME ScanInv, Page
  PROVE  ScanInv'
<1> DEFINE rest == After(scan.cursor)
           page == FirstOf(rest, scan.limit)
           last == CHOOSE k \in page : \A j \in page : Rank(j) <= Rank(k)
<1>1. /\ ListingTypeOK /\ scan.pc = "paging" /\ scan.limit \in 1..MaxLimit /\ scan.cursor \in 0..LastKey
      /\ stable \subseteq stored /\ stored \subseteq PathKeys /\ listed \in [PathKeys -> 0..LastKey]
      /\ scan \in [limit : 1..MaxLimit, cursor : 0..LastKey, pc : {"idle", "paging", "done", "refused"}]
      /\ \A k \in PathKeys : listed[k] <= scan.cursor
      /\ pager # "redis"
  BY DEF ScanInv, ListingTypeOK, Page
<1>2. /\ listed' = [k \in PathKeys |-> listed[k] + (IF k \in page THEN 1 ELSE 0)]
      /\ scan' = IF HasMore(rest) THEN [scan EXCEPT !.cursor = last] ELSE [scan EXCEPT !.pc = "done"]
      /\ pager' = pager /\ stored' = stored /\ stable' = stable
  BY DEF Page, PageOf
<1>3. /\ rest \in SUBSET PathKeys /\ page \subseteq rest
      /\ \A k \in rest : k > scan.cursor
      /\ \A k \in stored : k > scan.cursor => k \in rest
  BY <1>1 DEF After, FirstOf
<1>5. HasMore(rest) => last \in page /\ \A j \in page : Rank(j) <= Rank(last)
  BY <1>1, <1>3, PageTaken
<1>6. ~HasMore(rest) => page = rest
  BY <1>1, <1>3, PageTaken
<1>7. pager = "database" /\ HasMore(rest) => \A k \in rest : k \in page <=> k <= last
  <2> SUFFICES ASSUME pager = "database", HasMore(rest), NEW k \in rest PROVE k \in page <=> k <= last
    OBVIOUS
  <2>1. k \in page => k <= last
    BY <1>5 DEF Rank
  <2>2. ASSUME k <= last PROVE k \in page
    BY <1>1, <1>3, <1>5, <2>2, PageDownwards
  <2> QED BY <2>1, <2>2
<1> HIDE DEF rest, page, last
<1>8. \A k \in PathKeys : k \in Nat /\ k <= LastKey /\ listed[k] \in Nat /\ (k \in page => k > scan.cursor)
  BY <1>1, <1>3, ListingConstants DEF PathKeys
<1>9. \A k \in PathKeys : listed'[k] = listed[k] + (IF k \in page THEN 1 ELSE 0)
  BY <1>2
<1>10. scan.cursor \in Nat /\ LastKey \in Nat
  BY <1>1, ListingConstants
<1>11. \A k \in PathKeys : listed'[k] \in Nat /\ listed'[k] <= LastKey
  <2> SUFFICES ASSUME NEW k \in PathKeys PROVE listed'[k] \in Nat /\ listed'[k] <= LastKey
    OBVIOUS
  <2>1. CASE k \in page
    <3>1. listed'[k] = listed[k] + 1 /\ listed[k] <= scan.cursor /\ scan.cursor < k /\ k <= LastKey
      BY <1>1, <1>8, <1>9, <1>10, <2>1
    <3> QED BY <1>8, <1>10, <3>1
  <2>2. CASE k \notin page
    <3>1. listed'[k] = listed[k] + 0 /\ listed[k] <= scan.cursor /\ scan.cursor <= LastKey
      BY <1>1, <1>9, <2>2
    <3> QED BY <1>8, <1>10, <3>1
  <2> QED BY <2>1, <2>2
<1>12. listed' \in [PathKeys -> 0..LastKey]
  BY <1>2, <1>10, <1>11
<1>13. CASE HasMore(rest)
  <2>1. last \in page /\ last \in PathKeys /\ last > scan.cursor /\ last \in Nat
    BY <1>3, <1>5, <1>8, <1>13
  <2>2. last \in 0..LastKey
    BY <1>8, <1>10, <2>1
  <2>3. /\ scan' \in [limit : 1..MaxLimit, cursor : 0..LastKey, pc : {"idle", "paging", "done", "refused"}]
        /\ scan'.cursor = last /\ scan'.pc = "paging"
    BY <1>1, <1>2, <1>13, <2>2
  <2>4. ListingTypeOK'
    BY <1>1, <1>2, <1>12, <2>3 DEF ListingTypeOK
  <2>5. \A k \in PathKeys : listed'[k] <= last
    <3> SUFFICES ASSUME NEW k \in PathKeys PROVE listed'[k] <= last
      OBVIOUS
    <3>1. listed[k] <= scan.cursor /\ listed[k] \in Nat /\ (listed'[k] = listed[k] + 1 \/ listed'[k] = listed[k])
      BY <1>1, <1>8, <1>9
    <3> QED BY <1>10, <2>1, <3>1
  <2>6. ASSUME pager = "database", NEW k \in PathKeys
        PROVE  /\ listed'[k] <= 1
               /\ k > last => listed'[k] = 0
               /\ k \in stable /\ k <= last => listed'[k] = 1
    <3>1. /\ listed[k] <= 1 /\ (k > scan.cursor => listed[k] = 0)
          /\ (k \in stable /\ k <= scan.cursor => listed[k] = 1)
      BY <1>1, <2>6 DEF ScanInv
    <3>2. CASE k \in page
      <4>1. k <= last /\ listed'[k] = 1
        BY <1>3, <1>7, <1>8, <1>9, <1>13, <2>6, <3>1, <3>2
      <4> QED BY <1>8, <2>1, <4>1
    <3>3. CASE k \notin page
      <4>1. listed'[k] = listed[k]
        BY <1>8, <1>9, <3>3
      <4>2. k > last => k > scan.cursor
        BY <1>8, <1>10, <2>1
      <4>3. k \in stable /\ k <= last => k <= scan.cursor
        BY <1>1, <1>3, <1>7, <1>8, <1>10, <1>13, <2>6, <3>3
      <4> QED BY <3>1, <4>1, <4>2, <4>3
    <3> QED BY <3>2, <3>3
  <2> QED BY <1>1, <1>2, <2>3, <2>4, <2>5, <2>6 DEF ScanInv
<1>14. CASE ~HasMore(rest)
  <2>1. /\ scan' \in [limit : 1..MaxLimit, cursor : 0..LastKey, pc : {"idle", "paging", "done", "refused"}]
        /\ scan'.pc = "done"
    BY <1>1, <1>2, <1>14
  <2>2. ListingTypeOK'
    BY <1>1, <1>2, <1>12, <2>1 DEF ListingTypeOK
  <2>3. ASSUME pager = "database", NEW k \in PathKeys
        PROVE  listed'[k] <= 1 /\ (k \in stable => listed'[k] = 1)
    <3>1. /\ listed[k] <= 1 /\ (k > scan.cursor => listed[k] = 0)
          /\ (k \in stable /\ k <= scan.cursor => listed[k] = 1)
      BY <1>1, <2>3 DEF ScanInv
    <3>2. CASE k \in page
      BY <1>8, <1>9, <3>1, <3>2
    <3>3. CASE k \notin page
      <4>1. listed'[k] = listed[k]
        BY <1>8, <1>9, <3>3
      <4>2. k \in stable => k <= scan.cursor
        BY <1>1, <1>3, <1>6, <1>8, <1>10, <1>14, <3>3
      <4> QED BY <3>1, <4>1, <4>2
    <3> QED BY <3>2, <3>3
  <2> QED BY <1>1, <1>2, <2>1, <2>2, <2>3 DEF ScanInv
<1> QED BY <1>13, <1>14

LEMMA RedisStep ==
  ASSUME ScanInv, RedisPage
  PROVE  ScanInv'
<1>0. PICK found \in SUBSET stored : (stable \subseteq found \/ HasMore(found)) /\ PageOf(found)
  BY DEF RedisPage
<1> DEFINE page == FirstOf(found, scan.limit)
           last == CHOOSE k \in page : \A j \in page : Rank(j) <= Rank(k)
<1>1. /\ ListingTypeOK /\ scan.pc = "paging" /\ pager = "redis" /\ scan.cursor = 0 /\ found \in SUBSET PathKeys
      /\ stable \subseteq stored /\ stored \subseteq PathKeys /\ listed \in [PathKeys -> 0..LastKey]
      /\ scan \in [limit : 1..MaxLimit, cursor : 0..LastKey, pc : {"idle", "paging", "done", "refused"}]
      /\ \A k \in PathKeys : listed[k] <= 0
  BY <1>0 DEF ScanInv, ListingTypeOK, RedisPage
<1>2. /\ listed' = [k \in PathKeys |-> listed[k] + (IF k \in page THEN 1 ELSE 0)]
      /\ scan' = IF HasMore(found) THEN [scan EXCEPT !.cursor = last] ELSE [scan EXCEPT !.pc = "done"]
      /\ pager' = pager /\ stored' = stored /\ stable' = stable
  BY <1>0 DEF PageOf
<1>3. page \subseteq found /\ (HasMore(found) => last \in page) /\ (~HasMore(found) => page = found)
  BY <1>1, PageTaken
<1> HIDE DEF page, last
<1>4. LastKey \in Nat /\ \A k \in PathKeys : k \in 1..LastKey /\ listed[k] = 0
  BY <1>1, ListingConstants DEF PathKeys
<1>5. \A k \in PathKeys : listed'[k] = (IF k \in page THEN 1 ELSE 0)
  BY <1>2, <1>4
<1>6. listed' \in [PathKeys -> 0..LastKey]
  BY <1>2, <1>4, <1>5
<1>7. CASE HasMore(found)
  <2>1. last \in 1..LastKey
    BY <1>1, <1>3, <1>4, <1>7
  <2>2. last \in 0..LastKey
    BY <1>4, <2>1
  <2>3. /\ scan' \in [limit : 1..MaxLimit, cursor : 0..LastKey, pc : {"idle", "paging", "done", "refused"}]
        /\ scan'.cursor = last /\ scan'.pc = "paging"
    BY <1>1, <1>2, <1>7, <2>2
  <2>4. ListingTypeOK'
    BY <1>1, <1>2, <1>6, <2>3 DEF ListingTypeOK
  <2>5. \A k \in PathKeys : listed'[k] <= last /\ listed'[k] <= 1
    BY <1>4, <1>5, <2>1
  <2> QED BY <1>1, <1>2, <2>3, <2>4, <2>5 DEF ScanInv
<1>8. CASE ~HasMore(found)
  <2>1. /\ scan' \in [limit : 1..MaxLimit, cursor : 0..LastKey, pc : {"idle", "paging", "done", "refused"}]
        /\ scan'.pc = "done"
    BY <1>1, <1>2, <1>8
  <2>2. ListingTypeOK'
    BY <1>1, <1>2, <1>6, <2>1 DEF ListingTypeOK
  <2>3. stable \subseteq page
    BY <1>0, <1>3, <1>8
  <2>4. (\A k \in PathKeys : listed'[k] <= 1) /\ (\A k \in stable : listed'[k] = 1)
    BY <1>1, <1>5, <2>3
  <2> QED BY <1>1, <1>2, <2>1, <2>2, <2>4 DEF ScanInv
<1> QED BY <1>7, <1>8

LEMMA RefusedStep ==
  ASSUME ScanInv, RedisRefuses
  PROVE  ScanInv'
<1>1. /\ scan' \in [limit : 1..MaxLimit, cursor : 0..LastKey, pc : {"idle", "paging", "done", "refused"}]
      /\ scan'.pc = "refused" /\ UNCHANGED <<pager, stored, stable, listed>> /\ pager = "redis"
  BY DEF RedisRefuses, ScanInv, ListingTypeOK
<1>2. ListingTypeOK'
  BY <1>1 DEF ScanInv, ListingTypeOK
<1> QED BY <1>1, <1>2 DEF ScanInv

LEMMA ListingStep == ScanInv /\ [ListingNext]_listingVars => ScanInv'
<1> SUFFICES ASSUME ScanInv, [ListingNext]_listingVars PROVE ScanInv'
  OBVIOUS
<1>1. ASSUME NEW k \in PathKeys, Insert(k) \/ RemoveKey(k) PROVE ScanInv'
  BY <1>1, EditStep
<1>2. ASSUME NEW limit \in 1..MaxLimit, StartScan(limit) PROVE ScanInv'
  BY <1>2, StartStep
<1>3. ASSUME Page PROVE ScanInv'
  BY <1>3, PageStep
<1>4. ASSUME UNCHANGED listingVars PROVE ScanInv'
  BY <1>4 DEF listingVars, ScanInv, ListingTypeOK
<1>5. ASSUME RedisPage \/ RedisRefuses PROVE ScanInv'
  BY <1>5, RedisStep, RefusedStep
<1> QED BY <1>1, <1>2, <1>3, <1>4, <1>5 DEF ListingNext

----------------------------------------------------------------------------
(* One key of the key-value providers.                                      *)

\* The version of a row as a reader counts it.
LiveOf(r) == IF r.expiry = "over" THEN 0 ELSE r.version

\* Postgres: a caller past its check holds the lock of the row it found.
LockOK(e, r, lock, c, u) ==
  e = "postgres" /\ u.pc = "checked" /\ u.expected > 0 => lock = c /\ r.version = u.expected

\* Deno KV: what a caller read is what is stored, as long as nobody has written.
StampOK(e, r, u) ==
  e = "deno" /\ u.pc = "checked" /\ u.fresh =>
    u.seen.version = r.version /\ (u.op = "commit" => u.expected \in {LiveOf(r), r.version})

\* Deno KV: the chunks a caller has so far, in order.
GettingOK(e, r, u) ==
  e = "deno" /\ u.pc = "chunks" =>
    /\ ChunkCount(u.seen.value) \in {1, 2} /\ u.answer[2] = NoValue
    /\ u.answer[1] # NoValue => ChunkCount(u.seen.value) = 2
    /\ u.fresh => u.seen.value = r.value /\ u.answer[1] \in {NoValue, r.value}

\* Before that it has none.
ReadingOK(e, u) == e = "deno" /\ u.pc \in {"read", "checked"} => u.answer = NoChunks

GotOK(e, u) ==
  e = "deno" /\ u.pc = "got" /\ u.fresh => \A i \in 1..ChunkCount(u.seen.value) : u.answer[i] = u.seen.value

UserOK(e, r, lock, c, u) ==
  /\ u \in User /\ LockOK(e, r, lock, c, u) /\ StampOK(e, r, u)
  /\ ReadingOK(e, u) /\ GettingOK(e, r, u) /\ GotOK(e, u)

\* Deno KV: the chunks of the value stored are there; a delete may leave others behind.
ChunksOK(e, r, k) == e = "deno" => \A i \in 1..ChunkCount(r.value) : k[i] = r.value

Misleading == {<<"postgres", "create">>, <<"redis", "create">>, <<"redis", "update">>}

KvInv ==
  /\ engine \in Engines /\ row \in Rows /\ chunks \in [1..2 -> Values \cup {NoValue}]
  /\ rowLock \in KvCallers \cup {NoValue} /\ watch \in {"none", "clean", "dirty"}
  /\ ChunksOK(engine, row, chunks) /\ misled \subseteq Misleading
  /\ users \in [KvCallers -> User]
  /\ \A c \in KvCallers : UserOK(engine, row, rowLock, c, users[c])

LEMMA ChunkCounts ==
  /\ \A v \in Values \cup {NoValue} : ChunkCount(v) \in {0, 1, 2}
  /\ ChunkCount(NoValue) = 0
BY KvConstants DEF ChunkCount, Values

\* Of what a caller may hold, a step that only marks it outdated leaves the rest.
LEMMA OutdatedUser ==
  ASSUME NEW u \in User
  PROVE  /\ [u EXCEPT !.fresh = FALSE] \in User
         /\ ~[u EXCEPT !.fresh = FALSE].fresh
         /\ [u EXCEPT !.fresh = FALSE].pc = u.pc
         /\ [u EXCEPT !.fresh = FALSE].expected = u.expected
         /\ [u EXCEPT !.fresh = FALSE].seen = u.seen
         /\ [u EXCEPT !.fresh = FALSE].answer = u.answer
<1>1. [u EXCEPT !.fresh = FALSE] \in User
  BY DEF User
<1>2. [u EXCEPT !.fresh = FALSE].fresh = FALSE
  BY DEF User
<1>3. /\ [u EXCEPT !.fresh = FALSE].pc = u.pc
      /\ [u EXCEPT !.fresh = FALSE].expected = u.expected
      /\ [u EXCEPT !.fresh = FALSE].seen = u.seen
      /\ [u EXCEPT !.fresh = FALSE].answer = u.answer
  BY DEF User
<1>4. ~[u EXCEPT !.fresh = FALSE].fresh
  BY <1>2
<1> QED BY <1>1, <1>3, <1>4

LEMMA IdleFits ==
  ASSUME NEW e, NEW r, NEW lock, NEW c
  PROVE  UserOK(e, r, lock, c, IdleUser) /\ IdleUser \in User
<1>1. 0 \in 0..MaxKvVersion /\ 0 \in 0..(MaxCasRetries - 1)
  BY KvConstants
<1>2. NoChunks \in [1..2 -> Values \cup {NoValue}] /\ Nothing \in [version : 0..MaxKvVersion, value : Values \cup {NoValue}]
  BY <1>1 DEF NoChunks, Nothing
<1>3. Small \in Values
  BY DEF Values
<1>4. IdleUser \in User
  BY <1>1, <1>2, <1>3 DEF IdleUser, User, Ops
<1>5. IdleUser.pc = "idle"
  BY DEF IdleUser
<1> QED BY <1>4, <1>5 DEF UserOK, LockOK, StampOK, ReadingOK, GettingOK, GotOK

\* With the other engines a caller's state is only used as it is.
LEMMA PlainFits ==
  ASSUME NEW e, e \notin {"postgres", "deno"}, NEW r, NEW lock, NEW c, NEW u \in User
  PROVE  UserOK(e, r, lock, c, u)
BY DEF UserOK, LockOK, StampOK, ReadingOK, GettingOK, GotOK

LEMMA UserReplaced ==
  ASSUME KvInv, NEW c \in KvCallers, NEW q, UserOK(engine, row, rowLock, c, q), users' = [users EXCEPT ![c] = q],
         engine' = engine, row' = row, chunks' = chunks, rowLock' = rowLock, misled' = misled,
         watch' \in {"none", "clean", "dirty"}
  PROVE  KvInv'
<1>1. q \in User
  BY DEF UserOK
<1>2. users' \in [KvCallers -> User]
  BY <1>1 DEF KvInv
<1>3. ASSUME NEW x \in KvCallers PROVE UserOK(engine, row, rowLock, x, users'[x])
  <2>1. CASE x = c
    BY <2>1 DEF KvInv
  <2>2. CASE x # c
    BY <2>2 DEF KvInv
  <2> QED BY <2>1, <2>2
<1> QED BY <1>2, <1>3 DEF KvInv

LEMMA UserLeft ==
  ASSUME KvInv, NEW c \in KvCallers, Leave(c),
         engine' = engine, row' = row, chunks' = chunks, rowLock' = rowLock, misled' = misled,
         watch' \in {"none", "clean", "dirty"}
  PROVE  KvInv'
<1>1. UserOK(engine, row, rowLock, c, IdleUser)
  BY IdleFits
<1> QED BY <1>1, UserReplaced DEF Leave

\* A write outdates the others: nothing is claimed of them any more.
LEMMA Outdates ==
  ASSUME KvInv, NEW c \in KvCallers, engine = "postgres" => rowLock \in {c, NoValue},
         users' = [x \in KvCallers |-> IF x = c THEN IdleUser ELSE [users[x] EXCEPT !.fresh = FALSE]],
         engine' = engine, row' \in Rows, chunks' \in [1..2 -> Values \cup {NoValue}],
         rowLock' \in KvCallers \cup {NoValue}, watch' \in {"none", "clean", "dirty"},
         ChunksOK(engine, row', chunks'), misled' \subseteq Misleading
  PROVE  KvInv'
<1>1. ASSUME NEW x \in KvCallers PROVE UserOK(engine, row', rowLock', x, users'[x]) /\ users'[x] \in User
  <2>1. CASE x = c
    <3>1. users'[x] = IdleUser
      BY <2>1
    <3>2. UserOK(engine, row', rowLock', x, IdleUser) /\ IdleUser \in User
      BY IdleFits
    <3> QED BY <3>1, <3>2
  <2>2. CASE x # c
    <3> DEFINE u == users[x]
               o == [u EXCEPT !.fresh = FALSE]
    <3>1. users'[x] = o /\ u \in User /\ UserOK(engine, row, rowLock, x, u)
      BY <2>2 DEF KvInv
    <3>2. /\ o \in User /\ ~o.fresh /\ o.pc = u.pc /\ o.expected = u.expected /\ o.seen = u.seen /\ o.answer = u.answer
      BY <3>1, OutdatedUser
    <3> HIDE DEF o, u
    <3>3. LockOK(engine, row', rowLock', x, o)
      <4>1. x # NoValue
        BY KvConstants
      <4>2. ~(engine = "postgres" /\ u.pc = "checked" /\ u.expected > 0)
        BY <2>2, <3>1, <4>1 DEF UserOK, LockOK
      <4> QED BY <3>2, <4>2 DEF LockOK
    <3>4. StampOK(engine, row', o) /\ GotOK(engine, o)
      BY <3>2 DEF StampOK, GotOK
    <3>5. ReadingOK(engine, o)
      BY <3>1, <3>2 DEF UserOK, ReadingOK
    <3>6. GettingOK(engine, row', o)
      BY <3>1, <3>2 DEF UserOK, GettingOK
    <3> QED BY <3>1, <3>2, <3>3, <3>4, <3>5, <3>6 DEF UserOK
  <2> QED BY <2>1, <2>2
<1>2. users' \in [KvCallers -> User]
  BY <1>1
<1> QED BY <1>1, <1>2 DEF KvInv

LEMMA JudgedRight ==
  ASSUME KvInv, NEW c \in KvCallers, Judged(c),
         users[c].op = "commit" => \/ users[c].expected \in {LiveVersion, row.version}
                                   \/ engine = "redis"
                                   \/ engine = "postgres" /\ users[c].expected = 0
  PROVE  misled' \subseteq Misleading
<1> DEFINE how == IF users[c].expected = 0 THEN "create" ELSE "update"
<1>1. CASE users[c].op = "commit" /\ users[c].expected \notin {LiveVersion, row.version}
  <2>1. misled' = misled \cup {<<engine, how>>}
    BY <1>1 DEF Judged
  <2>2. <<engine, how>> \in Misleading
    BY <1>1 DEF Misleading
  <2> HIDE DEF how
  <2> QED BY <2>1, <2>2 DEF KvInv
<1>2. CASE ~(users[c].op = "commit" /\ users[c].expected \notin {LiveVersion, row.version})
  BY <1>2 DEF Judged, KvInv
<1> QED BY <1>1, <1>2

\* What a row is after a write that fits the bound.
LEMMA RowWritten ==
  ASSUME NEW op \in Ops, NEW v \in Values, NEW base \in Nat, NewRow(op, v, base).version <= MaxKvVersion
  PROVE  /\ NewRow(op, v, base) \in Rows
         /\ op = "delete" => NewRow(op, v, base) = NoRow
         /\ op # "delete" => NewRow(op, v, base).version = base + 1 /\ NewRow(op, v, base).value = v
         /\ NewRow(op, v, base).version \in {0, base + 1}
<1>1. CASE op = "delete"
  <2>1. NewRow(op, v, base) = NoRow
    BY <1>1 DEF NewRow
  <2>2. 0 \in 0..MaxKvVersion
    BY KvConstants
  <2>3. NoRow \in Rows /\ NoRow.version = 0
    BY <2>2 DEF NoRow, Rows, Expiry
  <2> QED BY <1>1, <2>1, <2>3
<1>2. CASE op # "delete"
  <2> DEFINE x == OwnExpiry(op)
  <2>1. NewRow(op, v, base) = [version |-> base + 1, value |-> v, expiry |-> x]
    BY <1>2 DEF NewRow
  <2>2. x \in Expiry
    BY DEF OwnExpiry, Expiry
  <2>3. base + 1 \in 0..MaxKvVersion
    BY <2>1, KvConstants
  <2> HIDE DEF x
  <2>4. [version |-> base + 1, value |-> v, expiry |-> x] \in Rows
    BY <2>2, <2>3 DEF Rows
  <2> QED BY <1>2, <2>1, <2>4
<1> QED BY <1>1, <1>2

LEMMA NoRowFits == NoRow \in Rows /\ NoRow.version = 0 /\ NoRow.value = NoValue
<1>1. 0 \in 0..MaxKvVersion
  BY KvConstants
<1> QED BY <1>1 DEF NoRow, Rows, Expiry

\* When a step respects the versions.
LEMMA SameRow ==
  ASSUME row \in Rows, row' = row
  PROVE  VersionsStep
<1>1. row' = [row EXCEPT !.expiry = row'.expiry]
  BY DEF Rows
<1> QED BY <1>1 DEF VersionsStep

LEMMA RowGone ==
  ASSUME row'.version = 0
  PROVE  VersionsStep
BY DEF VersionsStep

LEMMA NextVersion ==
  ASSUME row \in Rows, NEW base, base = row.version \/ (base = 0 /\ LiveVersion = 0), row'.version \in {0, base + 1}
  PROVE  VersionsStep
<1>1. row.version \in Nat /\ base \in Nat
  BY KvConstants DEF Rows
<1>2. CASE row'.version = 0
  BY <1>2, RowGone
<1>3. CASE row'.version = base + 1
  <2>1. CASE base = row.version
    <3>1. row'.version = row.version + 1 /\ (row.version + 1 = 1 => row.version = 0)
      BY <1>1, <1>3, <2>1
    <3>2. row.version = 0 => LiveVersion = 0
      BY DEF LiveVersion
    <3> QED BY <3>1, <3>2 DEF VersionsStep
  <2>2. CASE base = 0 /\ LiveVersion = 0
    BY <1>3, <2>2 DEF VersionsStep
  <2> QED BY <2>1, <2>2
<1> QED BY <1>2, <1>3

----------------------------------------------------------------------------
(* The steps of the key.                                                    *)

LEMMA KvStart == KvInit => KvInv
<1> SUFFICES ASSUME KvInit PROVE KvInv
  OBVIOUS
<1>1. /\ engine \in Engines /\ row = NoRow /\ chunks = NoChunks /\ users = [c \in KvCallers |-> IdleUser]
      /\ rowLock = NoValue /\ watch = "none" /\ misled = {}
  BY DEF KvInit
<1>2. users \in [KvCallers -> User] /\ \A c \in KvCallers : UserOK(engine, row, rowLock, c, users[c])
  BY <1>1, IdleFits
<1>3. NoChunks \in [1..2 -> Values \cup {NoValue}]
  BY DEF NoChunks
<1>4. ChunksOK(engine, row, chunks)
  BY <1>1, ChunkCounts, NoRowFits DEF ChunksOK
<1> QED BY <1>1, <1>2, <1>3, <1>4, NoRowFits DEF KvInv

LEMMA BeginFits ==
  ASSUME NEW op \in Ops, NEW v \in Values, NEW x \in 0..MaxKvVersion, NEW e, NEW r, NEW lock, NEW c
  PROVE  UserOK(e, r, lock, c, [IdleUser EXCEPT !.pc = "read", !.op = op, !.value = v, !.expected = x])
<1> DEFINE q == [IdleUser EXCEPT !.pc = "read", !.op = op, !.value = v, !.expected = x]
<1>1. IdleUser \in User /\ IdleUser.answer = NoChunks
  BY IdleFits DEF IdleUser
<1>2. q \in User /\ q.pc = "read" /\ q.answer = NoChunks
  BY <1>1 DEF User
<1> HIDE DEF q
<1>3. UserOK(e, r, lock, c, q)
  BY <1>2 DEF UserOK, LockOK, StampOK, ReadingOK, GettingOK, GotOK
<1> QED BY <1>3 DEF q

LEMMA BeginStep ==
  ASSUME KvInv, NEW c \in KvCallers, NEW op \in Ops, NEW v \in Values, NEW x \in 0..MaxKvVersion, Begin(c, op, v, x)
  PROVE  KvInv' /\ VersionsStep
<1> DEFINE q == [IdleUser EXCEPT !.pc = "read", !.op = op, !.value = v, !.expected = x]
<1>1. /\ users' = [users EXCEPT ![c] = q] /\ engine' = engine /\ row' = row /\ chunks' = chunks /\ rowLock' = rowLock
      /\ watch' = watch /\ misled' = misled
  BY DEF Begin
<1>2. UserOK(engine, row, rowLock, c, q)
  BY BeginFits
<1> HIDE DEF q
<1>3. watch' \in {"none", "clean", "dirty"} /\ row \in Rows
  BY <1>1 DEF KvInv
<1>4. KvInv'
  BY <1>1, <1>2, <1>3, UserReplaced
<1>5. VersionsStep
  BY <1>1, <1>3, SameRow
<1> QED BY <1>4, <1>5

LEMMA PurgedRow ==
  ASSUME row \in Rows, NEW op
  PROVE  /\ Purged(op) \in Rows
         /\ Purged(op).version = row.version \/ (Purged(op).version = 0 /\ LiveVersion = 0)
<1>1. CASE Purged(op) = row
  BY <1>1
<1>2. CASE Purged(op) = NoRow /\ row.expiry = "over"
  BY <1>2, NoRowFits DEF LiveVersion
<1> QED BY <1>1, <1>2 DEF Purged

LEMMA WroteUsers ==
  ASSUME NEW c, Wrote(c), watch \in {"none", "clean", "dirty"}
  PROVE  /\ users' = [x \in KvCallers |-> IF x = c THEN IdleUser ELSE [users[x] EXCEPT !.fresh = FALSE]]
         /\ watch' \in {"none", "clean", "dirty"}
BY DEF Wrote

LEMMA ApplyStep ==
  ASSUME KvInv, NEW c \in KvCallers, ApplyCommit(c), row'.version <= MaxKvVersion
  PROVE  KvInv' /\ VersionsStep
<1> DEFINE u == users[c]
           b == Purged(u.op).version
<1>1. /\ u \in User /\ u.op \in Ops /\ u.value \in Values /\ row \in Rows /\ watch \in {"none", "clean", "dirty"}
      /\ chunks \in [1..2 -> Values \cup {NoValue}] /\ rowLock \in KvCallers \cup {NoValue}
  BY DEF KvInv, User
<1>2. /\ AtOnce(c) /\ (u.op = "commit" => LiveVersion = u.expected)
      /\ row' = NewRow(u.op, u.value, b) /\ Wrote(c) /\ Judged(c)
      /\ engine' = engine /\ chunks' = chunks /\ rowLock' = rowLock
  BY DEF ApplyCommit
<1>3. b \in Nat /\ (b = row.version \/ (b = 0 /\ LiveVersion = 0))
  BY <1>1, PurgedRow, KvConstants DEF Rows
<1>4. engine # "deno" /\ (engine = "postgres" => rowLock = NoValue)
  BY <1>2 DEF AtOnce, SqliteAtOnce, MapAtOnce, PostgresAtOnce, RedisAtOnce
<1>5. misled' \subseteq Misleading
  BY <1>2, JudgedRight
<1> HIDE DEF u, b
<1>6. row' \in Rows /\ row'.version \in {0, b + 1}
  BY <1>1, <1>2, <1>3, RowWritten
<1>7. ChunksOK(engine, row', chunks')
  BY <1>4 DEF ChunksOK
<1>8. KvInv'
  BY <1>1, <1>2, <1>4, <1>5, <1>6, <1>7, WroteUsers, Outdates
<1>9. VersionsStep
  BY <1>1, <1>3, <1>6, NextVersion
<1> QED BY <1>8, <1>9

\* A row that is only purged, by an engine that keeps neither locks nor stamps.
LEMMA PurgeStep ==
  ASSUME KvInv, NEW c \in KvCallers, NEW q \in User, users' = [users EXCEPT ![c] = q],
         engine \in {"sqlite", "memory"}, row' \in {row, NoRow},
         engine' = engine, chunks' = chunks, rowLock' = rowLock, watch' = watch, misled' = misled
  PROVE  KvInv' /\ VersionsStep
<1>1. users' \in [KvCallers -> User] /\ engine \notin {"postgres", "deno"} /\ row \in Rows
  BY DEF KvInv
<1>2. ASSUME NEW x \in KvCallers PROVE UserOK(engine, row', rowLock, x, users'[x])
  BY <1>1, PlainFits
<1>3. ChunksOK(engine, row', chunks)
  BY <1>1 DEF ChunksOK
<1>4. row' \in Rows
  BY <1>1, NoRowFits
<1>5. KvInv'
  BY <1>1, <1>2, <1>3, <1>4 DEF KvInv
<1>6. VersionsStep
  BY <1>1, NoRowFits, SameRow, RowGone
<1> QED BY <1>5, <1>6

LEMMA MismatchStep ==
  ASSUME KvInv, NEW c \in KvCallers, Mismatch(c)
  PROVE  KvInv' /\ VersionsStep
<1>1. /\ users' = [users EXCEPT ![c] = IdleUser] /\ engine \in {"sqlite", "memory"}
      /\ engine' = engine /\ chunks' = chunks /\ rowLock' = rowLock /\ watch' = watch /\ misled' = misled
  BY DEF Mismatch, Leave, AtOnce, SqliteAtOnce, MapAtOnce, PostgresAtOnce, RedisAtOnce
<1>2. row' \in {row, NoRow}
  BY DEF Mismatch, Purged
<1>3. IdleUser \in User
  BY IdleFits
<1> QED BY <1>1, <1>2, <1>3, PurgeStep

\* What a get has read, when it starts on the chunks and when it is done.
LEMMA GetFits ==
  ASSUME KvInv, NEW c \in KvCallers, users[c].pc = "read", NEW q,
         q = [users[c] EXCEPT !.pc = IF engine = "deno" /\ LiveVersion > 0 /\ ChunkCount(row.value) > 0 THEN "chunks" ELSE "got",
                              !.seen = IF LiveVersion = 0 THEN Nothing ELSE ReadRow,
                              !.fresh = TRUE]
  PROVE  q \in User /\ UserOK(engine, row, rowLock, c, q)
<1> DEFINE u == users[c]
           p == IF engine = "deno" /\ LiveVersion > 0 /\ ChunkCount(row.value) > 0 THEN "chunks" ELSE "got"
           s == IF LiveVersion = 0 THEN Nothing ELSE ReadRow
<1>1. /\ u \in User /\ row \in Rows /\ UserOK(engine, row, rowLock, c, u)
      /\ row.version \in 0..MaxKvVersion /\ row.value \in Values \cup {NoValue} /\ 0 \in 0..MaxKvVersion
      /\ LiveVersion \in Nat
  BY KvConstants DEF KvInv, Rows, LiveVersion
<1>2. /\ s \in [version : 0..MaxKvVersion, value : Values \cup {NoValue}]
      /\ LiveVersion = 0 => s.value = NoValue
      /\ LiveVersion # 0 => s.value = row.value
  BY <1>1 DEF Nothing, ReadRow
<1>3. p \in {"chunks", "got"} /\ (p = "chunks" <=> engine = "deno" /\ LiveVersion > 0 /\ ChunkCount(row.value) > 0)
  OBVIOUS
<1>4. q = [u EXCEPT !.pc = p, !.seen = s, !.fresh = TRUE]
  OBVIOUS
<1>5. engine = "deno" => u.answer = NoChunks
  BY <1>1 DEF UserOK, ReadingOK
<1> HIDE DEF u, p, s
<1>6. q \in User /\ q.pc = p /\ q.seen = s /\ q.answer = u.answer
  BY <1>1, <1>2, <1>3, <1>4 DEF User
<1>7. LockOK(engine, row, rowLock, c, q) /\ StampOK(engine, row, q) /\ ReadingOK(engine, q)
  BY <1>3, <1>6 DEF LockOK, StampOK, ReadingOK
<1>8. GettingOK(engine, row, q)
  <2> SUFFICES ASSUME engine = "deno", p = "chunks"
               PROVE  /\ ChunkCount(q.seen.value) \in {1, 2} /\ q.answer[2] = NoValue /\ q.answer[1] = NoValue
                      /\ q.seen.value = row.value
    BY <1>6 DEF GettingOK
  <2>1. LiveVersion # 0 /\ ChunkCount(row.value) > 0
    BY <1>1, <1>3
  <2>2. q.seen.value = row.value /\ ChunkCount(row.value) \in {1, 2}
    BY <1>1, <1>2, <1>6, <2>1, ChunkCounts
  <2>3. q.answer = NoChunks
    BY <1>5, <1>6
  <2> QED BY <2>2, <2>3 DEF NoChunks
<1>9. GotOK(engine, q)
  <2> SUFFICES ASSUME engine = "deno", p = "got" PROVE ChunkCount(q.seen.value) = 0
    BY <1>6 DEF GotOK
  <2>1. CASE LiveVersion = 0
    BY <1>2, <1>6, <2>1, ChunkCounts
  <2>2. CASE LiveVersion # 0
    <3>1. ~(ChunkCount(row.value) > 0)
      BY <1>1, <1>3, <2>2
    <3> QED BY <1>1, <1>2, <1>6, <2>2, <3>1, ChunkCounts
  <2> QED BY <2>1, <2>2
<1> QED BY <1>6, <1>7, <1>8, <1>9 DEF UserOK

LEMMA GetStep ==
  ASSUME KvInv, NEW c \in KvCallers, Get(c)
  PROVE  KvInv' /\ VersionsStep
<1> DEFINE q == [users[c] EXCEPT !.pc = IF engine = "deno" /\ LiveVersion > 0 /\ ChunkCount(row.value) > 0 THEN "chunks" ELSE "got",
                                 !.seen = IF LiveVersion = 0 THEN Nothing ELSE ReadRow,
                                 !.fresh = TRUE]
<1>1. /\ users' = [users EXCEPT ![c] = q] /\ users[c].pc = "read"
      /\ row' = IF engine \in {"sqlite", "memory"} /\ row.expiry = "over" THEN NoRow ELSE row
      /\ engine' = engine /\ chunks' = chunks /\ rowLock' = rowLock /\ watch' = watch /\ misled' = misled
  BY DEF Get
<1>2. q \in User /\ UserOK(engine, row, rowLock, c, q)
  BY <1>1, GetFits
<1> HIDE DEF q
<1>3. watch' \in {"none", "clean", "dirty"} /\ row \in Rows
  BY <1>1 DEF KvInv
<1>4. CASE engine \in {"sqlite", "memory"}
  <2>1. row' \in {row, NoRow}
    BY <1>1
  <2> QED BY <1>1, <1>2, <1>4, <2>1, PurgeStep
<1>5. CASE engine \notin {"sqlite", "memory"}
  <2>1. row' = row
    BY <1>1, <1>5
  <2>2. KvInv'
    BY <1>1, <1>2, <1>3, <2>1, UserReplaced
  <2>3. VersionsStep
    BY <1>3, <2>1, SameRow
  <2> QED BY <2>2, <2>3
<1> QED BY <1>4, <1>5

LEMMA GotStep ==
  ASSUME KvInv, NEW c \in KvCallers, Got(c)
  PROVE  KvInv' /\ VersionsStep
<1>1. /\ Leave(c) /\ engine' = engine /\ row' = row /\ chunks' = chunks /\ rowLock' = rowLock /\ misled' = misled
      /\ watch' \in {"none", "clean", "dirty"} /\ row \in Rows
  BY DEF Got, KvInv
<1> QED BY <1>1, UserLeft, SameRow

----------------------------------------------------------------------------
(* Postgres: the lock of the row.                                           *)

LEMMA PostgresCheckStep ==
  ASSUME KvInv, NEW c \in KvCallers, PostgresCheck(c)
  PROVE  KvInv' /\ VersionsStep
<1>1. /\ engine = "postgres" /\ rowLock = NoValue /\ engine' = engine /\ row' = row /\ chunks' = chunks /\ watch' = watch
      /\ misled' = misled /\ row \in Rows /\ watch' \in {"none", "clean", "dirty"} /\ row.version \in Nat
      /\ users \in [KvCallers -> User] /\ \A x \in KvCallers : UserOK(engine, row, rowLock, x, users[x])
  BY KvConstants DEF PostgresCheck, KvInv, Rows
<1>2. VersionsStep
  BY <1>1, SameRow
<1>3. CASE LiveVersion # users[c].expected
  <2>1. Leave(c) /\ rowLock' = rowLock
    BY <1>3 DEF PostgresCheck
  <2> QED BY <1>1, <1>2, <2>1, UserLeft
<1>4. CASE LiveVersion = users[c].expected
  <2> DEFINE u == users[c]
             q == [u EXCEPT !.pc = "checked"]
  <2>1. users' = [users EXCEPT ![c] = q] /\ rowLock' = IF row.version > 0 THEN c ELSE NoValue
    BY <1>4 DEF PostgresCheck
  <2>2. q \in User /\ q.pc = "checked" /\ q.expected = u.expected
    BY <1>1 DEF User
  <2>3. users' \in [KvCallers -> User] /\ users'[c] = q /\ \A x \in KvCallers : x # c => users'[x] = users[x]
    BY <1>1, <2>1, <2>2
  <2>4. u.expected = LiveVersion
    BY <1>4
  <2> HIDE DEF u, q
  <2>5. UserOK(engine, row, rowLock', c, q)
    <3>1. u.expected > 0 => u.expected = row.version
      BY <1>1, <2>4 DEF LiveVersion
    <3>2. LockOK(engine, row, rowLock', c, q)
      BY <1>1, <2>1, <2>2, <3>1 DEF LockOK
    <3>3. StampOK(engine, row, q) /\ ReadingOK(engine, q) /\ GettingOK(engine, row, q) /\ GotOK(engine, q)
      BY <1>1 DEF StampOK, ReadingOK, GettingOK, GotOK
    <3> QED BY <2>2, <3>2, <3>3 DEF UserOK
  <2>6. ASSUME NEW x \in KvCallers, x # c PROVE UserOK(engine, row, rowLock', x, users[x])
    <3> DEFINE v == users[x]
    <3>1. v \in User /\ UserOK(engine, row, rowLock, x, v) /\ x # NoValue
      BY <1>1, KvConstants
    <3> HIDE DEF v
    <3>2. LockOK(engine, row, rowLock', x, v)
      BY <1>1, <3>1 DEF UserOK, LockOK
    <3>3. UserOK(engine, row, rowLock', x, v)
      BY <3>1, <3>2 DEF UserOK
    <3> QED BY <3>3 DEF v
  <2>7. \A x \in KvCallers : UserOK(engine, row, rowLock', x, users'[x])
    BY <2>3, <2>5, <2>6
  <2>8. rowLock' \in KvCallers \cup {NoValue}
    BY <2>1
  <2>9. KvInv'
    BY <1>1, <2>3, <2>7, <2>8 DEF KvInv
  <2> QED BY <1>2, <2>9
<1> QED BY <1>3, <1>4

LEMMA PostgresCommitStep ==
  ASSUME KvInv, NEW c \in KvCallers, PostgresCommit(c), row'.version <= MaxKvVersion
  PROVE  KvInv' /\ VersionsStep
<1> DEFINE u == users[c]
<1>1. /\ u \in User /\ u.value \in Values /\ u.expected \in Nat /\ row \in Rows /\ watch \in {"none", "clean", "dirty"}
      /\ chunks \in [1..2 -> Values \cup {NoValue}] /\ row.version \in Nat /\ UserOK(engine, row, rowLock, c, u)
  BY KvConstants DEF KvInv, User, Rows
<1>2. /\ engine = "postgres" /\ u.pc = "checked" /\ rowLock \in {c, NoValue} /\ rowLock' = NoValue
      /\ row' = NewRow("commit", u.value, row.version) /\ Wrote(c) /\ Judged(c)
      /\ engine' = engine /\ chunks' = chunks
  BY DEF PostgresCommit
<1>3. u.expected = 0 \/ u.expected = row.version
  <2>1. CASE u.expected > 0
    BY <1>1, <1>2, <2>1 DEF UserOK, LockOK
  <2>2. CASE ~(u.expected > 0)
    <3> HIDE DEF u
    <3> QED BY <1>1, <2>2
  <2> QED BY <2>1, <2>2
<1>4. misled' \subseteq Misleading
  BY <1>2, <1>3, JudgedRight
<1> HIDE DEF u
<1>5. "commit" \in Ops
  BY DEF Ops
<1>6. row' \in Rows /\ row'.version \in {0, row.version + 1}
  BY <1>1, <1>2, <1>5, RowWritten
<1>7. ChunksOK(engine, row', chunks')
  BY <1>2 DEF ChunksOK
<1>8. KvInv'
  BY <1>1, <1>2, <1>4, <1>6, <1>7, WroteUsers, Outdates
<1>9. VersionsStep
  BY <1>1, <1>6, NextVersion
<1> QED BY <1>8, <1>9

----------------------------------------------------------------------------
(* Redis: nothing is claimed of it but its type.                            *)

LEMMA RedisMoves ==
  ASSUME KvInv, engine = "redis", NEW c \in KvCallers, NEW q \in User, users' = [users EXCEPT ![c] = q],
         engine' = engine, row' = row, chunks' = chunks, rowLock' = rowLock, misled' = misled,
         watch' \in {"none", "clean", "dirty"}
  PROVE  KvInv' /\ VersionsStep
<1>1. engine \notin {"postgres", "deno"} /\ row \in Rows
  BY DEF KvInv
<1>2. UserOK(engine, row, rowLock, c, q)
  BY <1>1, PlainFits
<1> QED BY <1>1, <1>2, UserReplaced, SameRow

LEMMA RedisReadStep ==
  ASSUME KvInv, NEW c \in KvCallers, RedisRead(c) \/ RedisWatch(c)
  PROVE  KvInv' /\ VersionsStep
<1> DEFINE u == users[c]
           p == [u EXCEPT !.pc = "checked", !.seen = ReadRow]
           q == [u EXCEPT !.pc = "chunks"]
<1>1. /\ u \in User /\ row \in Rows /\ watch \in {"none", "clean", "dirty"}
      /\ ReadRow \in [version : 0..MaxKvVersion, value : Values \cup {NoValue}]
  BY DEF KvInv, Rows, ReadRow
<1>2. p \in User /\ q \in User
  BY <1>1 DEF User
<1>3. /\ engine = "redis" /\ engine' = engine /\ row' = row /\ chunks' = chunks /\ rowLock' = rowLock /\ misled' = misled
      /\ watch' \in {"none", "clean", "dirty"}
  BY <1>1 DEF RedisRead, RedisWatch
<1>4. CASE RedisRead(c)
  <2>1. users' = [users EXCEPT ![c] = p]
    BY <1>4 DEF RedisRead
  <2> HIDE DEF p
  <2> QED BY <1>2, <1>3, <2>1, RedisMoves
<1>5. CASE RedisWatch(c)
  <2>1. users' = [users EXCEPT ![c] = q]
    BY <1>5 DEF RedisWatch
  <2> HIDE DEF q
  <2> QED BY <1>2, <1>3, <2>1, RedisMoves
<1> QED BY <1>4, <1>5

LEMMA RedisCheckStep ==
  ASSUME KvInv, NEW c \in KvCallers, RedisCheck(c)
  PROVE  KvInv' /\ VersionsStep
<1> DEFINE u == users[c]
           p == [u EXCEPT !.pc = "checked", !.seen = ReadRow]
<1>1. /\ u \in User /\ row \in Rows /\ watch \in {"none", "clean", "dirty"}
      /\ ReadRow \in [version : 0..MaxKvVersion, value : Values \cup {NoValue}]
  BY DEF KvInv, Rows, ReadRow
<1>2. p \in User /\ IdleUser \in User
  BY <1>1, IdleFits DEF User
<1>3. /\ engine = "redis" /\ engine' = engine /\ row' = row /\ chunks' = chunks /\ rowLock' = rowLock /\ misled' = misled
      /\ watch' \in {"none", "clean", "dirty"}
  BY <1>1 DEF RedisCheck
<1>4. users' = [users EXCEPT ![c] = p] \/ users' = [users EXCEPT ![c] = IdleUser]
  BY DEF RedisCheck, Leave
<1> HIDE DEF p
<1> QED BY <1>2, <1>3, <1>4, RedisMoves

\* A write of Redis: the versions of what was read may be old.
LEMMA RedisWrites ==
  ASSUME KvInv, engine = "redis", NEW c \in KvCallers, row' = NewRow(users[c].op, users[c].value, users[c].seen.version),
         users' = [x \in KvCallers |-> IF x = c THEN IdleUser ELSE [users[x] EXCEPT !.fresh = FALSE]],
         engine' = engine, chunks' = chunks, rowLock' = rowLock, watch' \in {"none", "clean", "dirty"},
         misled' \subseteq Misleading, row'.version <= MaxKvVersion
  PROVE  KvInv' /\ VersionsStep
<1> DEFINE u == users[c]
<1>1. /\ u.op \in Ops /\ u.value \in Values /\ u.seen.version \in 0..MaxKvVersion
      /\ chunks \in [1..2 -> Values \cup {NoValue}] /\ rowLock \in KvCallers \cup {NoValue}
  BY DEF KvInv, User
<1>2. u.seen.version \in Nat
  BY <1>1, KvConstants
<1> HIDE DEF u
<1>3. row' = NewRow(u.op, u.value, u.seen.version)
  BY DEF u
<1>4. row' \in Rows
  BY <1>1, <1>2, <1>3, RowWritten
<1>5. ChunksOK(engine, row', chunks')
  BY DEF ChunksOK
<1>6. KvInv'
  BY <1>1, <1>4, <1>5, Outdates
<1>7. VersionsStep
  BY DEF VersionsStep
<1> QED BY <1>6, <1>7

LEMMA RedisSetStep ==
  ASSUME KvInv, NEW c \in KvCallers, RedisSet(c), row'.version <= MaxKvVersion
  PROVE  KvInv' /\ VersionsStep
<1>1. /\ engine = "redis" /\ row' = NewRow(users[c].op, users[c].value, users[c].seen.version) /\ Wrote(c)
      /\ engine' = engine /\ chunks' = chunks /\ rowLock' = rowLock /\ misled' = misled
      /\ misled \subseteq Misleading /\ watch \in {"none", "clean", "dirty"}
  BY DEF RedisSet, KvInv
<1> QED BY <1>1, WroteUsers, RedisWrites

LEMMA RedisExecStep ==
  ASSUME KvInv, NEW c \in KvCallers, RedisExec(c), row'.version <= MaxKvVersion
  PROVE  KvInv' /\ VersionsStep
<1>1. /\ engine = "redis" /\ users[c].op = "commit" /\ engine' = engine /\ chunks' = chunks /\ rowLock' = rowLock
      /\ watch' \in {"none", "clean", "dirty"}
  BY DEF RedisExec
<1>2. CASE watch = "dirty"
  <2>1. users' = [users EXCEPT ![c] = IdleUser] /\ row' = row /\ misled' = misled
    BY <1>2 DEF RedisExec, Leave
  <2> QED BY <1>1, <2>1, IdleFits, RedisMoves
<1>3. CASE watch # "dirty"
  <2>1. /\ row' = NewRow(users[c].op, users[c].value, users[c].seen.version) /\ Judged(c)
        /\ users' = [x \in KvCallers |-> IF x = c THEN IdleUser ELSE [users[x] EXCEPT !.fresh = FALSE]]
    BY <1>1, <1>3 DEF RedisExec
  <2>2. misled' \subseteq Misleading
    BY <1>1, <2>1, JudgedRight
  <2> QED BY <1>1, <2>1, <2>2, RedisWrites
<1> QED BY <1>2, <1>3

----------------------------------------------------------------------------
(* Deno KV: the stamp of the entry and its chunks.                          *)

LEMMA DenoReadStep ==
  ASSUME KvInv, NEW c \in KvCallers, DenoRead(c)
  PROVE  KvInv' /\ VersionsStep
<1> DEFINE u == users[c]
           q == [u EXCEPT !.pc = "checked", !.seen = ReadRow, !.fresh = TRUE]
<1>1. /\ u \in User /\ row \in Rows /\ watch \in {"none", "clean", "dirty"} /\ UserOK(engine, row, rowLock, c, u)
      /\ ReadRow \in [version : 0..MaxKvVersion, value : Values \cup {NoValue}] /\ ReadRow.version = row.version
  BY DEF KvInv, Rows, ReadRow
<1>2. /\ engine = "deno" /\ u.pc = "read" /\ engine' = engine /\ row' = row /\ chunks' = chunks /\ rowLock' = rowLock
      /\ misled' = misled /\ watch' \in {"none", "clean", "dirty"}
  BY <1>1 DEF DenoRead
<1>3. VersionsStep
  BY <1>1, <1>2, SameRow
<1>4. CASE u.op = "commit" /\ LiveVersion # u.expected
  <2>1. Leave(c)
    BY <1>4 DEF DenoRead, Leave
  <2> QED BY <1>2, <1>3, <2>1, UserLeft
<1>5. CASE ~(u.op = "commit" /\ LiveVersion # u.expected)
  <2>1. users' = [users EXCEPT ![c] = q]
    BY <1>5 DEF DenoRead
  <2>2. u.op = "commit" => u.expected = LiveOf(row)
    BY <1>5 DEF LiveOf, LiveVersion
  <2>3. q \in User /\ q.pc = "checked" /\ q.seen = ReadRow /\ q.op = u.op /\ q.expected = u.expected /\ q.answer = u.answer
    BY <1>1 DEF User
  <2>4. u.answer = NoChunks
    BY <1>1, <1>2 DEF UserOK, ReadingOK
  <2> HIDE DEF u, q
  <2>5. StampOK(engine, row, q)
    BY <1>1, <2>2, <2>3 DEF StampOK
  <2>6. LockOK(engine, row, rowLock, c, q) /\ ReadingOK(engine, q) /\ GettingOK(engine, row, q) /\ GotOK(engine, q)
    BY <1>2, <2>3, <2>4 DEF LockOK, ReadingOK, GettingOK, GotOK
  <2>7. UserOK(engine, row, rowLock, c, q)
    BY <2>3, <2>5, <2>6 DEF UserOK
  <2> QED BY <1>2, <1>3, <2>1, <2>7, UserReplaced
<1> QED BY <1>4, <1>5

LEMMA ChunksWritten ==
  ASSUME chunks \in [1..2 -> Values \cup {NoValue}], NEW c, NEW v \in Values
  PROVE  /\ DenoChunks(c, v) \in [1..2 -> Values \cup {NoValue}]
         /\ \A i \in 1..ChunkCount(v) : DenoChunks(c, v)[i] = v
<1>1. DenoChunks(c, v) \in [1..2 -> Values \cup {NoValue}]
  BY DEF DenoChunks
<1>2. ChunkCount(v) \in {0, 1, 2}
  BY ChunkCounts
<1>3. \A i \in 1..ChunkCount(v) : i \in 1..2 /\ i <= ChunkCount(v)
  BY <1>2
<1>4. \A i \in 1..ChunkCount(v) : DenoChunks(c, v)[i] = v
  BY <1>3 DEF DenoChunks
<1> QED BY <1>1, <1>4

LEMMA DenoCommitStep ==
  ASSUME KvInv, NEW c \in KvCallers, DenoCommit(c), row'.version <= MaxKvVersion
  PROVE  KvInv' /\ VersionsStep
<1> DEFINE u == users[c]
           b == IF u.op = "commit" THEN LiveVersion ELSE u.seen.version
<1>1. /\ u \in User /\ u.op \in Ops /\ u.value \in Values /\ row \in Rows /\ watch \in {"none", "clean", "dirty"}
      /\ chunks \in [1..2 -> Values \cup {NoValue}] /\ rowLock \in KvCallers \cup {NoValue}
      /\ UserOK(engine, row, rowLock, c, u) /\ row.version \in Nat
  BY KvConstants DEF KvInv, User, Rows
<1>2. /\ engine = "deno" /\ u.pc = "checked" /\ u.op # "delete" /\ u.fresh
      /\ row' = NewRow(u.op, u.value, b) /\ chunks' = DenoChunks(c, u.value) /\ Wrote(c) /\ Judged(c)
      /\ engine' = engine /\ rowLock' = rowLock
  BY DEF DenoCommit
<1>3. u.seen.version = row.version /\ (u.op = "commit" => u.expected \in {LiveVersion, row.version})
  BY <1>1, <1>2 DEF UserOK, StampOK, LiveOf, LiveVersion
<1>4. b = row.version \/ (b = 0 /\ LiveVersion = 0)
  BY <1>3 DEF LiveVersion
<1>5. misled' \subseteq Misleading
  BY <1>2, <1>3, JudgedRight
<1> HIDE DEF b, u
<1>6. b \in Nat
  BY <1>1, <1>4
<1>7. row' \in Rows /\ row'.version \in {0, b + 1} /\ row'.value = u.value
  BY <1>1, <1>2, <1>6, RowWritten
<1>8. chunks' \in [1..2 -> Values \cup {NoValue}] /\ ChunksOK(engine, row', chunks')
  BY <1>1, <1>2, <1>7, ChunksWritten DEF ChunksOK
<1>9. KvInv'
  BY <1>1, <1>2, <1>5, <1>7, <1>8, WroteUsers, Outdates
<1>10. VersionsStep
  BY <1>1, <1>4, <1>7, NextVersion
<1> QED BY <1>9, <1>10

LEMMA DenoConflictStep ==
  ASSUME KvInv, NEW c \in KvCallers, DenoConflict(c)
  PROVE  KvInv' /\ VersionsStep
<1> DEFINE u == users[c]
           q == [u EXCEPT !.pc = "read", !.tries = u.tries + 1]
<1>1. u \in User /\ row \in Rows /\ watch \in {"none", "clean", "dirty"} /\ UserOK(engine, row, rowLock, c, u)
  BY DEF KvInv
<1>2. /\ engine = "deno" /\ u.pc = "checked" /\ engine' = engine /\ row' = row /\ chunks' = chunks /\ rowLock' = rowLock
      /\ misled' = misled /\ watch' \in {"none", "clean", "dirty"}
  BY <1>1 DEF DenoConflict
<1>3. VersionsStep
  BY <1>1, <1>2, SameRow
<1>4. CASE u.op = "commit" \/ u.tries = MaxCasRetries - 1
  <2>1. Leave(c)
    BY <1>4 DEF DenoConflict, Leave
  <2> QED BY <1>2, <1>3, <2>1, UserLeft
<1>5. CASE ~(u.op = "commit" \/ u.tries = MaxCasRetries - 1)
  <2>1. users' = [users EXCEPT ![c] = q]
    BY <1>5 DEF DenoConflict
  <2>2. u.tries \in 0..(MaxCasRetries - 1) /\ u.tries # MaxCasRetries - 1
    BY <1>1, <1>5 DEF User
  <2> DEFINE n == u.tries + 1
  <2>3. n \in 0..(MaxCasRetries - 1)
    BY <2>2, KvConstants
  <2> HIDE DEF n
  <2>4. q = [u EXCEPT !.pc = "read", !.tries = n]
    BY DEF n
  <2> HIDE DEF q
  <2>5. q \in User /\ q.pc = "read" /\ q.answer = u.answer
    BY <1>1, <2>3, <2>4 DEF User
  <2>6. u.answer = NoChunks
    BY <1>1, <1>2 DEF UserOK, ReadingOK
  <2>7. UserOK(engine, row, rowLock, c, q)
    BY <2>5, <2>6 DEF UserOK, LockOK, StampOK, ReadingOK, GettingOK, GotOK
  <2> QED BY <1>2, <1>3, <2>1, <2>7, UserReplaced
<1> QED BY <1>4, <1>5

LEMMA DenoDeleteStep ==
  ASSUME KvInv, NEW c \in KvCallers, DenoDelete(c)
  PROVE  KvInv' /\ VersionsStep
<1>1. /\ engine = "deno" /\ row' = NoRow /\ Wrote(c) /\ engine' = engine /\ rowLock' = rowLock /\ misled' = misled
      /\ chunks' = [i \in 1..2 |-> IF i <= ChunkCount(users[c].seen.value) THEN NoValue ELSE chunks[i]]
      /\ misled \subseteq Misleading /\ watch \in {"none", "clean", "dirty"} /\ rowLock \in KvCallers \cup {NoValue}
      /\ chunks \in [1..2 -> Values \cup {NoValue}]
  BY DEF DenoDelete, KvInv
<1>2. chunks' \in [1..2 -> Values \cup {NoValue}]
  BY <1>1
<1>3. ChunksOK(engine, row', chunks')
  BY <1>1, ChunkCounts, NoRowFits DEF ChunksOK
<1>4. row' \in Rows /\ row'.version = 0
  BY <1>1, NoRowFits
<1>5. KvInv'
  BY <1>1, <1>2, <1>3, <1>4, WroteUsers, Outdates
<1> QED BY <1>4, <1>5, RowGone

\* How many chunks a caller has, and which is next.
LEMMA NextChunk ==
  ASSUME NEW a \in [1..2 -> Values \cup {NoValue}], a[2] = NoValue
  PROVE  Cardinality({j \in 1..2 : a[j] # NoValue}) + 1 = IF a[1] = NoValue THEN 1 ELSE 2
<1> DEFINE S == {j \in 1..2 : a[j] # NoValue}
<1>1. CASE a[1] = NoValue
  <2>1. \A j \in 1..2 : a[j] = NoValue
    BY <1>1
  <2>2. S = {}
    BY <2>1
  <2>3. Cardinality(S) = 0
    BY <2>2, FS_EmptySet
  <2> QED BY <1>1, <2>3
<1>2. CASE a[1] # NoValue
  <2>1. S = {1}
    BY <1>2
  <2>2. Cardinality(S) = 1
    BY <2>1, FS_Singleton
  <2> QED BY <1>2, <2>2
<1> QED BY <1>1, <1>2

LEMMA DenoGetChunkStep ==
  ASSUME KvInv, NEW c \in KvCallers, DenoGetChunk(c)
  PROVE  KvInv' /\ VersionsStep
<1> DEFINE u == users[c]
           i == IF u.answer[1] = NoValue THEN 1 ELSE 2
           n == ChunkCount(u.seen.value)
           a == [u.answer EXCEPT ![i] = chunks[i]]
           p == IF i = n \/ chunks[i] = NoValue THEN "got" ELSE "chunks"
           q == [u EXCEPT !.answer = a, !.pc = p]
<1>1. /\ u \in User /\ row \in Rows /\ watch \in {"none", "clean", "dirty"} /\ UserOK(engine, row, rowLock, c, u)
      /\ chunks \in [1..2 -> Values \cup {NoValue}] /\ ChunksOK(engine, row, chunks)
      /\ u.answer \in [1..2 -> Values \cup {NoValue}] /\ engine = "deno" /\ u.pc = "chunks"
  BY DEF KvInv, User, DenoGetChunk
<1>2. /\ n \in {1, 2} /\ u.answer[2] = NoValue /\ (u.answer[1] # NoValue => n = 2)
      /\ u.fresh => u.seen.value = row.value /\ u.answer[1] \in {NoValue, row.value}
  BY <1>1 DEF UserOK, GettingOK
<1>3. Cardinality({j \in 1..2 : u.answer[j] # NoValue}) + 1 = i
  BY <1>1, <1>2, NextChunk
<1>4. /\ users' = [users EXCEPT ![c] = q] /\ engine' = engine /\ row' = row /\ chunks' = chunks /\ rowLock' = rowLock
      /\ misled' = misled /\ watch' = watch
  <2> DEFINE m == Cardinality({j \in 1..2 : u.answer[j] # NoValue}) + 1
  <2>1. /\ users' = [users EXCEPT ![c] = [u EXCEPT !.answer[m] = chunks[m],
                                                   !.pc = IF m = n \/ chunks[m] = NoValue THEN "got" ELSE "chunks"]]
        /\ engine' = engine /\ row' = row /\ chunks' = chunks /\ rowLock' = rowLock
        /\ misled' = misled /\ watch' = watch
    BY DEF DenoGetChunk
  <2>2. m = i
    BY <1>3
  <2> HIDE DEF m, i, n
  <2> QED BY <2>1, <2>2
<1>5. VersionsStep
  BY <1>1, <1>4, SameRow
<1>6. /\ i \in 1..2 /\ chunks[i] \in Values \cup {NoValue} /\ p \in {"got", "chunks"}
      /\ (i = 1 => u.answer[1] = NoValue) /\ (i = 2 => u.answer[1] # NoValue)
  BY <1>1
<1>7. p = "chunks" <=> i # n /\ chunks[i] # NoValue
  OBVIOUS
<1> HIDE DEF i, p
<1>8. a \in [1..2 -> Values \cup {NoValue}] /\ a[i] = chunks[i] /\ \A j \in 1..2 : j # i => a[j] = u.answer[j]
  BY <1>1, <1>6
<1> HIDE DEF a
<1>9. q \in User /\ q.pc = p /\ q.answer = a /\ q.seen = u.seen /\ q.fresh = u.fresh
  BY <1>1, <1>6, <1>8 DEF User
<1>10. q.fresh => u.fresh
  BY <1>9
<1>11. u.fresh => \A j \in 1..n : chunks[j] = row.value
  BY <1>1, <1>2 DEF ChunksOK
<1>12. n = ChunkCount(q.seen.value)
  BY <1>9
<1> HIDE DEF q, n, u
<1>13. LockOK(engine, row, rowLock, c, q) /\ StampOK(engine, row, q) /\ ReadingOK(engine, q)
  BY <1>1, <1>6, <1>9 DEF LockOK, StampOK, ReadingOK
<1>14. GettingOK(engine, row, q)
  <2> SUFFICES ASSUME p = "chunks"
               PROVE  /\ n \in {1, 2} /\ a[2] = NoValue /\ (a[1] # NoValue => n = 2)
                      /\ q.fresh => u.seen.value = row.value /\ a[1] \in {NoValue, row.value}
    BY <1>9, <1>12 DEF GettingOK
  <2>1. i = 1 /\ n = 2
    BY <1>2, <1>6, <1>7
  <2>2. a[1] = chunks[1] /\ a[2] = NoValue
    BY <1>2, <1>8, <2>1
  <2>3. ASSUME q.fresh PROVE u.seen.value = row.value /\ chunks[1] = row.value
    <3>1. 1 \in 1..n
      BY <2>1
    <3> QED BY <1>2, <1>10, <1>11, <2>3, <3>1
  <2> QED BY <1>2, <2>1, <2>2, <2>3
<1>15. GotOK(engine, q)
  <2> SUFFICES ASSUME p = "got", q.fresh, NEW j \in 1..n PROVE a[j] = u.seen.value
    BY <1>9, <1>12 DEF GotOK
  <2>1. u.fresh /\ u.seen.value = row.value /\ u.answer[1] \in {NoValue, row.value} /\ j \in 1..2
    BY <1>2, <1>10
  <2>2. \A k \in 1..n : chunks[k] = row.value
    BY <1>11, <2>1
  <2>3. i \in 1..n
    BY <1>2, <1>6
  <2>4. row.value # NoValue
    <3>1. ChunkCount(row.value) # 0
      BY <1>2, <1>12, <1>9, <2>1
    <3> QED BY <3>1, ChunkCounts
  <2>5. i = n
    BY <1>7, <2>2, <2>3, <2>4
  <2>6. CASE j = i
    BY <1>8, <2>1, <2>2, <2>3, <2>6
  <2>7. CASE j # i
    <3>1. j = 1 /\ i = 2
      BY <1>2, <1>6, <2>1, <2>5, <2>7
    <3> QED BY <1>6, <1>8, <2>1, <3>1
  <2> QED BY <2>6, <2>7
<1>16. UserOK(engine, row, rowLock, c, q)
  BY <1>9, <1>13, <1>14, <1>15 DEF UserOK
<1>17. KvInv'
  BY <1>1, <1>4, <1>16, UserReplaced
<1> QED BY <1>5, <1>17

----------------------------------------------------------------------------
(* A time to live passes: a stamp does not change by that.                  *)

LEMMA ExpireStep ==
  ASSUME KvInv, Expire
  PROVE  KvInv' /\ VersionsStep
<1>1. /\ row.expiry = "pending" /\ row \in Rows /\ engine' = engine /\ chunks' = chunks /\ users' = users
      /\ rowLock' = rowLock /\ watch' = watch /\ misled' = misled
      /\ row' = IF engine = "redis" THEN NoRow ELSE [row EXCEPT !.expiry = "over"]
      /\ users \in [KvCallers -> User]
  BY DEF Expire, KvInv
<1>2. CASE engine = "redis"
  <2>1. row' = NoRow /\ engine \notin {"postgres", "deno"}
    BY <1>1, <1>2
  <2>2. \A x \in KvCallers : UserOK(engine, row', rowLock, x, users[x])
    BY <1>1, <2>1, PlainFits
  <2>3. ChunksOK(engine, row', chunks)
    BY <2>1 DEF ChunksOK
  <2>4. row' \in Rows /\ row'.version = 0
    BY <2>1, NoRowFits
  <2>5. KvInv'
    BY <1>1, <2>2, <2>3, <2>4 DEF KvInv
  <2> QED BY <2>4, <2>5, RowGone
<1>3. CASE engine # "redis"
  <2>1. row' = [row EXCEPT !.expiry = "over"]
    BY <1>1, <1>3
  <2>2. row' \in Rows /\ row'.version = row.version /\ row'.value = row.value /\ row'.expiry = "over"
    BY <1>1, <2>1 DEF Rows, Expiry
  <2>3. LiveOf(row) = row.version /\ LiveOf(row') = 0
    BY <1>1, <2>2 DEF LiveOf
  <2>4. ASSUME NEW x \in KvCallers PROVE UserOK(engine, row', rowLock, x, users[x])
    <3> DEFINE u == users[x]
    <3>1. UserOK(engine, row, rowLock, x, u)
      BY DEF KvInv
    <3> HIDE DEF u
    <3>2. LockOK(engine, row', rowLock, x, u)
      BY <2>2, <3>1 DEF UserOK, LockOK
    <3>3. StampOK(engine, row', u)
      BY <2>2, <2>3, <3>1 DEF UserOK, StampOK
    <3>4. GettingOK(engine, row', u)
      BY <2>2, <3>1 DEF UserOK, GettingOK
    <3>5. UserOK(engine, row', rowLock, x, u)
      BY <3>1, <3>2, <3>3, <3>4 DEF UserOK
    <3> QED BY <3>5 DEF u
  <2>5. ChunksOK(engine, row', chunks)
    BY <2>2 DEF KvInv, ChunksOK
  <2>6. KvInv'
    BY <1>1, <2>2, <2>4, <2>5 DEF KvInv
  <2>7. row' = [row EXCEPT !.expiry = row'.expiry]
    BY <2>1, <2>2
  <2>8. VersionsStep
    BY <2>7 DEF VersionsStep
  <2> QED BY <2>6, <2>8
<1> QED BY <1>2, <1>3

LEMMA KvStep == KvInv /\ [KvNext]_kvVars => KvInv' /\ [VersionsStep]_kvVars
<1> SUFFICES ASSUME KvInv, [KvNext]_kvVars PROVE KvInv' /\ [VersionsStep]_kvVars
  OBVIOUS
<1>1. CASE UNCHANGED kvVars
  <2>1. KvInv'
    BY <1>1 DEF kvVars, KvInv
  <2> QED BY <1>1, <2>1
<1>2. CASE KvNext
  <2>1. row'.version <= MaxKvVersion
    BY <1>2 DEF KvNext
  <2>2. ASSUME Expire PROVE KvInv' /\ VersionsStep
    BY <2>2, ExpireStep
  <2>3. ASSUME NEW c \in KvCallers, NEW op \in Ops, NEW v \in Values, NEW x \in 0..MaxKvVersion, Begin(c, op, v, x)
        PROVE  KvInv' /\ VersionsStep
    BY <2>3, BeginStep
  <2>4. ASSUME NEW c \in KvCallers,
               ApplyCommit(c) \/ Mismatch(c) \/ Get(c) \/ Got(c) \/ PostgresCheck(c) \/ PostgresCommit(c)
        PROVE  KvInv' /\ VersionsStep
    BY <2>1, <2>4, ApplyStep, MismatchStep, GetStep, GotStep, PostgresCheckStep, PostgresCommitStep
  <2>5. ASSUME NEW c \in KvCallers,
               RedisRead(c) \/ RedisSet(c) \/ RedisWatch(c) \/ RedisCheck(c) \/ RedisExec(c)
        PROVE  KvInv' /\ VersionsStep
    BY <2>1, <2>5, RedisReadStep, RedisSetStep, RedisCheckStep, RedisExecStep
  <2>6. ASSUME NEW c \in KvCallers,
               DenoRead(c) \/ DenoCommit(c) \/ DenoConflict(c) \/ DenoDelete(c) \/ DenoGetChunk(c)
        PROVE  KvInv' /\ VersionsStep
    BY <2>1, <2>6, DenoReadStep, DenoCommitStep, DenoConflictStep, DenoDeleteStep, DenoGetChunkStep
  <2>7. /\ {"get", "delete", "set", "setTtl", "commit"} \subseteq Ops /\ Written \subseteq Values
        /\ Small \in Values /\ Big \in Values
    BY DEF Ops, Written, Values
  <2>8. 0 \in 0..MaxKvVersion /\ LiveVersion \in 0..MaxKvVersion
    BY KvConstants DEF KvInv, Rows, LiveVersion
  <2>9. ASSUME NEW c \in KvCallers,
               \/ \E op \in {"get", "delete"} : Begin(c, op, Small, 0)
               \/ \E v \in Written : Begin(c, "set", v, 0)
               \/ Begin(c, "setTtl", Small, 0)
               \/ Begin(c, "commit", Big, LiveVersion)
        PROVE  KvInv' /\ VersionsStep
    <3>1. ASSUME NEW op \in {"get", "delete"}, Begin(c, op, Small, 0) PROVE KvInv' /\ VersionsStep
      <4>1. op \in Ops
        BY <2>7
      <4> QED BY <2>3, <2>7, <2>8, <3>1, <4>1
    <3>2. ASSUME NEW v \in Written, Begin(c, "set", v, 0) PROVE KvInv' /\ VersionsStep
      <4>1. "set" \in Ops /\ v \in Values
        BY <2>7
      <4> QED BY <2>3, <2>8, <3>2, <4>1
    <3>3. ASSUME Begin(c, "setTtl", Small, 0) PROVE KvInv' /\ VersionsStep
      <4>1. "setTtl" \in Ops
        BY <2>7
      <4> QED BY <2>3, <2>7, <2>8, <3>3, <4>1
    <3>4. ASSUME Begin(c, "commit", Big, LiveVersion) PROVE KvInv' /\ VersionsStep
      <4>1. "commit" \in Ops
        BY <2>7
      <4> QED BY <2>3, <2>7, <2>8, <3>4, <4>1
    <3> QED BY <2>9, <3>1, <3>2, <3>3, <3>4
  <2>10. KvInv' /\ VersionsStep
    BY <1>2, <2>2, <2>4, <2>5, <2>6, <2>9 DEF KvNext
  <2> QED BY <2>10
<1> QED BY <1>1, <1>2

LEMMA KvPromises == KvInv => KvTypeOK /\ CommitsCheckedMostly /\ QuietGetWhole
<1> SUFFICES ASSUME KvInv PROVE KvTypeOK /\ CommitsCheckedMostly /\ QuietGetWhole
  OBVIOUS
<1>1. Misleading \subseteq Engines \X {"create", "update"}
  BY DEF Misleading, Engines
<1>2. KvTypeOK
  BY <1>1 DEF KvInv, KvTypeOK
<1>3. CommitsCheckedMostly
  BY DEF KvInv, CommitsCheckedMostly, Misleading
<1>4. QuietGetWhole
  BY DEF KvInv, QuietGetWhole, UserOK, GotOK
<1> QED BY <1>2, <1>3, <1>4

\* The key-value providers keep their promises, for any number of callers, versions, retries
\* and keys: a commit succeeds only against the version it expects (SQLite, the maps and
\* Deno KV always, Postgres for a key that exists), versions but those of Redis move by one
\* or start anew, a read that no write disturbs is whole, and a scan of a database from page
\* to page returns every key that stays exactly once (providers/kv).
THEOREM KvIsSafe == KvSpec /\ ListingSpec => KvSafe
<1>1. KvInv => KvTypeOK /\ CommitsCheckedMostly /\ QuietGetWhole
  BY KvPromises
<1>2. ScanInv => ListingTypeOK /\ ScanComplete
  BY DEF ScanInv, ScanComplete, ListingTypeOK
<1> QED BY <1>1, <1>2, KvStart, KvStep, ListingStart, ListingStep, PTL DEF KvSpec, ListingSpec, KvSafe

----------------------------------------------------------------------------
(* Object keys: sequences of characters, joined with slashes.               *)

Strings == Seq(Chars)

\* A slash and what follows it.
Below(x) == <<Slash>> \o x

\* A segment and what follows it.
Segment(a, x) == a \o Below(x)

Joined(org, project, x) == Segment(org, Segment(project, x))

SlashFree(s) == \A i \in 1..Len(s) : s[i] # Slash

\* The character at a place, a slash before the first and after the last one.
At(s, i) == IF i \in 1..Len(s) THEN s[i] ELSE Slash

\* No segment is empty or ".".
Clean(s) == \A i \in 0..Len(s) : At(s, i) = Slash => At(s, i + 1) # Slash /\ ~(At(s, i + 1) = Dot /\ At(s, i + 2) = Slash)

LEMMA SlashString == <<Slash>> \in Strings /\ Len(<<Slash>>) = 1 /\ <<Slash>>[1] = Slash
BY TenantAssumption DEF Strings

LEMMA StringLength ==
  ASSUME NEW s \in Strings
  PROVE  Len(s) \in Nat /\ DOMAIN s = 1..Len(s) /\ \A i \in 1..Len(s) : s[i] \in Chars
BY LenProperties, ElementOfSeq DEF Strings

LEMMA Concatenated ==
  ASSUME NEW s \in Strings, NEW t \in Strings
  PROVE  /\ s \o t \in Strings /\ Len(s \o t) = Len(s) + Len(t)
         /\ \A i \in 1..Len(s) : (s \o t)[i] = s[i]
         /\ \A i \in 1..Len(t) : (s \o t)[Len(s) + i] = t[i]
<1>1. /\ s \o t \in Seq(Chars) /\ Len(s \o t) = Len(s) + Len(t)
      /\ \A i \in 1..(Len(s) + Len(t)) : (s \o t)[i] = IF i <= Len(s) THEN s[i] ELSE t[i - Len(s)]
  BY ConcatProperties DEF Strings
<1>2. Len(s) \in Nat /\ Len(t) \in Nat
  BY StringLength
<1> DEFINE n == Len(s)
           m == Len(t)
           w == s \o t
<1>3. /\ n \in Nat /\ m \in Nat
      /\ \A i \in 1..(n + m) : w[i] = IF i <= n THEN s[i] ELSE t[i - n]
  BY <1>1, <1>2
<1> HIDE DEF n, m, w
<1>4. ASSUME NEW i \in 1..n PROVE w[i] = s[i]
  <2>1. i \in 1..(n + m) /\ i <= n
    BY <1>3
  <2> QED BY <1>3, <2>1
<1>5. ASSUME NEW i \in 1..m PROVE w[n + i] = t[i]
  <2>1. n + i \in 1..(n + m) /\ ~(n + i <= n) /\ (n + i) - n = i
    BY <1>3
  <2> QED BY <1>3, <2>1
<1> QED BY <1>1, <1>4, <1>5 DEF Strings, n, m, w

LEMMA BelowString ==
  ASSUME NEW x \in Strings
  PROVE  /\ Below(x) \in Strings /\ Len(Below(x)) = Len(x) + 1 /\ Below(x)[1] = Slash
         /\ \A i \in 1..Len(x) : Below(x)[i + 1] = x[i]
<1>1. /\ Below(x) \in Strings /\ Len(Below(x)) = 1 + Len(x)
      /\ \A i \in 1..1 : Below(x)[i] = <<Slash>>[i]
      /\ \A i \in 1..Len(x) : Below(x)[1 + i] = x[i]
  BY SlashString, Concatenated DEF Below
<1>2. Len(x) \in Nat /\ 1 \in 1..1
  BY StringLength
<1>3. \A i \in 1..Len(x) : 1 + i = i + 1
  BY <1>2
<1> QED BY <1>1, <1>2, <1>3, SlashString

\* The first segment and what follows it.
LEMMA SegmentString ==
  ASSUME NEW a \in Strings, NEW x \in Strings
  PROVE  /\ Segment(a, x) \in Strings /\ Len(Segment(a, x)) = Len(a) + Len(x) + 1
         /\ \A i \in 1..Len(a) : Segment(a, x)[i] = a[i]
         /\ Segment(a, x)[Len(a) + 1] = Slash
         /\ \A i \in 1..Len(x) : Segment(a, x)[Len(a) + 1 + i] = x[i]
<1>1. Below(x) \in Strings /\ Len(Below(x)) = Len(x) + 1 /\ Below(x)[1] = Slash /\ \A i \in 1..Len(x) : Below(x)[i + 1] = x[i]
  BY BelowString
<1> DEFINE b == Below(x)
           w == Segment(a, x)
           n == Len(a)
           m == Len(x)
<1>2. n \in Nat /\ m \in Nat
  BY StringLength
<1>0. w = a \o b /\ b \in Strings /\ Len(b) = m + 1
  BY <1>1 DEF Segment
<1> HIDE DEF w, b
<1>3. /\ w \in Strings /\ Len(w) = n + (m + 1) /\ (\A i \in 1..n : w[i] = a[i])
      /\ \A i \in 1..(m + 1) : w[n + i] = b[i]
  <2>1. /\ w \in Strings /\ Len(w) = Len(a) + Len(b)
        /\ \A i \in 1..Len(a) : w[i] = a[i]
        /\ \A i \in 1..Len(b) : w[Len(a) + i] = b[i]
    BY <1>0, Concatenated, Zenon
  <2> QED BY <1>0, <2>1
<1>4. b[1] = Slash /\ \A i \in 1..m : b[i + 1] = x[i]
  BY <1>1 DEF b
<1> HIDE DEF b, w, n, m
<1>5. 1 \in 1..(m + 1) /\ n + (m + 1) = n + m + 1
  BY <1>2
<1>6. \A i \in 1..m : i + 1 \in 1..(m + 1) /\ n + (i + 1) = n + 1 + i
  BY <1>2
<1>7. \A i \in 1..m : w[n + 1 + i] = x[i]
  BY <1>3, <1>4, <1>6
<1> QED BY <1>3, <1>4, <1>5, <1>7 DEF b, w, n, m

\* A slash-free segment ends at the first slash.
LEMMA SegmentsSplit ==
  ASSUME NEW a \in Strings, NEW b \in Strings, NEW x \in Strings, NEW y \in Strings,
         SlashFree(a), SlashFree(b), Segment(a, x) = Segment(b, y)
  PROVE  a = b /\ x = y
<1> DEFINE n == Len(a)
           k == Len(b)
           w == Segment(a, x)
<1>1. /\ n \in Nat /\ k \in Nat /\ Len(x) \in Nat /\ Len(y) \in Nat
  BY StringLength
<1>2. /\ Len(w) = n + Len(x) + 1 /\ (\A i \in 1..n : w[i] = a[i]) /\ w[n + 1] = Slash
      /\ \A i \in 1..Len(x) : w[n + 1 + i] = x[i]
  BY SegmentString
<1>0. w = Segment(b, y)
  OBVIOUS
<1>3. /\ Len(w) = k + Len(y) + 1 /\ (\A i \in 1..k : w[i] = b[i]) /\ w[k + 1] = Slash
      /\ \A i \in 1..Len(y) : w[k + 1 + i] = y[i]
  <2> HIDE DEF w
  <2> QED BY <1>0, SegmentString
<1> HIDE DEF w
<1>4. ~(n < k)
  <2> SUFFICES ASSUME n < k PROVE FALSE
    OBVIOUS
  <2>1. n + 1 \in 1..k
    BY <1>1
  <2>2. b[n + 1] = Slash
    BY <1>2, <1>3, <2>1
  <2> QED BY <2>1, <2>2 DEF SlashFree
<1>5. ~(k < n)
  <2> SUFFICES ASSUME k < n PROVE FALSE
    OBVIOUS
  <2>1. k + 1 \in 1..n
    BY <1>1
  <2>2. a[k + 1] = Slash
    BY <1>2, <1>3, <2>1
  <2> QED BY <2>1, <2>2 DEF SlashFree
<1>6. n = k
  BY <1>1, <1>4, <1>5
<1>7. Len(x) = Len(y)
  BY <1>1, <1>2, <1>3, <1>6
<1>8. \A i \in 1..n : a[i] = b[i]
  BY <1>2, <1>3, <1>6
<1>9. \A i \in 1..Len(x) : x[i] = y[i]
  BY <1>2, <1>3, <1>6, <1>7
<1>10. a = b
  BY <1>6, <1>8, SeqEqual DEF Strings
<1>11. x = y
  BY <1>7, <1>9, SeqEqual DEF Strings
<1> QED BY <1>10, <1>11

LEMMA JoinedString ==
  ASSUME NEW a \in Strings, NEW b \in Strings, NEW x \in Strings
  PROVE  Segment(b, x) \in Strings /\ Joined(a, b, x) \in Strings
<1>1. Segment(b, x) \in Strings
  BY SegmentString
<1> QED BY <1>1, SegmentString DEF Joined

LEMMA JoinedSplit ==
  ASSUME NEW a \in Strings, NEW b \in Strings, NEW c \in Strings, NEW d \in Strings, NEW x \in Strings, NEW y \in Strings,
         SlashFree(a), SlashFree(b), SlashFree(c), SlashFree(d), Joined(a, b, x) = Joined(c, d, y)
  PROVE  a = c /\ b = d /\ x = y
<1> DEFINE u == Segment(b, x)
           v == Segment(d, y)
<1>1. u \in Strings /\ v \in Strings
  BY JoinedString
<1>2. Segment(a, u) = Segment(c, v)
  BY DEF Joined
<1> HIDE DEF u, v
<1>3. a = c /\ u = v
  BY <1>1, <1>2, SegmentsSplit
<1>4. b = d /\ x = y
  BY <1>3, SegmentsSplit DEF u, v
<1> QED BY <1>3, <1>4

Cat(s, t) == s \o t

LEMMA CatString ==
  ASSUME NEW s \in Strings, NEW t \in Strings
  PROVE  Cat(s, t) \in Strings /\ Len(Cat(s, t)) = Len(s) + Len(t)
BY Concatenated DEF Cat

LEMMA CatAssociates ==
  ASSUME NEW s \in Strings, NEW t \in Strings, NEW u \in Strings
  PROVE  Cat(Cat(s, t), u) = Cat(s, Cat(t, u))
<1>1. s \in Seq(Chars) /\ t \in Seq(Chars) /\ u \in Seq(Chars)
  BY DEF Strings
<1>2. (s \o t) \o u = s \o (t \o u)
  BY <1>1, ConcatAssociative
<1> QED BY <1>2 DEF Cat

\* The prefixes as joined names.
LEMMA PrefixesJoined ==
  ASSUME NEW t, t.org \in Strings, t.project \in Strings, NEW b \in Strings, NEW k \in Strings
  PROVE  /\ BucketPrefix(t, b) \o k = Joined(t.org, t.project, Segment(b, k))
         /\ TenantPrefix(t) \o k = Joined(t.org, t.project, k)
         /\ TenantPrefix(t) \in Strings /\ Len(TenantPrefix(t)) = Len(t.org) + Len(t.project) + 2
<1> DEFINE o == t.org
           p == t.project
           s == <<Slash>>
           q == Cat(Cat(Cat(o, s), p), s)
<1>1. o \in Strings /\ p \in Strings /\ s \in Strings /\ Len(s) = 1
  BY SlashString
<1>2. BucketPrefix(t, b) \o k = Cat(Cat(Cat(q, b), s), k) /\ TenantPrefix(t) = q /\ TenantPrefix(t) \o k = Cat(q, k)
  BY DEF BucketPrefix, TenantPrefix, Cat
<1>3. /\ Joined(o, p, k) = Cat(o, Cat(s, Cat(p, Cat(s, k))))
      /\ Joined(o, p, Segment(b, k)) = Cat(o, Cat(s, Cat(p, Cat(s, Cat(b, Cat(s, k))))))
  BY DEF Joined, Segment, Below, Cat
<1> HIDE DEF o, p, s
<1>4. Cat(o, s) \in Strings /\ Cat(Cat(o, s), p) \in Strings /\ q \in Strings /\ Cat(q, b) \in Strings
  BY <1>1, CatString
<1>5. ASSUME NEW x \in Strings PROVE Cat(q, x) = Cat(o, Cat(s, Cat(p, Cat(s, x))))
  <2>1. Cat(s, x) \in Strings /\ Cat(p, Cat(s, x)) \in Strings
    BY <1>1, CatString
  <2>2. Cat(q, x) = Cat(Cat(Cat(o, s), p), Cat(s, x))
    BY <1>1, <1>4, CatAssociates
  <2>3. Cat(Cat(Cat(o, s), p), Cat(s, x)) = Cat(Cat(o, s), Cat(p, Cat(s, x)))
    BY <1>1, <1>4, <2>1, CatAssociates
  <2>4. Cat(Cat(o, s), Cat(p, Cat(s, x))) = Cat(o, Cat(s, Cat(p, Cat(s, x))))
    BY <1>1, <2>1, CatAssociates
  <2> QED BY <2>2, <2>3, <2>4
<1>6. TenantPrefix(t) \o k = Joined(o, p, k)
  BY <1>2, <1>3, <1>5
<1>7. BucketPrefix(t, b) \o k = Joined(o, p, Segment(b, k))
  <2>1. Cat(s, k) \in Strings /\ Cat(b, Cat(s, k)) \in Strings
    BY <1>1, CatString
  <2>2. Cat(q, Cat(b, Cat(s, k))) = Cat(o, Cat(s, Cat(p, Cat(s, Cat(b, Cat(s, k))))))
    BY <1>5, <2>1
  <2> HIDE DEF q
  <2>3. Cat(Cat(Cat(q, b), s), k) = Cat(Cat(q, b), Cat(s, k))
    BY <1>1, <1>4, CatAssociates
  <2>4. Cat(Cat(q, b), Cat(s, k)) = Cat(q, Cat(b, Cat(s, k)))
    BY <1>1, <1>4, <2>1, CatAssociates
  <2> QED BY <1>2, <1>3, <2>2, <2>3, <2>4
<1>8. Len(q) = Len(o) + Len(p) + 2
  <2>1. Len(o) \in Nat /\ Len(p) \in Nat
    BY <1>1, StringLength
  <2>2. Len(Cat(o, s)) = Len(o) + Len(s)
    BY <1>1, CatString
  <2>3. Len(Cat(Cat(o, s), p)) = Len(Cat(o, s)) + Len(p)
    BY <1>1, <1>4, CatString
  <2>4. Len(q) = Len(Cat(Cat(o, s), p)) + Len(s)
    BY <1>1, <1>4, CatString
  <2> HIDE DEF q
  <2> QED BY <1>1, <2>1, <2>2, <2>3, <2>4
<1> QED BY <1>2, <1>4, <1>6, <1>7, <1>8 DEF o, p

----------------------------------------------------------------------------
(* Paths: a key without empty and "." segments is its own path.             *)

\* The characters of a segment and what follows it.
LEMMA AtSegment ==
  ASSUME NEW a \in Strings, NEW x \in Strings
  PROVE  /\ \A i \in 1..Len(a) : At(Segment(a, x), i) = a[i]
         /\ At(Segment(a, x), 0) = Slash
         /\ \A i \in Nat : At(Segment(a, x), Len(a) + 1 + i) = At(x, i)
<1> DEFINE n == Len(a)
           m == Len(x)
           w == Segment(a, x)
<1>1. n \in Nat /\ m \in Nat
  BY StringLength
<1>2. /\ Len(w) = n + m + 1 /\ (\A i \in 1..n : w[i] = a[i]) /\ w[n + 1] = Slash
      /\ \A i \in 1..m : w[n + 1 + i] = x[i]
  BY SegmentString
<1> HIDE DEF n, w, m
<1>3. \A i \in 1..n : i \in 1..(n + m + 1)
  BY <1>1
<1>4. \A i \in 1..n : At(w, i) = a[i]
  BY <1>2, <1>3 DEF At
<1>5. ~(0 \in 1..(n + m + 1))
  BY <1>1
<1>6. At(w, 0) = Slash
  BY <1>2, <1>5 DEF At
<1>7. ASSUME NEW i \in Nat PROVE At(w, n + 1 + i) = At(x, i)
  <2>1. CASE i = 0
    <3>1. n + 1 + i = n + 1 /\ n + 1 \in 1..(n + m + 1) /\ ~(i \in 1..m)
      BY <1>1, <2>1
    <3> QED BY <1>2, <3>1 DEF At, m
  <2>2. CASE i \in 1..m
    <3>1. n + 1 + i \in 1..(n + m + 1)
      BY <1>1, <2>2
    <3> QED BY <1>2, <2>2, <3>1 DEF At, m
  <2>3. CASE i > m
    <3>1. ~(n + 1 + i \in 1..(n + m + 1)) /\ ~(i \in 1..m)
      BY <1>1, <2>3
    <3> QED BY <1>2, <3>1 DEF At, m
  <2> QED BY <1>1, <2>1, <2>2, <2>3
<1> QED BY <1>4, <1>6, <1>7 DEF n, w

\* A proper segment before a clean key makes a clean key.
LEMMA CleanSegment ==
  ASSUME NEW a \in Strings, NEW x \in Strings, SlashFree(a), a # <<>>, a # <<Dot>>, Clean(x)
  PROVE  Clean(Segment(a, x))
<1> DEFINE n == Len(a)
           m == Len(x)
           w == Segment(a, x)
<1>1. n \in Nat /\ m \in Nat /\ Len(w) = n + m + 1
  BY StringLength, SegmentString
<1>2. n # 0
  BY EmptySeq DEF Strings
<1>3. /\ \A i \in 1..n : At(w, i) = a[i] /\ a[i] # Slash
      /\ At(w, 0) = Slash
      /\ \A i \in Nat : At(w, n + 1 + i) = At(x, i)
  BY AtSegment DEF SlashFree
<1>4. ~(a[1] = Dot /\ n = 1)
  <2> SUFFICES ASSUME a[1] = Dot, n = 1 PROVE FALSE
    OBVIOUS
  <2>1. <<Dot>> \in Seq(Chars) /\ Len(<<Dot>>) = 1 /\ \A i \in 1..1 : a[i] = <<Dot>>[i]
    BY TenantAssumption
  <2>2. a = <<Dot>>
    BY <2>1, SeqEqual DEF Strings
  <2> QED BY <2>2
<1>5. \A j \in 0..m : At(x, j) = Slash => At(x, j + 1) # Slash /\ ~(At(x, j + 1) = Dot /\ At(x, j + 2) = Slash)
  BY DEF Clean
<1> HIDE DEF n, m, w
<1>6. ASSUME NEW i \in 0..(n + m + 1), At(w, i) = Slash
      PROVE  At(w, i + 1) # Slash /\ ~(At(w, i + 1) = Dot /\ At(w, i + 2) = Slash)
  <2>1. CASE i = 0
    <3>1. i + 1 = 1 /\ i + 2 = 2 /\ 1 \in 1..n
      BY <1>1, <1>2, <2>1
    <3>2. At(w, 1) = a[1] /\ a[1] # Slash
      BY <1>3, <3>1
    <3>3. CASE n = 1
      BY <1>4, <3>1, <3>2, <3>3
    <3>4. CASE n # 1
      <4>1. 2 \in 1..n
        BY <1>1, <1>2, <3>4
      <4>2. At(w, 2) # Slash
        BY <1>3, <4>1
      <4> QED BY <3>1, <3>2, <4>2
    <3> QED BY <3>3, <3>4
  <2>2. CASE i \in 1..n
    BY <1>3, <1>6, <2>2
  <2>3. CASE i > n
    <3> DEFINE j == i - (n + 1)
    <3>1. j \in Nat /\ j \in 0..m /\ i = n + 1 + j /\ i + 1 = n + 1 + (j + 1) /\ i + 2 = n + 1 + (j + 2)
          /\ j + 1 \in Nat /\ j + 2 \in Nat
      BY <1>1, <2>3
    <3> HIDE DEF j
    <3>2. At(w, i) = At(x, j) /\ At(w, i + 1) = At(x, j + 1) /\ At(w, i + 2) = At(x, j + 2)
      BY <1>3, <3>1
    <3> QED BY <1>5, <1>6, <3>1, <3>2
  <2> QED BY <1>1, <2>1, <2>2, <2>3
<1> QED BY <1>1, <1>6 DEF Clean, w

\* What it means that a string of two or three characters does not occur.
LEMMA NoPair ==
  ASSUME NEW w \in Strings, NEW c \in Chars, NEW d \in Chars, ~HasInfix(w, <<c, d>>), NEW i \in 1..(Len(w) - 1)
  PROVE  ~(w[i] = c /\ w[i + 1] = d)
<1> SUFFICES ASSUME w[i] = c, w[i + 1] = d PROVE FALSE
  OBVIOUS
<1> DEFINE n == Len(w)
           q == <<c, d>>
           j == i - 1
<1>1. n \in Nat /\ i \in Nat /\ i >= 1 /\ i + 1 <= n
  BY StringLength
<1>2. Len(q) = 2 /\ q \in Seq(Chars) /\ q[1] = c /\ q[2] = d
  OBVIOUS
<1>3. j \in 0..(n - 2) /\ j + 1 = i /\ j + 2 = i + 1 /\ j + 1 \in Int /\ j + 2 \in Int
  BY <1>1
<1>4. \A k \in (j + 1)..(j + 2) : w[k] \in Chars
  <2>1. \A k \in (j + 1)..(j + 2) : k \in 1..n
    BY <1>1, <1>3
  <2> QED BY <2>1, StringLength
<1> HIDE DEF j, q
<1> DEFINE u == SubSeq(w, j + 1, j + 2)
<1>5. /\ u \in Seq(Chars)
      /\ Len(u) = IF j + 1 <= j + 2 THEN (j + 2) - (j + 1) + 1 ELSE 0
      /\ \A k \in 1..((j + 2) - (j + 1) + 1) : u[k] = w[(j + 1) + k - 1]
  BY <1>3, <1>4, SubSeqProperties
<1> HIDE DEF u
<1>6. j \in Int
  BY <1>1, <1>3
<1>7. j + 1 <= j + 2 /\ (j + 2) - (j + 1) + 1 = 2 /\ (j + 1) + 1 - 1 = i /\ (j + 1) + 2 - 1 = i + 1
  BY <1>1, <1>3, <1>6
<1>8. Len(u) = 2 /\ \A k \in 1..2 : u[k] = w[(j + 1) + k - 1]
  BY <1>5, <1>7
<1>9. u[1] = c /\ u[2] = d
  <2>1. u[1] = w[(j + 1) + 1 - 1] /\ u[2] = w[(j + 1) + 2 - 1]
    BY <1>8
  <2> QED BY <1>7, <2>1
<1>10. \A k \in 1..2 : k = 1 \/ k = 2
  OBVIOUS
<1>11. u = q
  <2>1. \A k \in 1..Len(u) : u[k] = q[k]
    BY <1>2, <1>8, <1>9, <1>10
  <2> QED BY <1>2, <1>5, <1>8, <2>1, SeqEqual
<1>12. \E k \in 0..(n - 2) : SubSeq(w, k + 1, k + 2) = q
  BY <1>3, <1>11 DEF u
<1>13. HasInfix(w, q)
  BY <1>2, <1>12 DEF HasInfix
<1> QED BY <1>13 DEF q

LEMMA NoTriple ==
  ASSUME NEW w \in Strings, NEW c \in Chars, NEW d \in Chars, NEW e \in Chars, ~HasInfix(w, <<c, d, e>>),
         NEW i \in 1..(Len(w) - 2)
  PROVE  ~(w[i] = c /\ w[i + 1] = d /\ w[i + 2] = e)
<1> SUFFICES ASSUME w[i] = c, w[i + 1] = d, w[i + 2] = e PROVE FALSE
  OBVIOUS
<1> DEFINE n == Len(w)
           q == <<c, d, e>>
           j == i - 1
<1>1. n \in Nat /\ i \in Nat /\ i >= 1 /\ i + 2 <= n
  BY StringLength
<1>2. Len(q) = 3 /\ q \in Seq(Chars) /\ q[1] = c /\ q[2] = d /\ q[3] = e
  OBVIOUS
<1>3. j \in 0..(n - 3) /\ j + 1 = i /\ j + 2 = i + 1 /\ j + 3 = i + 2 /\ j + 1 \in Int /\ j + 3 \in Int
  BY <1>1
<1>4. \A k \in (j + 1)..(j + 3) : w[k] \in Chars
  <2>1. \A k \in (j + 1)..(j + 3) : k \in 1..n
    BY <1>1, <1>3
  <2> QED BY <2>1, StringLength
<1> HIDE DEF j, q
<1> DEFINE u == SubSeq(w, j + 1, j + 3)
<1>5. /\ u \in Seq(Chars)
      /\ Len(u) = IF j + 1 <= j + 3 THEN (j + 3) - (j + 1) + 1 ELSE 0
      /\ \A k \in 1..((j + 3) - (j + 1) + 1) : u[k] = w[(j + 1) + k - 1]
  BY <1>3, <1>4, SubSeqProperties
<1> HIDE DEF u
<1>6. j \in Int
  BY <1>1, <1>3
<1>7. /\ j + 1 <= j + 3 /\ (j + 3) - (j + 1) + 1 = 3 /\ (j + 1) + 1 - 1 = i /\ (j + 1) + 2 - 1 = i + 1
      /\ (j + 1) + 3 - 1 = i + 2
  BY <1>1, <1>3, <1>6
<1>8. Len(u) = 3 /\ \A k \in 1..3 : u[k] = w[(j + 1) + k - 1]
  BY <1>5, <1>7
<1>9. u[1] = c /\ u[2] = d /\ u[3] = e
  <2>1. u[1] = w[(j + 1) + 1 - 1] /\ u[2] = w[(j + 1) + 2 - 1] /\ u[3] = w[(j + 1) + 3 - 1]
    BY <1>8
  <2> QED BY <1>7, <2>1
<1>10. \A k \in 1..3 : k = 1 \/ k = 2 \/ k = 3
  OBVIOUS
<1>11. u = q
  <2>1. \A k \in 1..Len(u) : u[k] = q[k]
    BY <1>2, <1>8, <1>9, <1>10
  <2> QED BY <1>2, <1>5, <1>8, <2>1, SeqEqual
<1>12. \E k \in 0..(n - 3) : SubSeq(w, k + 1, k + 3) = q
  BY <1>3, <1>11 DEF u
<1>13. HasInfix(w, q)
  BY <1>2, <1>12 DEF HasInfix
<1> QED BY <1>13 DEF q

LEMMA NoSlashes ==
  ASSUME NEW w \in Strings, ~HasInfix(w, <<Slash>>)
  PROVE  SlashFree(w)
<1> SUFFICES ASSUME NEW i \in 1..Len(w), w[i] = Slash PROVE FALSE
  BY DEF SlashFree
<1> DEFINE n == Len(w)
           q == <<Slash>>
           j == i - 1
<1>1. n \in Nat /\ i \in Nat /\ i >= 1 /\ i <= n
  BY StringLength
<1>2. Len(q) = 1 /\ q \in Seq(Chars) /\ q[1] = Slash
  BY TenantAssumption
<1>3. j \in 0..(n - 1) /\ j + 1 = i /\ j + 1 \in Int
  BY <1>1
<1>4. \A k \in (j + 1)..(j + 1) : w[k] \in Chars
  <2>1. \A k \in (j + 1)..(j + 1) : k \in 1..n
    BY <1>1, <1>3
  <2> QED BY <2>1, StringLength
<1> HIDE DEF j, q
<1> DEFINE u == SubSeq(w, j + 1, j + 1)
<1>5. /\ u \in Seq(Chars)
      /\ Len(u) = IF j + 1 <= j + 1 THEN (j + 1) - (j + 1) + 1 ELSE 0
      /\ \A k \in 1..((j + 1) - (j + 1) + 1) : u[k] = w[(j + 1) + k - 1]
  BY <1>3, <1>4, SubSeqProperties
<1> HIDE DEF u
<1>6. j \in Int
  BY <1>1, <1>3
<1>7. j + 1 <= j + 1 /\ (j + 1) - (j + 1) + 1 = 1 /\ (j + 1) + 1 - 1 = i
  BY <1>1, <1>3, <1>6
<1>8. Len(u) = 1 /\ \A k \in 1..1 : u[k] = w[(j + 1) + k - 1]
  BY <1>5, <1>7
<1>9. u[1] = Slash
  <2>1. u[1] = w[(j + 1) + 1 - 1]
    BY <1>8
  <2> QED BY <1>7, <2>1
<1>10. u = q
  <2>1. \A k \in 1..Len(u) : u[k] = q[k]
    BY <1>2, <1>8, <1>9
  <2> QED BY <1>2, <1>5, <1>8, <2>1, SeqEqual
<1>11. \E k \in 0..(n - 1) : SubSeq(w, k + 1, k + 1) = q
  BY <1>3, <1>10 DEF u
<1>12. HasInfix(w, q)
  BY <1>2, <1>11 DEF HasInfix
<1> QED BY <1>12 DEF q

\* What the guard's two checks of the segments amount to.
LEMMA GuardedClean ==
  ASSUME NEW y \in Strings, ~HasInfix(<<Slash>> \o y \o <<Slash>>, <<Slash, Slash>>),
         ~HasInfix(<<Slash>> \o y \o <<Slash>>, <<Slash, Dot, Slash>>)
  PROVE  Clean(y)
<1> DEFINE n == Len(y)
           r == <<Slash>> \o y \o <<Slash>>
<1>1. n \in Nat /\ Slash \in Chars /\ Dot \in Chars /\ Slash # Dot
  BY StringLength, TenantAssumption
<1>2. Below(y) \in Strings /\ Len(Below(y)) = n + 1 /\ Below(y)[1] = Slash /\ \A i \in 1..n : Below(y)[i + 1] = y[i]
  BY BelowString
<1>3. r = Below(y) \o <<Slash>>
  BY DEF Below
<1>0. ~HasInfix(r, <<Slash, Slash>>) /\ ~HasInfix(r, <<Slash, Dot, Slash>>)
  OBVIOUS
<1> HIDE DEF r
<1>4. /\ r \in Strings /\ Len(r) = (n + 1) + 1
      /\ \A i \in 1..(n + 1) : r[i] = Below(y)[i]
      /\ \A i \in 1..1 : r[(n + 1) + i] = <<Slash>>[i]
  <2> DEFINE q == <<Slash>>
             b == Below(y)
  <2>0. q \in Strings /\ b \in Strings /\ r = b \o q /\ Len(q) = 1 /\ Len(b) = n + 1
    BY <1>2, <1>3, SlashString
  <2> HIDE DEF q, b, n
  <2>1. /\ r \in Strings /\ Len(r) = Len(b) + Len(q)
        /\ \A i \in 1..Len(b) : r[i] = b[i]
        /\ \A i \in 1..Len(q) : r[Len(b) + i] = q[i]
    BY <2>0, Concatenated, Zenon
  <2>2. /\ r \in Strings /\ Len(r) = (n + 1) + 1
        /\ \A i \in 1..(n + 1) : r[i] = b[i]
        /\ \A i \in 1..1 : r[(n + 1) + i] = q[i]
    BY <2>0, <2>1
  <2> QED BY <2>2 DEF q, b
<1>5. ASSUME NEW i \in 0..(n + 1) PROVE r[i + 1] = At(y, i)
  <2>1. CASE i = 0
    <3>1. 1 \in 1..(n + 1) /\ i + 1 = 1 /\ ~(i \in 1..n)
      BY <1>1, <2>1
    <3> QED BY <1>2, <1>4, <3>1 DEF At
  <2>2. CASE i \in 1..n
    <3>1. i + 1 \in 1..(n + 1)
      BY <1>1, <2>2
    <3> QED BY <1>2, <1>4, <2>2, <3>1 DEF At
  <2>3. CASE i = n + 1
    <3>1. ~(i \in 1..n) /\ 1 \in 1..1 /\ i + 1 = (n + 1) + 1
      BY <1>1, <2>3
    <3>2. r[i + 1] = <<Slash>>[1]
      BY <1>4, <3>1
    <3> QED BY <3>1, <3>2, SlashString DEF At
  <2> QED BY <1>1, <2>1, <2>2, <2>3
<1>6. ASSUME NEW i \in 0..n, At(y, i) = Slash
      PROVE  At(y, i + 1) # Slash /\ ~(At(y, i + 1) = Dot /\ At(y, i + 2) = Slash)
  <2>1. /\ i \in 0..(n + 1) /\ i + 1 \in 0..(n + 1) /\ i + 1 \in 1..(((n + 1) + 1) - 1)
        /\ (i + 1) + 1 = i + 2 /\ (i + 1) + 2 = (i + 2) + 1
    BY <1>1
  <2>2. ~(r[i + 1] = Slash /\ r[(i + 1) + 1] = Slash)
    BY <1>0, <1>1, <1>4, <2>1, NoPair
  <2>3. At(y, i + 1) # Slash
    BY <1>5, <1>6, <2>1, <2>2
  <2>4. CASE i = n
    <3>1. ~(i + 1 \in 1..n)
      BY <1>1, <2>4
    <3>2. At(y, i + 1) = Slash
      BY <3>1 DEF At
    <3> QED BY <2>3, <3>2
  <2>5. CASE i # n
    <3>1. i + 2 \in 0..(n + 1) /\ i + 1 \in 1..(((n + 1) + 1) - 2)
      BY <1>1, <2>5
    <3>2. ~(r[i + 1] = Slash /\ r[(i + 1) + 1] = Dot /\ r[(i + 1) + 2] = Slash)
      BY <1>0, <1>1, <1>4, <3>1, NoTriple
    <3>3. r[i + 1] = At(y, i) /\ r[(i + 1) + 1] = At(y, i + 1) /\ r[(i + 1) + 2] = At(y, i + 2)
      BY <1>5, <2>1, <3>1
    <3> QED BY <1>6, <2>3, <3>2, <3>3
  <2> QED BY <2>4, <2>5
<1> QED BY <1>6 DEF Clean

\* getPath changes nothing of a clean key but its colons.
LEMMA CleanPath ==
  ASSUME NEW full, NEW s \in Strings, s = Encoded(full), Clean(s)
  PROVE  FilePath(full) = Below(s)
<1> DEFINE n == Len(s)
           w == Below(s)
           kept == {i \in 1..Len(w) : KeptInPath(w, i)}
<1>1. n \in Nat /\ w \in Strings /\ Len(w) = n + 1 /\ w[1] = Slash /\ \A i \in 1..n : w[i + 1] = s[i]
  BY StringLength, BelowString
<1>2. FilePath(full) = [j \in 1..Cardinality(kept) |-> w[CHOOSE i \in kept : Cardinality({h \in kept : h <= i}) = j]]
  BY DEF FilePath, Below
<1> HIDE DEF w
<1>3. ASSUME NEW i \in 1..(n + 1) PROVE w[i] = At(s, i - 1)
  <2>1. CASE i = 1
    <3>1. ~(i - 1 \in 1..n)
      BY <2>1
    <3> QED BY <1>1, <2>1, <3>1 DEF At
  <2>2. CASE i # 1
    <3>1. i - 1 \in 1..n /\ (i - 1) + 1 = i
      BY <1>1, <2>2
    <3>2. w[(i - 1) + 1] = s[i - 1]
      BY <1>1, <3>1
    <3> QED BY <3>1, <3>2 DEF At
  <2> QED BY <2>1, <2>2
<1>4. At(s, n + 1) = Slash
  <2>1. ~(n + 1 \in 1..n)
    BY <1>1
  <2> QED BY <2>1 DEF At
<1>5. \A i \in 0..n : At(s, i) = Slash => At(s, i + 1) # Slash /\ ~(At(s, i + 1) = Dot /\ At(s, i + 2) = Slash)
  BY DEF Clean
<1> HIDE DEF n
<1>6. ASSUME NEW i \in 1..(n + 1) PROVE KeptInPath(w, i)
  <2>1. i - 1 \in 0..n /\ (i - 1) + 1 = i /\ (i - 1) + 2 = i + 1 /\ i \in Nat
    BY <1>1
  <2>2. At(s, i - 1) = Slash => At(s, i) # Slash /\ ~(At(s, i) = Dot /\ At(s, i + 1) = Slash)
    BY <1>5, <2>1
  <2>3. i # n + 1 => i + 1 \in 1..(n + 1) /\ (i + 1) - 1 = i
    BY <1>1, <2>1
  <2>4. i # n + 1 => w[i + 1] = At(s, i)
    BY <1>3, <2>3
  <2>5. ~(w[i] = Slash /\ (i = Len(w) \/ w[i + 1] = Slash))
    BY <1>1, <1>3, <1>4, <2>2, <2>4
  <2>6. ~(w[i] = Slash /\ i + 1 <= Len(w) /\ w[i + 1] = Dot /\ (i + 2 > Len(w) \/ w[i + 2] = Slash))
    <3> SUFFICES ASSUME w[i] = Slash, i + 1 <= n + 1, w[i + 1] = Dot, i + 2 > n + 1 \/ w[i + 2] = Slash PROVE FALSE
      BY <1>1
    <3>1. i # n + 1 /\ (i + 2 > n + 1 => i + 1 = n + 1) /\ (~(i + 2 > n + 1) => i + 2 \in 1..(n + 1) /\ (i + 2) - 1 = i + 1)
      BY <1>1, <2>1
    <3>2. At(s, i) = Dot /\ At(s, i - 1) = Slash
      BY <1>3, <2>4, <3>1
    <3>3. At(s, i + 1) = Slash
      <4>1. CASE i + 2 > n + 1
        BY <1>4, <3>1, <4>1
      <4>2. CASE ~(i + 2 > n + 1)
        BY <1>3, <3>1, <4>2
      <4> QED BY <4>1, <4>2
    <3> QED BY <2>2, <3>2, <3>3
  <2>7. ~(w[i] = Dot /\ i > 1 /\ w[i - 1] = Slash /\ (i = Len(w) \/ w[i + 1] = Slash))
    <3> SUFFICES ASSUME w[i] = Dot, i > 1, w[i - 1] = Slash, i = n + 1 \/ w[i + 1] = Slash PROVE FALSE
      BY <1>1
    <3>1. i - 1 \in 1..(n + 1) /\ (i - 1) - 1 = i - 2 /\ i - 2 \in 0..n /\ (i - 2) + 1 = i - 1 /\ (i - 2) + 2 = i
      BY <1>1, <2>1
    <3>2. At(s, i - 2) = Slash /\ At(s, i - 1) = Dot
      BY <1>3, <3>1
    <3>3. At(s, i) = Slash
      BY <1>4, <2>4
    <3>4. ~(At(s, (i - 2) + 1) = Dot /\ At(s, (i - 2) + 2) = Slash)
      BY <1>5, <3>1, <3>2
    <3> QED BY <3>1, <3>2, <3>3, <3>4
  <2> QED BY <2>5, <2>6, <2>7 DEF KeptInPath
<1>7. kept = 1..(n + 1)
  BY <1>1, <1>6
<1> HIDE DEF kept
<1>8. ASSUME NEW i \in 0..(n + 1) PROVE Cardinality(1..i) = i
  <2>1. 1 \in Int /\ i \in Int
    BY <1>1
  <2>2. Cardinality(1..i) = IF 1 > i THEN 0 ELSE i - 1 + 1
    BY <2>1, FS_Interval
  <2> QED BY <2>1, <2>2
<1>9. ASSUME NEW i \in 1..(n + 1) PROVE Cardinality({h \in kept : h <= i}) = i
  <2>1. {h \in kept : h <= i} = 1..i
    BY <1>1, <1>7
  <2>2. i \in 0..(n + 1)
    BY <1>1
  <2> QED BY <1>8, <2>1, <2>2
<1>10. ASSUME NEW j \in 1..(n + 1) PROVE (CHOOSE i \in kept : Cardinality({h \in kept : h <= i}) = j) = j
  BY <1>7, <1>9
<1>11. Cardinality(kept) = n + 1
  <2>1. n + 1 \in 0..(n + 1)
    BY <1>1
  <2> QED BY <1>7, <1>8, <2>1
<1>12. FilePath(full) = [j \in 1..(n + 1) |-> w[j]]
  BY <1>2, <1>10, <1>11
<1>13. w \in [1..(n + 1) -> Chars]
  BY <1>1, LenProperties DEF Strings
<1>14. w = [j \in 1..(n + 1) |-> w[j]]
  BY <1>13
<1> QED BY <1>12, <1>14 DEF w

----------------------------------------------------------------------------
(* Encoding: character by character, so that it keeps slashes and segments. *)

LEMMA EncodedString ==
  ASSUME NEW s \in Strings
  PROVE  /\ Encoded(s) \in Strings /\ Len(Encoded(s)) = Len(s)
         /\ \A i \in 1..Len(s) : Encoded(s)[i] = IF s[i] = Colon THEN Escaped ELSE s[i]
<1> DEFINE e == [i \in 1..Len(s) |-> IF s[i] = Colon THEN Escaped ELSE s[i]]
<1>1. Len(s) \in Nat /\ \A i \in 1..Len(s) : s[i] \in Chars
  BY StringLength
<1>2. e \in [1..Len(s) -> Chars]
  BY <1>1, TenantAssumption
<1>3. e \in Seq(Chars) /\ Len(e) = Len(s)
  BY <1>1, <1>2, IsASeq
<1> QED BY <1>3 DEF Encoded, Strings

LEMMA DecodedString ==
  ASSUME NEW s \in Strings
  PROVE  /\ Decoded(s) \in Strings /\ Len(Decoded(s)) = Len(s)
         /\ \A i \in 1..Len(s) : Decoded(s)[i] = IF s[i] = Escaped THEN Colon ELSE s[i]
<1> DEFINE e == [i \in 1..Len(s) |-> IF s[i] = Escaped THEN Colon ELSE s[i]]
<1>1. Len(s) \in Nat /\ \A i \in 1..Len(s) : s[i] \in Chars
  BY StringLength
<1>2. e \in [1..Len(s) -> Chars]
  BY <1>1, TenantAssumption
<1>3. e \in Seq(Chars) /\ Len(e) = Len(s)
  BY <1>1, <1>2, IsASeq
<1> QED BY <1>3 DEF Decoded, Strings

\* Slashes and dots stay where they are.
LEMMA EncodedAt ==
  ASSUME NEW s \in Strings, NEW i
  PROVE  (At(Encoded(s), i) = Slash <=> At(s, i) = Slash) /\ (At(Encoded(s), i) = Dot <=> At(s, i) = Dot)
BY EncodedString, TenantAssumption DEF At

LEMMA EncodedClean ==
  ASSUME NEW s \in Strings
  PROVE  /\ Clean(s) => Clean(Encoded(s))
         /\ SlashFree(s) => SlashFree(Encoded(s))
<1>1. Clean(s) => Clean(Encoded(s))
  BY EncodedString, EncodedAt DEF Clean
<1>2. SlashFree(s) => SlashFree(Encoded(s))
  BY EncodedString, TenantAssumption DEF SlashFree
<1> QED BY <1>1, <1>2

LEMMA EncodedCat ==
  ASSUME NEW s \in Strings, NEW t \in Strings
  PROVE  Encoded(Cat(s, t)) = Cat(Encoded(s), Encoded(t))
<1> DEFINE w == Cat(s, t)
           es == Encoded(s)
           et == Encoded(t)
           u == Encoded(w)
           v == Cat(es, et)
           n == Len(s)
           m == Len(t)
<1>1. n \in Nat /\ m \in Nat
  BY StringLength
<1>2. /\ es \in Strings /\ Len(es) = n
      /\ \A i \in 1..n : es[i] = IF s[i] = Colon THEN Escaped ELSE s[i]
  BY EncodedString
<1>3. /\ et \in Strings /\ Len(et) = m
      /\ \A i \in 1..m : et[i] = IF t[i] = Colon THEN Escaped ELSE t[i]
  BY EncodedString
<1>4. /\ w \in Strings /\ Len(w) = n + m /\ (\A i \in 1..n : w[i] = s[i])
      /\ \A i \in 1..m : w[n + i] = t[i]
  BY Concatenated DEF Cat
<1> HIDE DEF es, et
<1>5. /\ v \in Strings /\ Len(v) = Len(es) + Len(et)
      /\ \A i \in 1..Len(es) : v[i] = es[i]
      /\ \A i \in 1..Len(et) : v[Len(es) + i] = et[i]
  BY <1>2, <1>3, Concatenated DEF Cat
<1> HIDE DEF w
<1>6. /\ u \in Strings /\ Len(u) = n + m
      /\ \A i \in 1..(n + m) : u[i] = IF w[i] = Colon THEN Escaped ELSE w[i]
  BY <1>4, EncodedString
<1> HIDE DEF u, v, n, m
<1>7. Len(v) = n + m /\ (\A i \in 1..n : v[i] = es[i]) /\ \A i \in 1..m : v[n + i] = et[i]
  BY <1>2, <1>3, <1>5
<1>8. ASSUME NEW i \in 1..(n + m) PROVE u[i] = v[i]
  <2>1. i \in 1..n \/ (i - n \in 1..m /\ n + (i - n) = i)
    BY <1>1
  <2>2. CASE i \in 1..n
    BY <1>2, <1>4, <1>6, <1>7, <2>2
  <2>3. CASE i - n \in 1..m /\ n + (i - n) = i
    <3>1. PICK j \in 1..m : n + j = i
      BY <2>3
    <3>2. w[i] = t[j] /\ v[i] = et[j]
      BY <1>4, <1>7, <3>1
    <3> QED BY <1>3, <1>6, <3>2
  <2> QED BY <2>1, <2>2, <2>3
<1>9. u = v
  BY <1>5, <1>6, <1>7, <1>8, SeqEqual DEF Strings
<1> QED BY <1>9 DEF u, v, w, es, et

LEMMA EncodedSlash == Encoded(<<Slash>>) = <<Slash>>
<1> DEFINE s == <<Slash>>
           e == Encoded(s)
<1>1. s \in Strings /\ Len(s) = 1 /\ s[1] = Slash
  BY SlashString
<1> HIDE DEF s
<1>2. e \in Strings /\ Len(e) = 1 /\ \A i \in 1..1 : e[i] = s[i]
  BY <1>1, EncodedString, TenantAssumption
<1> HIDE DEF e
<1>3. e = s
  BY <1>1, <1>2, SeqEqual DEF Strings
<1> QED BY <1>3 DEF e, s

LEMMA EncodedSegment ==
  ASSUME NEW a \in Strings, NEW x \in Strings
  PROVE  Encoded(Segment(a, x)) = Segment(Encoded(a), Encoded(x))
<1> DEFINE s == <<Slash>>
           ea == Encoded(a)
           ex == Encoded(x)
<1>1. s \in Strings /\ Encoded(s) = s
  BY SlashString, EncodedSlash
<1>2. Segment(a, x) = Cat(a, Cat(s, x)) /\ Segment(ea, ex) = Cat(ea, Cat(s, ex))
  BY DEF Segment, Below, Cat
<1> HIDE DEF s
<1>3. Cat(s, x) \in Strings /\ Encoded(Cat(s, x)) = Cat(Encoded(s), ex)
  BY <1>1, CatString, EncodedCat
<1>4. Encoded(Cat(a, Cat(s, x))) = Cat(ea, Encoded(Cat(s, x)))
  BY <1>3, EncodedCat
<1> QED BY <1>1, <1>2, <1>3, <1>4

LEMMA EncodedJoined ==
  ASSUME NEW a \in Strings, NEW b \in Strings, NEW x \in Strings
  PROVE  Encoded(Joined(a, b, x)) = Joined(Encoded(a), Encoded(b), Encoded(x))
<1>1. Segment(b, x) \in Strings /\ Encoded(Segment(b, x)) = Segment(Encoded(b), Encoded(x))
  BY JoinedString, EncodedSegment
<1>2. Encoded(Segment(a, Segment(b, x))) = Segment(Encoded(a), Encoded(Segment(b, x)))
  BY <1>1, EncodedSegment
<1> QED BY <1>1, <1>2 DEF Joined

\* Names without the text "%3A" are told apart by their files.
LEMMA EncodedSame ==
  ASSUME NEW x \in Strings, NEW y \in Strings, Encoded(x) = Encoded(y)
  PROVE  SameName(x, y)
<1> SUFFICES ASSUME ~HoldsEscape(x), ~HoldsEscape(y) PROVE x = y
  BY DEF SameName
<1> DEFINE e == Encoded(x)
           n == Len(x)
<1>1. Len(e) = n /\ \A i \in 1..n : e[i] = IF x[i] = Colon THEN Escaped ELSE x[i]
  BY EncodedString
<1>2. e = Encoded(y)
  OBVIOUS
<1> HIDE DEF e
<1>3. Len(e) = Len(y) /\ \A i \in 1..Len(y) : e[i] = IF y[i] = Colon THEN Escaped ELSE y[i]
  BY <1>2, EncodedString
<1>4. Len(y) = n
  BY <1>1, <1>3
<1>5. (\A i \in 1..n : x[i] # Escaped) /\ \A i \in 1..n : y[i] # Escaped
  BY <1>4 DEF HoldsEscape
<1>6. \A i \in 1..n : x[i] = y[i]
  BY <1>1, <1>3, <1>4, <1>5
<1> QED BY <1>4, <1>6, SeqEqual DEF Strings

\* What list decodes is encoded to the same file again.
LEMMA Reencoded ==
  ASSUME NEW s \in Strings
  PROVE  Encoded(Decoded(Encoded(s))) = Encoded(s)
<1> DEFINE e == Encoded(s)
           d == Decoded(e)
           u == Encoded(d)
           n == Len(s)
<1>1. e \in Strings /\ Len(e) = n /\ \A i \in 1..n : e[i] # Colon
  BY EncodedString, TenantAssumption
<1> HIDE DEF e
<1>2. d \in Strings /\ Len(d) = n /\ \A i \in 1..n : d[i] = IF e[i] = Escaped THEN Colon ELSE e[i]
  BY <1>1, DecodedString
<1> HIDE DEF d
<1>3. u \in Strings /\ Len(u) = n /\ \A i \in 1..n : u[i] = IF d[i] = Colon THEN Escaped ELSE d[i]
  BY <1>2, EncodedString
<1> HIDE DEF u
<1>4. \A i \in 1..n : u[i] = e[i]
  BY <1>1, <1>2, <1>3
<1>5. u = e
  BY <1>1, <1>3, <1>4, SeqEqual DEF Strings
<1> QED BY <1>5 DEF u, d, e

----------------------------------------------------------------------------
(* The files of the tenants.                                                *)

ObjectFile == [path : Strings, tenant : Tenants, bucket : BucketIds, key : ObjectKeys]

FullKey(t, b, k) == Joined(t.org, t.project, Segment(b, k))

\* The path of a file tells its tenant, bucket and key, up to the encoding.
FileOK(f) ==
  /\ f \in ObjectFile /\ SlashFree(f.bucket)
  /\ f.path = Below(Encoded(FullKey(f.tenant, f.bucket, f.key)))
  /\ f.path = FilePath(BucketPrefix(f.tenant, f.bucket) \o f.key)

FilesInv ==
  /\ IsFiniteSet(objectFiles) /\ Cardinality(objectFiles) <= MaxObjects
  /\ \A f \in objectFiles : FileOK(f)
  /\ \A f, g \in objectFiles : f.path = g.path => f = g
  /\ ListsOwn

LEMMA TenantNames ==
  ASSUME NEW t \in Tenants
  PROVE  /\ t \in [org : OrgIds, project : ProjectIds] /\ t.org \in Strings /\ t.project \in Strings
         /\ SlashFree(t.org) /\ SlashFree(t.project)
         /\ t.org # <<>> /\ t.org # <<Dot>> /\ t.project # <<>> /\ t.project # <<Dot>>
<1>1. t \in [org : OrgIds, project : ProjectIds] /\ ValidTenant(t)
  BY DEF Tenants
<1>2. t.org \in Strings /\ t.project \in Strings
  BY <1>1, TenantAssumption DEF Strings
<1>3. /\ t.org # <<>> /\ t.org # <<Dot>> /\ ~HasInfix(t.org, <<Slash>>)
      /\ t.project # <<>> /\ t.project # <<Dot>> /\ ~HasInfix(t.project, <<Slash>>)
  BY <1>1 DEF ValidTenant
<1>4. SlashFree(t.org) /\ SlashFree(t.project)
  BY <1>2, <1>3, NoSlashes
<1> QED BY <1>1, <1>2, <1>3, <1>4

LEMMA TenantsSplit ==
  ASSUME NEW t \in Tenants, NEW v \in Tenants, NEW x \in Strings, NEW y \in Strings,
         Joined(Encoded(t.org), Encoded(t.project), x) = Joined(Encoded(v.org), Encoded(v.project), y)
  PROVE  SameTenant(t, v) /\ x = y
<1> DEFINE to == t.org
           tp == t.project
           vo == v.org
           vp == v.project
           eto == Encoded(to)
           etp == Encoded(tp)
           evo == Encoded(vo)
           evp == Encoded(vp)
<1>1. to \in Strings /\ tp \in Strings /\ SlashFree(to) /\ SlashFree(tp)
  BY TenantNames
<1>2. vo \in Strings /\ vp \in Strings /\ SlashFree(vo) /\ SlashFree(vp)
  BY TenantNames
<1>3. Joined(eto, etp, x) = Joined(evo, evp, y)
  OBVIOUS
<1> HIDE DEF to, tp, vo, vp
<1>4. eto \in Strings /\ etp \in Strings /\ SlashFree(eto) /\ SlashFree(etp)
  BY <1>1, EncodedString, EncodedClean
<1>5. evo \in Strings /\ evp \in Strings /\ SlashFree(evo) /\ SlashFree(evp)
  BY <1>2, EncodedString, EncodedClean
<1> HIDE DEF eto, etp, evo, evp
<1>6. eto = evo /\ etp = evp /\ x = y
  BY <1>3, <1>4, <1>5, JoinedSplit
<1>7. SameName(to, vo) /\ SameName(tp, vp)
  BY <1>1, <1>2, <1>6, EncodedSame DEF eto, etp, evo, evp
<1> QED BY <1>6, <1>7 DEF to, tp, vo, vp, SameTenant

LEMMA NameStrings ==
  ASSUME NEW b \in BucketIds, NEW k \in ObjectKeys
  PROVE  b \in Strings /\ k \in Strings /\ Segment(b, k) \in Strings
<1>1. b \in Strings /\ k \in Strings
  BY TenantAssumption DEF Strings
<1> QED BY <1>1, SegmentString

LEMMA PartOf ==
  ASSUME NEW w \in Strings, NEW a \in Int, NEW z \in Int, \A i \in a..z : w[i] \in Chars
  PROVE  /\ SubSeq(w, a, z) \in Strings
         /\ Len(SubSeq(w, a, z)) = IF a <= z THEN z - a + 1 ELSE 0
         /\ \A i \in 1..(z - a + 1) : SubSeq(w, a, z)[i] = w[a + i - 1]
<1>1. w \in Seq(Chars)
  BY DEF Strings
<1>2. SubSeq(w, a, z) \in Seq(Chars)
  BY SubSeqProperties
<1>3. Len(SubSeq(w, a, z)) = IF a <= z THEN z - a + 1 ELSE 0
  BY SubSeqProperties
<1>4. \A i \in 1..(z - a + 1) : SubSeq(w, a, z)[i] = w[a + i - 1]
  BY SubSeqProperties
<1> QED BY <1>2, <1>3, <1>4, Zenon DEF Strings

\* What follows a prefix.
LEMMA SuffixOf ==
  ASSUME NEW s \in Strings, NEW x \in Strings, NEW w, w = s \o x
  PROVE  SubSeq(w, Len(s) + 1, Len(w)) = x
<1> DEFINE n == Len(s)
           m == Len(x)
<1>1. n \in Nat /\ m \in Nat
  BY StringLength
<1>2. w \in Strings /\ Len(w) = n + m /\ \A i \in 1..m : w[n + i] = x[i]
  BY Concatenated
<1> DEFINE u == SubSeq(w, n + 1, n + m)
<1> HIDE DEF n, m
<1>3. \A i \in (n + 1)..(n + m) : w[i] \in Chars
  <2>1. \A i \in (n + 1)..(n + m) : i \in 1..(n + m)
    BY <1>1
  <2> QED BY <1>2, <2>1, StringLength
<1> DEFINE a == n + 1
           z == n + m
<1>4. a \in Int /\ z \in Int /\ \A i \in a..z : w[i] \in Chars
  <2>1. a \in Int /\ z \in Int
    BY <1>1
  <2> QED BY <1>3, <2>1, Zenon
<1>5. /\ u \in Seq(Chars)
      /\ Len(u) = IF n + 1 <= n + m THEN (n + m) - (n + 1) + 1 ELSE 0
      /\ \A i \in 1..((n + m) - (n + 1) + 1) : u[i] = w[(n + 1) + i - 1]
  <2> HIDE DEF a, z, u
  <2>1. /\ SubSeq(w, a, z) \in Strings
        /\ Len(SubSeq(w, a, z)) = IF a <= z THEN z - a + 1 ELSE 0
        /\ \A i \in 1..(z - a + 1) : SubSeq(w, a, z)[i] = w[a + i - 1]
    BY <1>2, <1>4, PartOf, Zenon
  <2>2. u = SubSeq(w, a, z)
    BY Zenon DEF u, a, z
  <2>3. /\ u \in Strings
        /\ Len(u) = IF a <= z THEN z - a + 1 ELSE 0
        /\ \A i \in 1..(z - a + 1) : u[i] = w[a + i - 1]
    BY <2>1, <2>2, Zenon
  <2> QED BY <2>3, Zenon DEF Strings, a, z
<1>6. (n + m) - (n + 1) + 1 = m /\ (~(n + 1 <= n + m) => m = 0) /\ \A i \in 1..m : (n + 1) + i - 1 = n + i
  BY <1>1
<1> HIDE DEF u
<1>7. Len(u) = m /\ \A i \in 1..m : u[i] = w[(n + 1) + i - 1]
  BY <1>5, <1>6
<1>8. \A i \in 1..m : u[i] = x[i]
  BY <1>2, <1>6, <1>7
<1>9. x \in Seq(Chars) /\ Len(x) = m
  BY DEF m, Strings
<1>10. u = x
  BY <1>5, <1>7, <1>8, <1>9, SeqEqual
<1> QED BY <1>2, <1>10 DEF u, n

\* What passes the guard is stored under its own key.
LEMMA GuardedFile ==
  ASSUME NEW t \in Tenants, NEW b \in BucketIds, NEW k \in ObjectKeys, ValidBucket(b),
         GuardAllows(BucketPrefix(t, b) \o k, t)
  PROVE  FileOK([path |-> FilePath(BucketPrefix(t, b) \o k), tenant |-> t, bucket |-> b, key |-> k])
<1> DEFINE full == BucketPrefix(t, b) \o k
           y == Segment(b, k)
           f == [path |-> FilePath(full), tenant |-> t, bucket |-> b, key |-> k]
<1>1. b \in Strings /\ k \in Strings /\ y \in Strings
  BY NameStrings
<1>2. /\ t.org \in Strings /\ t.project \in Strings /\ SlashFree(t.org) /\ SlashFree(t.project)
      /\ t.org # <<>> /\ t.org # <<Dot>> /\ t.project # <<>> /\ t.project # <<Dot>>
  BY TenantNames
<1>3. full = FullKey(t, b, k) /\ full = TenantPrefix(t) \o y /\ TenantPrefix(t) \in Strings
  <2>1. BucketPrefix(t, b) \o k = Joined(t.org, t.project, y)
    BY <1>1, <1>2, PrefixesJoined, Zenon
  <2> HIDE DEF y
  <2>2. TenantPrefix(t) \o y = Joined(t.org, t.project, y) /\ TenantPrefix(t) \in Strings
    BY <1>1, <1>2, PrefixesJoined, Zenon
  <2> QED BY <2>1, <2>2, Zenon DEF FullKey, full, y
<1>4. SlashFree(b)
  BY <1>1, NoSlashes DEF ValidBucket
<1>5. Clean(y)
  <2>1. SubSeq(full, Len(TenantPrefix(t)) + 1, Len(full)) = y
    <3> HIDE DEF full, y
    <3> QED BY <1>1, <1>3, SuffixOf
  <2>2. /\ ~HasInfix(<<Slash>> \o y \o <<Slash>>, <<Slash, Slash>>)
        /\ ~HasInfix(<<Slash>> \o y \o <<Slash>>, <<Slash, Dot, Slash>>)
    <3>1. GuardAllows(full, t)
      OBVIOUS
    <3> HIDE DEF full, y
    <3> QED BY <2>1, <3>1 DEF GuardAllows
  <2> QED BY <1>1, <2>2, GuardedClean
<1>6. Clean(Segment(t.project, y)) /\ Segment(t.project, y) \in Strings
  BY <1>1, <1>2, <1>5, CleanSegment, SegmentString
<1>7. Clean(Joined(t.org, t.project, y)) /\ Joined(t.org, t.project, y) \in Strings
  BY <1>1, <1>2, <1>6, CleanSegment, SegmentString DEF Joined
<1> HIDE DEF full
<1>8. FilePath(full) = Below(Encoded(FullKey(t, b, k))) /\ Encoded(FullKey(t, b, k)) \in Strings
  <2> DEFINE e == Encoded(full)
  <2>1. full \in Strings /\ Clean(full)
    BY <1>3, <1>7 DEF FullKey
  <2>2. e \in Strings /\ Clean(e)
    BY <2>1, EncodedString, EncodedClean
  <2> HIDE DEF e
  <2>3. FilePath(full) = Below(e)
    BY <2>2, CleanPath DEF e
  <2> QED BY <1>3, <2>2, <2>3 DEF e
<1>9. FilePath(full) \in Strings
  BY <1>8, BelowString
<1>10. /\ f \in ObjectFile /\ f.path = FilePath(full) /\ f.tenant = t /\ f.bucket = b /\ f.key = k
  BY <1>9 DEF ObjectFile
<1>11. FilePath(full) = FilePath(BucketPrefix(t, b) \o k)
  BY DEF full
<1> HIDE DEF f
<1>12. FileOK(f)
  BY <1>4, <1>8, <1>10, <1>11 DEF FileOK
<1> QED BY <1>12 DEF f, full

LEMMA BelowTail ==
  ASSUME NEW x \in Strings
  PROVE  Tail(Below(x)) = x
<1> DEFINE w == Below(x)
<1>1. w \in Seq(Chars) /\ Len(w) = Len(x) + 1 /\ (\A i \in 1..Len(x) : w[i + 1] = x[i]) /\ x \in Seq(Chars) /\ Len(x) \in Nat
  BY BelowString, StringLength DEF Strings
<1> HIDE DEF w
<1>2. w # <<>>
  BY <1>1, EmptySeq
<1>3. Tail(w) \in Seq(Chars) /\ Len(Tail(w)) = Len(w) - 1 /\ \A i \in 1..Len(Tail(w)) : Tail(w)[i] = w[i + 1]
  BY <1>1, <1>2, HeadTailProperties
<1> DEFINE u == Tail(w)
<1>4. u \in Seq(Chars) /\ Len(u) = Len(x) /\ \A i \in 1..Len(u) : u[i] = x[i]
  BY <1>1, <1>3
<1> HIDE DEF u
<1>5. u = x
  BY <1>1, <1>4, SeqEqual
<1> QED BY <1>5 DEF u, w

LEMMA FileNames ==
  ASSUME NEW f, FileOK(f)
  PROVE  /\ f \in ObjectFile /\ f.tenant \in Tenants /\ f.bucket \in Strings /\ f.key \in Strings /\ SlashFree(f.bucket)
         /\ FullKey(f.tenant, f.bucket, f.key) \in Strings
         /\ Tail(f.path) = Encoded(FullKey(f.tenant, f.bucket, f.key))
         /\ Tail(f.path) = Joined(Encoded(f.tenant.org), Encoded(f.tenant.project), Segment(Encoded(f.bucket), Encoded(f.key)))
<1>1. f \in ObjectFile /\ f.tenant \in Tenants /\ f.bucket \in BucketIds /\ f.key \in ObjectKeys /\ SlashFree(f.bucket)
  BY DEF FileOK, ObjectFile
<1>2. f.bucket \in Strings /\ f.key \in Strings /\ Segment(f.bucket, f.key) \in Strings
  BY <1>1, NameStrings
<1>3. f.tenant.org \in Strings /\ f.tenant.project \in Strings
  BY <1>1, TenantNames
<1>4. FullKey(f.tenant, f.bucket, f.key) \in Strings
  BY <1>2, <1>3, JoinedString DEF FullKey
<1>5. Tail(f.path) = Encoded(FullKey(f.tenant, f.bucket, f.key))
  BY <1>4, BelowTail, EncodedString DEF FileOK
<1>6. Encoded(FullKey(f.tenant, f.bucket, f.key)) = Joined(Encoded(f.tenant.org), Encoded(f.tenant.project), Segment(Encoded(f.bucket), Encoded(f.key)))
  <2> DEFINE o == f.tenant.org
             p == f.tenant.project
             b == f.bucket
             k == f.key
             x == Segment(b, k)
  <2>1. o \in Strings /\ p \in Strings /\ b \in Strings /\ k \in Strings /\ x \in Strings
    BY <1>2, <1>3
  <2> HIDE DEF o, p, b, k
  <2>2. Encoded(x) = Segment(Encoded(b), Encoded(k))
    BY <2>1, EncodedSegment
  <2>3. Encoded(Joined(o, p, x)) = Joined(Encoded(o), Encoded(p), Encoded(x))
    <3> HIDE DEF x
    <3> QED BY <2>1, EncodedJoined
  <2> QED BY <2>2, <2>3 DEF FullKey, o, p, b, k, x
<1> QED BY <1>1, <1>2, <1>4, <1>5, <1>6

\* One path, one name.
LEMMA OneFile ==
  ASSUME NEW f, NEW g, FileOK(f), FileOK(g), f.path = g.path
  PROVE  SameTenant(f.tenant, g.tenant) /\ SameName(f.bucket, g.bucket) /\ SameName(f.key, g.key)
<1> DEFINE t == f.tenant
           v == g.tenant
           b == f.bucket
           c == g.bucket
           k == f.key
           h == g.key
           x == Segment(Encoded(b), Encoded(k))
           y == Segment(Encoded(c), Encoded(h))
<1>1. /\ t \in Tenants /\ b \in Strings /\ k \in Strings /\ SlashFree(b)
      /\ Tail(f.path) = Joined(Encoded(t.org), Encoded(t.project), x)
  BY FileNames
<1>2. /\ v \in Tenants /\ c \in Strings /\ h \in Strings /\ SlashFree(c)
      /\ Tail(g.path) = Joined(Encoded(v.org), Encoded(v.project), y)
  BY FileNames
<1>3. Joined(Encoded(t.org), Encoded(t.project), x) = Joined(Encoded(v.org), Encoded(v.project), y)
  BY <1>1, <1>2
<1> HIDE DEF t, v, b, c, k, h
<1>4. Encoded(b) \in Strings /\ Encoded(k) \in Strings /\ SlashFree(Encoded(b))
  BY <1>1, EncodedString, EncodedClean
<1>5. Encoded(c) \in Strings /\ Encoded(h) \in Strings /\ SlashFree(Encoded(c))
  BY <1>2, EncodedString, EncodedClean
<1>6. x \in Strings /\ y \in Strings
  BY <1>4, <1>5, SegmentString
<1>7. SameTenant(t, v) /\ x = y
  <2> HIDE DEF x, y
  <2> QED BY <1>1, <1>2, <1>3, <1>6, TenantsSplit
<1>8. Encoded(b) = Encoded(c) /\ Encoded(k) = Encoded(h)
  BY <1>4, <1>5, <1>7, SegmentsSplit
<1>9. SameName(b, c) /\ SameName(k, h)
  BY <1>1, <1>2, <1>8, EncodedSame
<1> QED BY <1>7, <1>9 DEF t, v, b, c, k, h

LEMMA TenantStart == TenantInit => FilesInv
<1> SUFFICES ASSUME TenantInit PROVE FilesInv
  OBVIOUS
<1>1. objectFiles = {} /\ listing.files = {}
  BY DEF TenantInit
<1>2. IsFiniteSet({}) /\ Cardinality({}) = 0 /\ 0 <= MaxObjects
  BY FS_EmptySet, TenantAssumption
<1> QED BY <1>1, <1>2 DEF FilesInv, ListsOwn

LEMMA PutStep ==
  ASSUME FilesInv, NEW t \in Tenants, NEW b \in BucketIds, NEW k \in ObjectKeys, PutObject(t, b, k)
  PROVE  FilesInv'
<1> DEFINE path == FilePath(BucketPrefix(t, b) \o k)
           g == [path |-> path, tenant |-> t, bucket |-> b, key |-> k]
           others == {f \in objectFiles : f.path # path}
<1>1. /\ objectFiles' = others \cup {g} /\ Cardinality(objectFiles') <= MaxObjects /\ listing' = listing
      /\ ValidBucket(b) /\ GuardAllows(BucketPrefix(t, b) \o k, t)
  BY DEF PutObject
<1>2. FileOK(g)
  BY <1>1, GuardedFile
<1>3. others \subseteq objectFiles /\ g.path = path /\ \A f \in others : f.path # path
  OBVIOUS
<1> HIDE DEF g, others, path
<1>4. IsFiniteSet(others)
  BY <1>3, FS_Subset DEF FilesInv
<1>5. IsFiniteSet(objectFiles')
  BY <1>1, <1>4, FS_AddElement
<1>6. \A f \in objectFiles' : FileOK(f)
  BY <1>1, <1>2, <1>3 DEF FilesInv
<1>7. ListsOwn'
  BY <1>1 DEF FilesInv, ListsOwn
<1>8. \A f, h \in objectFiles' : f.path = h.path => f = h
  BY <1>1, <1>3 DEF FilesInv
<1> QED BY <1>1, <1>5, <1>6, <1>7, <1>8 DEF FilesInv

LEMMA DeleteStep ==
  ASSUME FilesInv, NEW t \in Tenants, NEW b \in BucketIds, NEW k \in ObjectKeys, DeleteObject(t, b, k)
  PROVE  FilesInv'
<1>1. objectFiles' \subseteq objectFiles /\ listing' = listing
  BY DEF DeleteObject
<1>2. IsFiniteSet(objectFiles') /\ Cardinality(objectFiles') <= Cardinality(objectFiles)
  BY <1>1, FS_Subset DEF FilesInv
<1>3. Cardinality(objectFiles') \in Nat /\ Cardinality(objectFiles) \in Nat /\ MaxObjects \in Nat
  BY <1>2, FS_CardinalityType, TenantAssumption DEF FilesInv
<1>4. Cardinality(objectFiles') <= MaxObjects
  BY <1>2, <1>3 DEF FilesInv
<1>5. ListsOwn'
  BY <1>1 DEF FilesInv, ListsOwn
<1> QED BY <1>1, <1>2, <1>4, <1>5 DEF FilesInv

LEMMA PrefixRest ==
  ASSUME NEW s \in Strings, NEW p \in Strings, StartsWith(s, p)
  PROVE  \E r \in Strings : s = p \o r
<1> DEFINE n == Len(s)
           m == Len(p)
           r == SubSeq(s, m + 1, n)
<1>1. n \in Nat /\ m \in Nat /\ m <= n /\ SubSeq(s, 1, m) = p /\ s \in Seq(Chars)
  BY StringLength DEF StartsWith, Strings
<1>2. 1 \in 1..(n + 1) /\ m \in (1 - 1)..n /\ n \in m..n
  BY <1>1
<1>3. SubSeq(s, 1, m) \o SubSeq(s, m + 1, n) = SubSeq(s, 1, n)
  BY <1>1, <1>2, ConcatAdjacentSubSeq
<1>4. SubSeq(s, 1, n) = s
  BY <1>1, SubSeqFull
<1>5. \A i \in (m + 1)..n : s[i] \in Chars
  <2>1. \A i \in (m + 1)..n : i \in 1..n
    BY <1>1
  <2> QED BY <2>1, StringLength
<1>6. m + 1 \in Int /\ n \in Int
  BY <1>1
<1>7. r \in Strings
  BY <1>5, <1>6, SubSeqProperties DEF Strings
<1>8. s = p \o r
  BY <1>1, <1>3, <1>4
<1> QED BY <1>7, <1>8

\* What is found under a prefix of the tenant belongs to it.
LEMMA ListStep ==
  ASSUME FilesInv, NEW t \in Tenants, NEW p \in Strings, ListObjects(t, p)
  PROVE  FilesInv'
<1>1. /\ objectFiles' = objectFiles /\ StartsWith(p, TenantPrefix(t))
      /\ listing' = [tenant |-> t, files |-> {f \in objectFiles : StartsWith(Decoded(Tail(f.path)), p)}]
  BY DEF ListObjects, GuardAllowsList
<1>2. /\ t \in [org : OrgIds, project : ProjectIds] /\ t.org \in Strings /\ t.project \in Strings
      /\ SlashFree(t.org) /\ SlashFree(t.project)
  BY TenantNames
<1>3. TenantPrefix(t) \in Strings
  BY <1>2, PrefixesJoined
<1>4. PICK r \in Strings : p = TenantPrefix(t) \o r
  BY <1>1, <1>3, PrefixRest
<1>5. ASSUME NEW f \in objectFiles, StartsWith(Decoded(Tail(f.path)), p) PROVE SameTenant(f.tenant, t)
  <2> DEFINE v == f.tenant
             x == Segment(Encoded(f.bucket), Encoded(f.key))
             q == TenantPrefix(t)
             e == Tail(f.path)
             d == Decoded(e)
             full == FullKey(v, f.bucket, f.key)
  <2>1. /\ v \in Tenants /\ f.bucket \in Strings /\ f.key \in Strings /\ full \in Strings
        /\ e = Encoded(full) /\ e = Joined(Encoded(v.org), Encoded(v.project), x)
    BY FileNames DEF FilesInv
  <2>2. e \in Strings /\ d \in Strings /\ Encoded(d) = e
    <3> HIDE DEF full, e
    <3>1. e \in Strings
      BY <2>1, EncodedString
    <3> QED BY <2>1, <3>1, DecodedString, Reencoded
  <2> HIDE DEF d, e
  <2>3. PICK z \in Strings : d = p \o z
    BY <1>5, <2>2, PrefixRest DEF d, e
  <2>4. Cat(r, z) \in Strings /\ q \in Strings
    BY <1>3, CatString
  <2>5. p \o z = Cat(Cat(q, r), z) /\ q \o Cat(r, z) = Cat(q, Cat(r, z))
    BY <1>4 DEF Cat
  <2> HIDE DEF q
  <2>6. Cat(Cat(q, r), z) = Cat(q, Cat(r, z))
    BY <2>4, CatAssociates
  <2>7. d = TenantPrefix(t) \o Cat(r, z)
    BY <2>3, <2>5, <2>6 DEF q
  <2> DEFINE c == Cat(r, z)
             o == t.org
             j == t.project
  <2>8. d = Joined(o, j, c)
    BY <1>2, <2>4, <2>7, PrefixesJoined
  <2>9. o \in Strings /\ j \in Strings /\ c \in Strings
    BY <1>2, <2>4
  <2> HIDE DEF c, o, j
  <2>10. e = Joined(Encoded(o), Encoded(j), Encoded(c)) /\ Encoded(c) \in Strings
    BY <2>2, <2>8, <2>9, EncodedJoined, EncodedString
  <2>11. x \in Strings
    BY <2>1, EncodedString, SegmentString
  <2>12. Joined(Encoded(v.org), Encoded(v.project), x) = Joined(Encoded(t.org), Encoded(t.project), Encoded(c))
    BY <2>1, <2>10 DEF o, j
  <2> DEFINE ec == Encoded(c)
  <2> HIDE DEF x, ec, v
  <2>13. SameTenant(v, t)
    BY <2>1, <2>10, <2>11, <2>12, TenantsSplit DEF ec
  <2> QED BY <2>13 DEF v
<1>6. ListsOwn'
  BY <1>1, <1>5 DEF ListsOwn
<1> QED BY <1>1, <1>6 DEF FilesInv

LEMMA TenantStep == FilesInv /\ [TenantNext]_tenantVars => FilesInv' /\ [ObjectsApart]_tenantVars
<1> SUFFICES ASSUME FilesInv, [TenantNext]_tenantVars PROVE FilesInv' /\ [ObjectsApart]_tenantVars
  OBVIOUS
<1>1. ObjectsApart
  <2> SUFFICES ASSUME NEW f \in objectFiles, f \notin objectFiles',
                      NEW t \in Tenants, NEW b \in BucketIds, NEW k \in ObjectKeys,
                      PutObject(t, b, k) \/ DeleteObject(t, b, k)
               PROVE  SameTenant(f.tenant, t) /\ SameName(f.bucket, b) /\ SameName(f.key, k)
    BY DEF ObjectsApart
  <2> DEFINE path == FilePath(BucketPrefix(t, b) \o k)
             g == [path |-> path, tenant |-> t, bucket |-> b, key |-> k]
  <2>1. ValidBucket(b) /\ GuardAllows(BucketPrefix(t, b) \o k, t) /\ f.path = path
    BY DEF PutObject, DeleteObject
  <2>2. FileOK(g) /\ FileOK(f)
    BY <2>1, GuardedFile DEF FilesInv
  <2>3. g.path = path /\ g.tenant = t /\ g.bucket = b /\ g.key = k
    OBVIOUS
  <2> HIDE DEF g, path
  <2> QED BY <2>1, <2>2, <2>3, OneFile
<1>2. CASE UNCHANGED tenantVars
  <2>1. FilesInv'
    BY <1>2 DEF tenantVars, FilesInv, ListsOwn
  <2> QED BY <1>2, <2>1
<1>3. CASE TenantNext
  <2>1. ASSUME NEW t \in Tenants, NEW b \in BucketIds, NEW k \in ObjectKeys, PutObject(t, b, k) \/ DeleteObject(t, b, k)
        PROVE  FilesInv'
    BY <2>1, PutStep, DeleteStep
  <2>2. ASSUME NEW t \in Tenants, NEW k \in {<<>>, <<Slash>>} \cup ObjectKeys,
               ListObjects(t, t.org \o <<Slash>> \o t.project \o k)
        PROVE  FilesInv'
    <3> DEFINE p == t.org \o <<Slash>> \o t.project \o k
    <3>1. t.org \in Strings /\ t.project \in Strings /\ <<Slash>> \in Strings
      BY TenantNames, SlashString
    <3>2. k \in Strings
      BY SlashString, TenantAssumption, EmptySeq DEF Strings
    <3>3. p = Cat(Cat(Cat(t.org, <<Slash>>), t.project), k)
      BY DEF Cat
    <3>4. p \in Strings
      <4> DEFINE s == <<Slash>>
      <4>1. s \in Strings /\ p = Cat(Cat(Cat(t.org, s), t.project), k)
        BY <3>1, <3>3
      <4> HIDE DEF s, p
      <4>2. Cat(t.org, s) \in Strings
        BY <3>1, <4>1, CatString
      <4>3. Cat(Cat(t.org, s), t.project) \in Strings
        BY <3>1, <4>2, CatString
      <4>4. Cat(Cat(Cat(t.org, s), t.project), k) \in Strings
        BY <3>2, <4>3, CatString
      <4> QED BY <4>1, <4>4
    <3>5. ListObjects(t, p)
      BY <2>2
    <3> HIDE DEF p
    <3> QED BY <3>4, <3>5, ListStep
  <2>3. FilesInv'
    BY <1>3, <2>1, <2>2 DEF TenantNext
  <2> QED BY <1>1, <2>3
<1> QED BY <1>2, <1>3

\* Tenants stay apart in the object store, for any names and keys: what the guard lets through
\* is stored under its own key, in which only the colons change, so that a path tells
\* organisation, project, bucket and key but for the text "%3A"; no other put or delete reaches
\* the file, and no other tenant's list shows it (providers/guard/tenant-guard.ts,
\* packages/policy/permission-resolver.ts, providers/objects/local-fs-provider.ts).
THEOREM TenantsStayApart == TenantSpec => TenantsApart
<1>1. FilesInv => TenantTypeOK /\ ListsOwn
  BY DEF FilesInv, TenantTypeOK, FileOK
<1> QED BY <1>1, TenantStart, TenantStep, PTL DEF TenantSpec, TenantsApart
==============================================================================
