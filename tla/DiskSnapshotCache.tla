-------------------------- MODULE DiskSnapshotCache --------------------------
(***************************************************************************)
(* The two fail-static caches of runtime/snapshot/: RuntimeSnapshotCache,  *)
(* which keeps the last-known-good snapshot in memory, and                 *)
(* DiskSnapshotCache, which also writes it to a temporary file, renames    *)
(* that over the cache file and reads the cache file on a cold start.      *)
(*                                                                         *)
(* A snapshot is its version.  Refreshes overlap: forceRefresh may be      *)
(* called at any time, and a poll that timed out is not cancelled.  They   *)
(* share one temporary path; a path names an inode, and a descriptor that  *)
(* is open keeps its inode when the path is renamed or removed.            *)
(***************************************************************************)
EXTENDS Naturals

CONSTANTS Refreshes,     \* refreshes that may be under way at once
          Inodes,        \* enough for every open descriptor and both paths
          WriteMayFail,  \* the file system may refuse a write
          MaxVersion, MaxCrashes,
          None, Partial

Versions == 1..MaxVersion

ASSUME CacheConstants ==
  /\ MaxVersion \in Nat /\ MaxCrashes \in Nat
  /\ WriteMayFail \in BOOLEAN
  /\ None \notin Versions /\ Partial \notin Versions /\ None \notin Inodes

VARIABLES
  source,          \* the version the control plane has, 0 before the first
  latestSnapshot,  \* in memory
  started,         \* timerId # null
  isPolling,
  refresh,         \* refresh -> how far it is
  content,         \* inode -> what it holds
  tmpFile,         \* the inode at the temporary path, or None
  cacheFile,       \* the inode at the cache path, or None
  cached,          \* history: the cache file has once held a whole snapshot
  unsaved,         \* history: writing the snapshot now in memory failed
  crashes,
  hasDisk,         \* which of the two caches it is: TRUE for DiskSnapshotCache
  clash            \* history: two refreshes have been persisting at once

memory == <<latestSnapshot, started, isPolling>>
files == <<content, tmpFile, cacheFile>>
vars == <<source, memory, refresh, files, cached, unsaved, crashes, hasDisk, clash>>

Refresh == [pc : {"idle", "fetching", "fetched", "opening", "writing", "renaming", "failed"},
            polled : BOOLEAN,            \* pollBackground is waiting for it
            got : Versions \cup {None},
            fd : Inodes \cup {None}]
IdleRefresh == [pc |-> "idle", polled |-> FALSE, got |-> None, fd |-> None]

TypeOK ==
  /\ source \in Versions \cup {0}
  /\ latestSnapshot \in Versions \cup {None}
  /\ started \in BOOLEAN /\ isPolling \in BOOLEAN
  /\ refresh \in [Refreshes -> Refresh]
  /\ content \in [Inodes -> Versions \cup {Partial}]
  /\ tmpFile \in Inodes \cup {None} /\ cacheFile \in Inodes \cup {None}
  /\ cached \in BOOLEAN /\ unsaved \in BOOLEAN
  /\ crashes \in 0..MaxCrashes
  /\ hasDisk \in BOOLEAN /\ clash \in BOOLEAN

Init ==
  /\ source = 0 /\ latestSnapshot = None
  /\ started = FALSE /\ isPolling = FALSE
  /\ refresh = [r \in Refreshes |-> IdleRefresh]
  /\ content = [i \in Inodes |-> Partial]
  /\ tmpFile = None /\ cacheFile = None
  /\ cached = FALSE /\ unsaved = FALSE
  /\ crashes = 0
  /\ hasDisk \in BOOLEAN /\ clash = FALSE

----------------------------------------------------------------------------
\* A refresh begins with its fetch.
Fetching(polled) == [pc |-> "fetching", polled |-> polled, got |-> None, fd |-> None]

\* A refresh goes on.
Moved(r, pc, got, fd) ==
  [refresh EXCEPT ![r] = [pc |-> pc, polled |-> refresh[r].polled, got |-> got, fd |-> fd]]

\* pollBackground no longer waits for a refresh.
Detached(r) ==
  [refresh EXCEPT ![r] = [pc |-> refresh[r].pc, polled |-> FALSE,
                          got |-> refresh[r].got, fd |-> refresh[r].fd]]

\* The promise of forceRefresh settles; a poll still waiting for it gives up the
\* lock, one that timed out has done so before.
Settle(r) ==
  /\ refresh' = [refresh EXCEPT ![r] = IdleRefresh]
  /\ isPolling' = (isPolling /\ ~refresh[r].polled)

\* The control plane publishes (SnapshotSource, within one life).
Publish ==
  /\ source < MaxVersion
  /\ source' = source + 1
  /\ UNCHANGED <<memory, refresh, files, cached, unsaved, crashes, hasDisk, clash>>

\* pollBackground: nothing while a poll holds the lock.
PollBackground(r) ==
  \/ /\ isPolling
     /\ UNCHANGED <<isPolling, refresh>>
  \/ /\ ~isPolling /\ refresh[r].pc = "idle"
     /\ isPolling' = TRUE
     /\ refresh' = [refresh EXCEPT ![r] = Fetching(TRUE)]

Start(r) ==
  /\ ~started
  /\ started' = TRUE
  /\ PollBackground(r)
  /\ UNCHANGED <<source, latestSnapshot, files, cached, unsaved, crashes, hasDisk, clash>>

Interval(r) ==
  /\ started
  /\ PollBackground(r)
  /\ UNCHANGED <<source, latestSnapshot, started, files, cached, unsaved, crashes, hasDisk, clash>>

Stop ==
  /\ started
  /\ started' = FALSE
  /\ UNCHANGED <<source, latestSnapshot, isPolling, refresh, files, cached, unsaved, crashes, hasDisk, clash>>

ForceRefresh(r) ==
  /\ refresh[r].pc = "idle"
  /\ refresh' = [refresh EXCEPT ![r] = Fetching(FALSE)]
  /\ UNCHANGED <<source, memory, files, cached, unsaved, crashes, hasDisk, clash>>

\* Mutant of PollTimeout: the late poll keeps the lock.
PollTimeoutKeepsLock(r) ==
  /\ refresh[r].polled
  /\ refresh' = Detached(r)
  /\ UNCHANGED <<source, memory, files, cached, unsaved, crashes, hasDisk, clash>>

\* Twice the interval has passed: the lock is released, the refresh runs on.
PollTimeout(r) ==
  /\ refresh[r].polled
  /\ isPolling' = FALSE
  /\ refresh' = Detached(r)
  /\ UNCHANGED <<source, latestSnapshot, started, files, cached, unsaved, crashes, hasDisk, clash>>

\* Mutant of Serve: the payload is not validated.
ServeUnvalidated(r) ==
  /\ refresh[r].pc = "fetching"
  /\ refresh' = Moved(r, "fetched", source, None)
  /\ UNCHANGED <<source, memory, files, cached, unsaved, crashes, hasDisk, clash>>

\* The control plane answers the fetch; the answer may take its time.
Serve(r) ==
  /\ refresh[r].pc = "fetching" /\ source > 0
  /\ refresh' = Moved(r, "fetched", source, None)
  /\ UNCHANGED <<source, memory, files, cached, unsaved, crashes, hasDisk, clash>>

\* The fetch rejects, or its payload is not a valid snapshot.
FetchFails(r) ==
  /\ refresh[r].pc \in {"fetching", "fetched"}
  /\ Settle(r)
  /\ UNCHANGED <<source, latestSnapshot, started, files, cached, unsaved, crashes, hasDisk, clash>>

\* Mutant of Newer: the version is not compared.
NewerAny(v) == v # latestSnapshot

Newer(v) == latestSnapshot # None => v > latestSnapshot

Persisting(r) == refresh[r].pc \in {"opening", "writing", "renaming", "failed"}

\* The answer arrives: memory first, then the disk.
Apply(r) ==
  /\ refresh[r].pc = "fetched"
  /\ \/ /\ Newer(refresh[r].got)
        /\ latestSnapshot' = refresh[r].got
        /\ unsaved' = FALSE
        /\ \/ /\ hasDisk
              /\ refresh' = Moved(r, "opening", refresh[r].got, None)
              /\ clash' = (clash \/ \E o \in Refreshes : Persisting(o))
              /\ UNCHANGED isPolling
           \/ /\ ~hasDisk
              /\ Settle(r)
              /\ UNCHANGED clash
     \/ /\ ~Newer(refresh[r].got)
        /\ Settle(r)
        /\ UNCHANGED <<latestSnapshot, unsaved, clash>>
  /\ UNCHANGED <<source, started, files, cached, crashes, hasDisk>>

Unused(i) == i # tmpFile /\ i # cacheFile /\ \A r \in Refreshes : refresh[r].fd # i

\* Mutant of OpenTmp: the cache file is written in place.
OpenTmpInPlace(r) ==
  /\ refresh[r].pc = "opening"
  /\ \E i \in Inodes :
       /\ IF cacheFile = None THEN Unused(i) ELSE i = cacheFile
       /\ tmpFile' = i
       /\ content' = [content EXCEPT ![i] = Partial]
       /\ refresh' = Moved(r, "writing", refresh[r].got, i)
  /\ UNCHANGED <<source, memory, cacheFile, cached, unsaved, crashes, hasDisk, clash>>

\* writeTextFile opens the temporary path: a new file, or the one another
\* refresh is writing, truncated.
OpenTmp(r) ==
  /\ refresh[r].pc = "opening"
  /\ \E i \in Inodes :
       /\ IF tmpFile = None THEN Unused(i) ELSE i = tmpFile
       /\ tmpFile' = i
       /\ content' = [content EXCEPT ![i] = Partial]
       /\ refresh' = Moved(r, "writing", refresh[r].got, i)
  /\ UNCHANGED <<source, memory, cacheFile, cached, unsaved, crashes, hasDisk, clash>>

\* The write ends; a second writer of the same inode may leave a mixture.
WriteTmp(r) ==
  LET i == refresh[r].fd
  IN  /\ refresh[r].pc = "writing"
      /\ \/ content' = [content EXCEPT ![i] = refresh[r].got]
         \/ /\ \E o \in Refreshes \ {r} : refresh[o].fd = i
            /\ content' = [content EXCEPT ![i] = Partial]
      /\ cached' = (cached \/ (i = cacheFile /\ content'[i] # Partial))
      /\ refresh' = Moved(r, "renaming", refresh[r].got, None)
      /\ UNCHANGED <<source, memory, tmpFile, cacheFile, unsaved, crashes, hasDisk, clash>>

Fail(r) ==
  /\ refresh' = Moved(r, "failed", refresh[r].got, None)
  /\ unsaved' = (unsaved \/ refresh[r].got = latestSnapshot)

\* The directory cannot be made: that is outside the try, and nothing is removed.
MkdirFails(r) ==
  /\ WriteMayFail
  /\ refresh[r].pc = "opening"
  /\ unsaved' = (unsaved \/ refresh[r].got = latestSnapshot)
  /\ Settle(r)
  /\ UNCHANGED <<source, latestSnapshot, started, files, cached, crashes, hasDisk, clash>>

WriteFails(r) ==
  /\ WriteMayFail
  /\ refresh[r].pc \in {"opening", "writing"}
  /\ Fail(r)
  /\ UNCHANGED <<source, memory, files, cached, crashes, hasDisk, clash>>

\* Mutant of RenameTmp: the temporary file is written and left there.
RenameTmpForgotten(r) ==
  /\ refresh[r].pc = "renaming" /\ tmpFile # None
  /\ Settle(r)
  /\ UNCHANGED <<source, latestSnapshot, started, files, cached, unsaved, crashes, hasDisk, clash>>

\* Rename the temporary path over the cache path, whatever it names by now.
RenameTmp(r) ==
  /\ refresh[r].pc = "renaming" /\ tmpFile # None
  /\ cacheFile' = tmpFile /\ tmpFile' = None
  /\ cached' = (cached \/ content[tmpFile] # Partial)
  /\ Settle(r)
  /\ UNCHANGED <<source, latestSnapshot, started, content, unsaved, crashes, hasDisk, clash>>

\* Another refresh has renamed or removed it.
RenameFails(r) ==
  /\ refresh[r].pc = "renaming" /\ tmpFile = None
  /\ Fail(r)
  /\ UNCHANGED <<source, memory, files, cached, crashes, hasDisk, clash>>

\* Cleaning up removes the temporary path, and the error is rethrown.
RemoveTmp(r) ==
  /\ refresh[r].pc = "failed"
  /\ tmpFile' = None
  /\ Settle(r)
  /\ UNCHANGED <<source, latestSnapshot, started, content, cacheFile, cached, unsaved, crashes, hasDisk, clash>>

\* Cold start: an unreadable cache file counts as none.
CrashRestart ==
  /\ crashes < MaxCrashes
  /\ latestSnapshot' = IF cacheFile # None /\ content[cacheFile] # Partial
                         THEN content[cacheFile] ELSE None
  /\ started' = FALSE /\ isPolling' = FALSE
  /\ refresh' = [r \in Refreshes |-> IdleRefresh]
  /\ unsaved' = FALSE
  /\ crashes' = crashes + 1
  /\ UNCHANGED <<source, files, cached, hasDisk, clash>>

Next ==
  \/ Publish \/ Stop \/ CrashRestart
  \/ \E r \in Refreshes :
       \/ Start(r) \/ Interval(r) \/ ForceRefresh(r) \/ PollTimeout(r)
       \/ Serve(r) \/ FetchFails(r) \/ Apply(r)
       \/ MkdirFails(r) \/ OpenTmp(r) \/ WriteTmp(r) \/ WriteFails(r)
       \/ RenameTmp(r) \/ RenameFails(r) \/ RemoveTmp(r)

Spec == Init /\ [][Next]_vars

\* Timers fire and file operations end.  A fetch may hang for ever.
FileStep(r) ==
  MkdirFails(r) \/ OpenTmp(r) \/ WriteTmp(r) \/ WriteFails(r) \/ RenameTmp(r) \/ RenameFails(r) \/ RemoveTmp(r)
Fairness == \A r \in Refreshes : WF_vars(PollTimeout(r)) /\ WF_vars(FileStep(r))
FairSpec == Spec /\ Fairness

----------------------------------------------------------------------------
Quiet == \A r \in Refreshes : refresh[r].pc = "idle"

\* Fail-static and monotonic: while the process lives, the snapshot in memory is
\* never lost and never replaced by an older one, although the answers of
\* overlapping refreshes arrive in any order.
OnlyNewer ==
  [][latestSnapshot # None /\ latestSnapshot' # latestSnapshot
       => CrashRestart \/ latestSnapshot' > latestSnapshot]_vars

\* The cache file can be read whenever the process may crash, once a snapshot
\* has been cached: "atomic rename guarantees protection against partial writes".
AtomicRename == cached => cacheFile # None /\ content[cacheFile] # Partial

\* It does as long as no two refreshes persist at once, crashes and failing
\* writes at any step included.
CacheReadable == ~clash => AtomicRename

\* A cold start would bring back the snapshot that is in memory, unless refreshes
\* clashed or the last write failed.  It holds whenever no refresh is under way.
DiskCatchesUp ==
  hasDisk /\ latestSnapshot # None /\ ~unsaved /\ ~clash
    => cacheFile # None /\ content[cacheFile] = latestSnapshot

\* A fetch that hangs for ever does not stop the polling.
NotWedged == isPolling ~> ~isPolling

\* What is on disk survives: the cache file can be read at every step, and once no refresh
\* is under way it has what memory has.
CacheSafe == CacheReadable /\ (Quiet => DiskCatchesUp)
=============================================================================
