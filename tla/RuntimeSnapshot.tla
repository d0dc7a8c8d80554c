--------------------------- MODULE RuntimeSnapshot ---------------------------
(***************************************************************************)
(* The data plane's polling of the control plane (apps/runtime/            *)
(* runtime-server.ts) for its own project and the other projects it        *)
(* discovers, the disk cache a cold start reads, and the cron timers that  *)
(* follow the snapshots.                                                   *)
(*                                                                         *)
(* A poll is cut off by a timeout but not cancelled, so several may be     *)
(* under way.  The control plane is taken from SnapshotDistribution with   *)
(* getProjectSnapshot in one step; its own interleavings are that          *)
(* module's.  Content 0 is a project without functions.                    *)
(***************************************************************************)
EXTENDS Naturals

CONSTANTS Main,          \* the project the runtime was started for
          Others,        \* projects it may discover
          Contents,      \* what the functions of a project may be, positive
          Polls,         \* polls that may be under way at once
          MaxVersion, MaxChanges, MaxControlRestarts, MaxCrashes,
          None, Partial, NotModified

Projects == Others \cup {Main}

ASSUME RuntimeConstants ==
  /\ Main \notin Others
  /\ Contents \subseteq Nat \ {0}
  /\ MaxVersion \in Nat /\ MaxChanges \in Nat /\ MaxControlRestarts \in Nat /\ MaxCrashes \in Nat

VARIABLES
  wanted,      \* control plane: project -> what is deployed
  published,   \* control plane: project -> cached snapshot, or None
  snaps,       \* runtime: currentSnapshot and projectSnapshots
  cron,        \* runtime: project -> content its cron timers were made from
  disk,        \* the snapshot cache file: None, Partial or a snapshot
  polls,       \* poll -> how far it is
  isPolling,   \* the poll that holds the lock, or None
  spent        \* changes, restarts and crashes so far

control == <<wanted, published>>
runtime == <<snaps, cron>>
vars == <<control, runtime, disk, polls, isPolling, spent>>

Snapshots == [version : 1..MaxVersion, content : Contents \cup {0}]

\* null, a torn file and a 304 are told apart from a snapshot.
ASSUME SnapshotSentinels == {None, Partial, NotModified} \cap Snapshots = {}

Poll == [pc : {"idle", "asking", "replied", "opening", "writing", "listing", "listed"},
         project : Projects,
         todo : SUBSET Projects,      \* still to be fetched, or the list received
         existing : Snapshots \cup {None},
         reply : Snapshots \cup {None, NotModified}]
IdlePoll == [pc |-> "idle", project |-> Main, todo |-> {}, existing |-> None, reply |-> None]

TypeOK ==
  /\ wanted \in [Projects -> Contents \cup {0}]
  /\ published \in [Projects -> Snapshots \cup {None}]
  /\ snaps \in [Projects -> Snapshots \cup {None}]
  /\ cron \in [Projects -> Contents \cup {0, None}]
  /\ disk \in Snapshots \cup {None, Partial}
  /\ polls \in [Polls -> Poll]
  /\ isPolling \in Polls \cup {None}
  /\ spent \in [changes : 0..MaxChanges, restarts : 0..MaxControlRestarts, crashes : 0..MaxCrashes]

Init ==
  /\ wanted = [p \in Projects |-> 0]
  /\ published = [p \in Projects |-> None]
  /\ snaps = [p \in Projects |-> None]
  /\ cron = [p \in Projects |-> None]
  /\ disk = None
  /\ polls = [q \in Polls |-> IdlePoll]
  /\ isPolling = None
  /\ spent = [changes |-> 0, restarts |-> 0, crashes |-> 0]

----------------------------------------------------------------------------
(* The control plane. *)

\* Mutant of Built: a new content keeps the version.
BuiltUnversioned(p, content) ==
  IF published[p] = None THEN [version |-> 1, content |-> content]
  ELSE [published[p] EXCEPT !.content = content]

\* getProjectSnapshot, for the content that is deployed.
Built(p, content) ==
  IF published[p] = None THEN [version |-> 1, content |-> content]
  ELSE IF published[p].content # content THEN [version |-> published[p].version + 1, content |-> content]
  ELSE published[p]

\* A deploy or a rollback, which also builds the snapshot.
Deploy(p, c) ==
  /\ spent.changes < MaxChanges /\ wanted[p] # c
  /\ Built(p, c).version <= MaxVersion
  /\ wanted' = [wanted EXCEPT ![p] = c]
  /\ published' = [published EXCEPT ![p] = Built(p, c)]
  /\ spent' = [spent EXCEPT !.changes = @ + 1]
  /\ UNCHANGED <<runtime, disk, polls, isPolling>>

\* Undeploy: the snapshot is not built.
Undeploy(p) ==
  /\ spent.changes < MaxChanges /\ wanted[p] # 0
  /\ wanted' = [wanted EXCEPT ![p] = 0]
  /\ spent' = [spent EXCEPT !.changes = @ + 1]
  /\ UNCHANGED <<published, runtime, disk, polls, isPolling>>

\* A restart keeps the deployments and forgets the snapshots and their versions.
ControlRestart ==
  /\ spent.restarts < MaxControlRestarts
  /\ published' = [p \in Projects |-> None]
  /\ spent' = [spent EXCEPT !.restarts = @ + 1]
  /\ UNCHANGED <<wanted, runtime, disk, polls, isPolling>>

\* Mutant of Reply: 304 for every version that is not older.
ReplyUnlessOlder(snapshot, existing) ==
  IF existing # None /\ existing.version <= snapshot.version THEN NotModified ELSE snapshot

\* The answer to If-None-Match: 304 if the version is the one the runtime has.
Reply(snapshot, existing) ==
  IF existing # None /\ existing.version = snapshot.version THEN NotModified ELSE snapshot

----------------------------------------------------------------------------
(* The runtime. *)

\* fetchSnapshotForProject up to its fetch: the snapshot it compares with is
\* read now, before the answer is awaited.
Ask(p, todo, snapshots) ==
  [pc |-> "asking", project |-> p, todo |-> todo, existing |-> snapshots[p], reply |-> None]

\* The projects are asked for, or have been answered.
Listing(pc, listed) ==
  [pc |-> pc, project |-> Main, todo |-> listed, existing |-> None, reply |-> None]

\* The poll is over; only a poll that was not cut off releases the lock.
EndPoll(q) ==
  /\ polls' = [polls EXCEPT ![q] = IdlePoll]
  /\ isPolling' = IF isPolling = q THEN None ELSE isPolling

\* After one project: the project list after Main, else the next listed project.
GoOn(q, snapshots) ==
  LET poll == polls[q]
  IN  \/ /\ poll.project = Main
         /\ polls' = [polls EXCEPT ![q] = Listing("listing", {})]
         /\ UNCHANGED isPolling
      \/ /\ poll.project # Main /\ poll.todo # {}
         /\ \E p \in poll.todo : polls' = [polls EXCEPT ![q] = Ask(p, poll.todo \ {p}, snapshots)]
         /\ UNCHANGED isPolling
      \/ /\ poll.project # Main /\ poll.todo = {}
         /\ EndPoll(q)

\* runPoll, at startup and on every interval.
StartPoll(q) ==
  /\ isPolling = None /\ polls[q].pc = "idle"
  /\ isPolling' = q
  /\ polls' = [polls EXCEPT ![q] = Ask(Main, {}, snaps)]
  /\ UNCHANGED <<control, runtime, disk, spent>>

\* Twice the interval has passed: the lock is released, the poll runs on.
TimeoutPoll(q) ==
  /\ isPolling = q
  /\ isPolling' = None
  /\ UNCHANGED <<control, runtime, disk, polls, spent>>

\* The control plane handles the request.
Serve(q) ==
  LET p == polls[q].project
  IN  /\ polls[q].pc = "asking"
      /\ Built(p, wanted[p]).version <= MaxVersion
      /\ published' = [published EXCEPT ![p] = Built(p, wanted[p])]
      /\ polls' = [polls EXCEPT ![q] = [pc |-> "replied", project |-> p, todo |-> @.todo,
                                        existing |-> @.existing,
                                        reply |-> Reply(Built(p, wanted[p]), @.existing)]]
      /\ UNCHANGED <<wanted, runtime, disk, isPolling, spent>>

\* The fetch fails or answers an error, before or after it was handled.
FetchFails(q) ==
  /\ polls[q].pc \in {"asking", "replied"}
  /\ GoOn(q, snaps)
  /\ UNCHANGED <<control, runtime, disk, spent>>

Newer(q) ==
  /\ polls[q].reply # NotModified
  /\ polls[q].existing # None => polls[q].reply.version > polls[q].existing.version

\* Mutant of Accept: the cron timers are left as they were.
AcceptNoCron(q) ==
  LET p == polls[q].project
  IN  /\ polls[q].pc = "replied" /\ Newer(q)
      /\ snaps' = [snaps EXCEPT ![p] = polls[q].reply]
      /\ \/ /\ p = Main
            /\ polls' = [polls EXCEPT ![q].pc = "opening"]
            /\ UNCHANGED isPolling
         \/ /\ p # Main
            /\ GoOn(q, snaps')
      /\ UNCHANGED <<control, cron, disk, spent>>

\* A newer snapshot: route by it, restart the cron timers, and for the own
\* project write the disk cache next.
Accept(q) ==
  LET p == polls[q].project
  IN  /\ polls[q].pc = "replied" /\ Newer(q)
      /\ snaps' = [snaps EXCEPT ![p] = polls[q].reply]
      /\ cron' = [cron EXCEPT ![p] = polls[q].reply.content]
      /\ \/ /\ p = Main
            /\ polls' = [polls EXCEPT ![q].pc = "opening"]
            /\ UNCHANGED isPolling
         \/ /\ p # Main
            /\ GoOn(q, snaps')
      /\ UNCHANGED <<control, disk, spent>>

\* 304, or a version that is not above the one compared with.
Ignore(q) ==
  /\ polls[q].pc = "replied" /\ ~Newer(q)
  /\ GoOn(q, snaps)
  /\ UNCHANGED <<control, runtime, disk, spent>>

\* writeTextFile truncates the file in place ...
OpenDisk(q) ==
  /\ polls[q].pc = "opening"
  /\ disk' = Partial
  /\ polls' = [polls EXCEPT ![q].pc = "writing"]
  /\ UNCHANGED <<control, runtime, isPolling, spent>>

\* ... unless the file system refuses, which is swallowed ...
OpenRefused(q) ==
  /\ polls[q].pc = "opening"
  /\ GoOn(q, snaps)
  /\ UNCHANGED <<control, runtime, disk, spent>>

\* ... and fills it; two writes at once may leave a mixture.
WriteDisk(q) ==
  /\ polls[q].pc = "writing"
  /\ \/ disk' = polls[q].reply
     \/ /\ \E o \in Polls \ {q} : polls[o].pc = "writing"
        /\ disk' = Partial
  /\ GoOn(q, snaps)
  /\ UNCHANGED <<control, runtime, spent>>

\* The control plane lists its projects.
ServeList(q) ==
  /\ polls[q].pc = "listing"
  /\ polls' = [polls EXCEPT ![q] = Listing("listed", {p \in Projects : wanted[p] # 0})]
  /\ UNCHANGED <<control, runtime, disk, isPolling, spent>>

ListFails(q) ==
  /\ polls[q].pc \in {"listing", "listed"}
  /\ EndPoll(q)
  /\ UNCHANGED <<control, runtime, disk, spent>>

\* Mutant of ApplyList: the own project is dropped like any other.
ApplyListForgetsMain(q) ==
  LET listed == polls[q].todo
  IN  /\ polls[q].pc = "listed"
      /\ snaps' = [p \in Projects |-> IF p \in listed THEN snaps[p] ELSE None]
      /\ EndPoll(q)
      /\ UNCHANGED <<control, cron, disk, spent>>

\* Forget the snapshots of projects that are gone, fetch those of the rest.
ApplyList(q) ==
  LET listed == polls[q].todo
      kept == [p \in Projects |-> IF p = Main \/ p \in listed THEN snaps[p] ELSE None]
  IN  /\ polls[q].pc = "listed"
      /\ snaps' = kept
      /\ \/ /\ listed \subseteq {Main}
            /\ EndPoll(q)
         \/ /\ \E p \in listed \ {Main} :
                 polls' = [polls EXCEPT ![q] = Ask(p, listed \ {Main, p}, kept)]
            /\ UNCHANGED isPolling
      /\ UNCHANGED <<control, cron, disk, spent>>

\* Mutant of CrashRestart: the disk cache is used without being validated.
CrashRestartUnvalidated ==
  /\ spent.crashes < MaxCrashes
  /\ snaps' = [p \in Projects |-> IF p = Main THEN disk ELSE None]
  /\ cron' = [p \in Projects |-> None]
  /\ polls' = [q \in Polls |-> IdlePoll]
  /\ isPolling' = None
  /\ spent' = [spent EXCEPT !.crashes = @ + 1]
  /\ UNCHANGED <<control, disk>>

\* The process dies and starts again: it holds what the disk cache gives it.
CrashRestart ==
  LET loaded == IF disk \in Snapshots THEN disk ELSE None
  IN  /\ spent.crashes < MaxCrashes
      /\ snaps' = [p \in Projects |-> IF p = Main THEN loaded ELSE None]
      /\ cron' = [p \in Projects |-> IF p = Main /\ loaded # None THEN loaded.content ELSE None]
      /\ polls' = [q \in Polls |-> IdlePoll]
      /\ isPolling' = None
      /\ spent' = [spent EXCEPT !.crashes = @ + 1]
      /\ UNCHANGED <<control, disk>>

RuntimeStep(q) ==
  \/ StartPoll(q) \/ TimeoutPoll(q) \/ FetchFails(q) \/ Accept(q) \/ Ignore(q)
  \/ OpenDisk(q) \/ OpenRefused(q) \/ WriteDisk(q) \/ ListFails(q) \/ ApplyList(q)

ControlStep(q) == Serve(q) \/ ServeList(q)

Next ==
  \/ \E q \in Polls : RuntimeStep(q) \/ ControlStep(q)
  \/ \E p \in Projects : Undeploy(p) \/ \E c \in Contents : Deploy(p, c)
  \/ ControlRestart
  \/ CrashRestart

Spec == Init /\ [][Next]_vars

DiskOrListStep(q) == OpenDisk(q) \/ OpenRefused(q) \/ WriteDisk(q) \/ ListFails(q) \/ ApplyList(q)

\* The interval timer fires, the event loop runs, and a request that keeps being
\* sent is answered now and then.
Fairness ==
  /\ WF_vars(\E q \in Polls : StartPoll(q))
  /\ \A q \in Polls :
       /\ WF_vars(DiskOrListStep(q))
       /\ SF_vars(Serve(q))
       /\ SF_vars(Accept(q) \/ Ignore(q))

FairSpec == Spec /\ Fairness

----------------------------------------------------------------------------
\* Fail-static: while the process lives, nothing the control plane does or
\* fails to do takes the snapshot of the runtime's own project away.
KeepsServing == [][snaps[Main] # None => snaps'[Main] # None \/ CrashRestart]_vars

\* The cron timers of the own project run the revision its requests run.
CronFollowsMain == snaps[Main] # None => cron[Main] = snaps[Main].content

\* The runtime never goes back to a snapshot older than one it served.
NoDowngrade ==
  [][\A p \in Projects :
       snaps[p] # None /\ snaps'[p] # None /\ spent'.crashes = spent.crashes
         => snaps'[p].version >= snaps[p].version]_vars

\* A version tells the runtime what the snapshot contains: what it holds under
\* the version the control plane has now is what the control plane has, through
\* crashes of the runtime and late answers, while the control plane stays up.
VersionNamesContent ==
  spent.restarts = 0 => \A p \in Projects :
    snaps[p] # None /\ published[p] # None /\ snaps[p].version = published[p].version
      => snaps[p].content = published[p].content

\* What is deployed last reaches the runtime, by way of polls that may be cut
\* off, fail and overlap.
Converges == \A c \in Contents : <>[](wanted[Main] = c) => <>[](snaps[Main] # None /\ snaps[Main].content = c)

\* Whatever polls overlap, fail or are cut off by a crash, what a node serves is a
\* whole snapshot, its timers are those of the main project's snapshot, and
\* a version names one content until the control plane restarts.
RuntimeSafe == TypeOK /\ CronFollowsMain /\ VersionNamesContent
=============================================================================
