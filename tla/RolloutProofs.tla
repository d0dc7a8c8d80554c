--------------------------- MODULE RolloutProofs ---------------------------
(***************************************************************************)
(* Proofs about the way of a change to the machines: the runtimes that     *)
(* poll it (RuntimeSnapshot), the keys that admit it (ApiKeys), and the    *)
(* commands that make it and upgrade the machines (CommandLine).  They     *)
(* hold for every set of projects, contents, polls and requests and every  *)
(* number of functions, keys, changes, restarts and crashes.               *)
(***************************************************************************)
EXTENDS RuntimeSnapshot, ApiKeys, CommandLine, TLAPS, SequenceTheorems

----------------------------------------------------------------------------
(* The inductive invariant of the runtime.                                  *)

\* An answer that is being applied is a snapshot, and the one being written to
\* the disk cache is of the own project.
Answered(poll) ==
  /\ poll.pc = "replied" => poll.reply \in Snapshots \cup {NotModified}
  /\ poll.pc \in {"opening", "writing"} => poll.reply \in Snapshots /\ poll.project = Main

\* The control plane made this snapshot: it is older than the published one, or
\* it is the published one.
Known(s, current) ==
  /\ current # None
  /\ s.version <= current.version
  /\ s.version = current.version => s.content = current.content

\* As long as the control plane does not restart, every snapshot the runtime
\* holds, has on disk or is being sent is one the control plane made.
KnownInv ==
  spent.restarts = 0 =>
    /\ \A p \in Projects : snaps[p] # None => Known(snaps[p], published[p])
    /\ disk \in Snapshots => Known(disk, published[Main])
    /\ \A q \in Polls :
         polls[q].pc \in {"replied", "opening", "writing"} /\ polls[q].reply # NotModified
           => Known(polls[q].reply, published[polls[q].project])

RuntimeInv ==
  /\ TypeOK /\ CronFollowsMain
  /\ \A q \in Polls : Answered(polls[q])
  /\ KnownInv

----------------------------------------------------------------------------
(* Lemmas on the control plane's builds and on the steps of a poll.         *)

LEMMA IdlePollType == IdlePoll \in Poll /\ IdlePoll.pc = "idle"
BY DEF IdlePoll, Poll, Projects

LEMMA AskType ==
  ASSUME NEW p \in Projects, NEW todo \in SUBSET Projects,
         NEW s \in [Projects -> Snapshots \cup {None}]
  PROVE  Ask(p, todo, s) \in Poll /\ Ask(p, todo, s).pc = "asking"
BY DEF Ask, Poll

\* What getProjectSnapshot builds is a snapshot, and every one it built before is
\* still known beside it.
LEMMA BuiltKnown ==
  ASSUME TypeOK, NEW p \in Projects, NEW c \in Contents \cup {0},
         Built(p, c).version <= MaxVersion
  PROVE  /\ Built(p, c) \in Snapshots
         /\ Known(Built(p, c), Built(p, c))
         /\ \A s \in Snapshots : Known(s, published[p]) => Known(s, Built(p, c))
<1> USE RuntimeConstants DEF Snapshots
<1>1. CASE published[p] = None
  <2>1. Built(p, c) = [version |-> 1, content |-> c]
    BY <1>1 DEF Built
  <2>2. Built(p, c) \in Snapshots
    BY <2>1
  <2> QED BY <1>1, <2>2, SnapshotSentinels DEF Known
<1>2. CASE published[p] # None
  <2>1. published[p] \in Snapshots
    BY <1>2 DEF TypeOK
  <2>2. Built(p, c) = IF published[p].content # c
                        THEN [version |-> published[p].version + 1, content |-> c]
                        ELSE published[p]
    BY <1>2 DEF Built
  <2>3. Built(p, c) \in Snapshots
    BY <2>1, <2>2
  <2>4. Known(Built(p, c), Built(p, c))
    BY <2>3, SnapshotSentinels DEF Known
  <2>5. ASSUME NEW s \in Snapshots, Known(s, published[p]) PROVE Known(s, Built(p, c))
    BY <2>1, <2>2, <2>3, <2>5, SnapshotSentinels DEF Known
  <2> QED BY <2>3, <2>4, <2>5
<1> QED BY <1>1, <1>2

\* After one project a poll asks for the next one, asks for the list or ends.
LEMMA GoOnEffect ==
  ASSUME TypeOK, NEW q \in Polls, NEW s \in [Projects -> Snapshots \cup {None}], GoOn(q, s)
  PROVE  /\ polls' \in [Polls -> Poll] /\ isPolling' \in Polls \cup {None}
         /\ polls'[q].pc \in {"idle", "asking", "listing"}
         /\ \A x \in Polls \ {q} : polls'[x] = polls[x]
<1>0. polls \in [Polls -> Poll] /\ polls[q] \in Poll /\ isPolling \in Polls \cup {None}
  BY DEF TypeOK
<1>1. CASE polls' = [polls EXCEPT ![q] = Listing("listing", {})] /\ UNCHANGED isPolling
  BY <1>0, <1>1 DEF Listing, Poll, Projects
<1>2. ASSUME NEW p \in polls[q].todo,
             polls' = [polls EXCEPT ![q] = Ask(p, polls[q].todo \ {p}, s)], UNCHANGED isPolling
      PROVE  /\ polls' \in [Polls -> Poll] /\ isPolling' \in Polls \cup {None}
             /\ polls'[q].pc \in {"idle", "asking", "listing"}
             /\ \A x \in Polls \ {q} : polls'[x] = polls[x]
  <2>1. p \in Projects /\ polls[q].todo \ {p} \in SUBSET Projects
    BY <1>0 DEF Poll
  <2> QED BY <1>0, <1>2, <2>1, AskType
<1>3. CASE EndPoll(q)
  BY <1>0, <1>3, IdlePollType DEF EndPoll
<1> QED BY <1>1, <1>2, <1>3 DEF GoOn

\* A poll that holds no answer says nothing about snapshots.
Quiet == {"idle", "asking", "listing", "listed"}

LEMMA PollsMove ==
  ASSUME RuntimeInv, UNCHANGED <<control, runtime, disk, spent>>,
         polls' \in [Polls -> Poll], isPolling' \in Polls \cup {None},
         \A q \in Polls : polls'[q] = polls[q] \/ polls'[q].pc \in Quiet
  PROVE  RuntimeInv'
<1>1. TypeOK' /\ CronFollowsMain'
  BY DEF RuntimeInv, TypeOK, CronFollowsMain, control, runtime
<1>2. \A q \in Polls : Answered(polls'[q])
  BY DEF RuntimeInv, Answered, Quiet
<1>3. KnownInv'
  BY DEF RuntimeInv, KnownInv, Quiet, control, runtime
<1> QED BY <1>1, <1>2, <1>3 DEF RuntimeInv, Answered

\* A build makes no snapshot unknown.
LEMMA StillKnown ==
  ASSUME RuntimeInv, UNCHANGED <<snaps, disk>>, spent'.restarts = spent.restarts,
         \A p \in Projects, s \in Snapshots : Known(s, published[p]) => Known(s, published'[p]),
         \A q \in Polls : \/ polls'[q] = polls[q] \/ polls'[q].reply = NotModified
                          \/ Known(polls'[q].reply, published'[polls'[q].project])
  PROVE  KnownInv'
<1> SUFFICES ASSUME spent.restarts = 0 PROVE KnownInv'
  BY DEF KnownInv
<1>0. TypeOK /\ KnownInv /\ \A q \in Polls : Answered(polls[q]) /\ polls[q] \in Poll
  BY DEF RuntimeInv, TypeOK
<1>1. \A p \in Projects : snaps'[p] # None => Known(snaps'[p], published'[p])
  BY <1>0 DEF KnownInv, TypeOK
<1>2. disk' \in Snapshots => Known(disk', published'[Main])
  BY <1>0 DEF KnownInv, Projects
<1>3. ASSUME NEW q \in Polls, polls'[q].pc \in {"replied", "opening", "writing"},
             polls'[q].reply # NotModified
      PROVE  Known(polls'[q].reply, published'[polls'[q].project])
  <2>1. CASE polls'[q] = polls[q]
    <3>1. /\ Known(polls[q].reply, published[polls[q].project])
          /\ polls[q].project \in Projects /\ polls[q].reply \in Snapshots
      BY <1>0, <1>3, <2>1 DEF KnownInv, Answered, Poll
    <3> QED BY <2>1, <3>1
  <2> QED BY <1>3, <2>1
<1> QED BY <1>1, <1>2, <1>3 DEF KnownInv

LEMMA InitRuntimeInv == Init => RuntimeInv
BY RuntimeConstants, SnapshotSentinels, IdlePollType
DEF Init, RuntimeInv, TypeOK, CronFollowsMain, KnownInv, Answered, Projects

LEMMA StepRuntimeInv == RuntimeInv /\ [Next]_vars => RuntimeInv'
<1> SUFFICES ASSUME RuntimeInv, [Next]_vars PROVE RuntimeInv'
  OBVIOUS
<1>0. /\ TypeOK /\ CronFollowsMain /\ KnownInv /\ \A q \in Polls : Answered(polls[q])
      /\ polls \in [Polls -> Poll] /\ isPolling \in Polls \cup {None}
      /\ snaps \in [Projects -> Snapshots \cup {None}]
      /\ published \in [Projects -> Snapshots \cup {None}]
      /\ wanted \in [Projects -> Contents \cup {0}]
      /\ cron \in [Projects -> Contents \cup {0, None}]
      /\ disk \in Snapshots \cup {None, Partial}
      /\ spent \in [changes : 0..MaxChanges, restarts : 0..MaxControlRestarts, crashes : 0..MaxCrashes]
      /\ Main \in Projects
  BY DEF RuntimeInv, TypeOK, Projects
<1>1. ASSUME NEW q \in Polls, StartPoll(q) PROVE RuntimeInv'
  <2>1. Ask(Main, {}, snaps) \in Poll /\ Ask(Main, {}, snaps).pc = "asking"
    BY <1>0, AskType
  <2> QED BY <1>0, <1>1, <2>1, PollsMove DEF StartPoll, Quiet
<1>2. ASSUME NEW q \in Polls, TimeoutPoll(q) PROVE RuntimeInv'
  BY <1>0, <1>2, PollsMove DEF TimeoutPoll
<1>3. ASSUME NEW q \in Polls, FetchFails(q) \/ Ignore(q) \/ OpenRefused(q) PROVE RuntimeInv'
  <2>1. GoOn(q, snaps) /\ UNCHANGED <<control, runtime, disk, spent>>
    BY <1>3 DEF FetchFails, Ignore, OpenRefused
  <2> QED BY <1>0, <2>1, GoOnEffect, PollsMove DEF Quiet
<1>4. ASSUME NEW q \in Polls, ServeList(q) PROVE RuntimeInv'
  <2>1. /\ UNCHANGED <<control, runtime, disk, isPolling, spent>>
        /\ polls' = [polls EXCEPT ![q] = Listing("listed", {p \in Projects : wanted[p] # 0})]
    BY <1>4 DEF ServeList
  <2>2. polls' \in [Polls -> Poll] /\ polls'[q].pc = "listed"
    BY <1>0, <2>1 DEF Listing, Poll
  <2>3. \A x \in Polls \ {q} : polls'[x] = polls[x]
    BY <1>0, <2>1
  <2> QED BY <1>0, <2>1, <2>2, <2>3, PollsMove DEF Quiet
<1>5. ASSUME NEW q \in Polls, ListFails(q) PROVE RuntimeInv'
  BY <1>0, <1>5, IdlePollType, PollsMove DEF ListFails, EndPoll, Quiet
<1>6. ASSUME NEW q \in Polls, Serve(q) PROVE RuntimeInv'
  <2> DEFINE p == polls[q].project
             new == Built(p, wanted[p])
             reply == Reply(new, polls[q].existing)
  <2>1. /\ new.version <= MaxVersion
        /\ published' = [published EXCEPT ![p] = new]
        /\ polls' = [polls EXCEPT ![q] = [pc |-> "replied", project |-> p, todo |-> polls[q].todo,
                                          existing |-> polls[q].existing, reply |-> reply]]
        /\ UNCHANGED <<wanted, runtime, disk, isPolling, spent>>
    BY <1>6 DEF Serve
  <2>2. p \in Projects /\ wanted[p] \in Contents \cup {0}
    BY <1>0 DEF Poll
  <2>3. /\ new \in Snapshots /\ Known(new, new)
        /\ \A s \in Snapshots : Known(s, published[p]) => Known(s, new)
    BY <1>0, <2>1, <2>2, BuiltKnown
  <2>4. reply \in {new, NotModified}
    BY DEF Reply
  <2> HIDE DEF new, reply
  <2>5. /\ polls' \in [Polls -> Poll]
        /\ polls'[q].pc = "replied" /\ polls'[q].reply = reply /\ polls'[q].project = p
        /\ \A x \in Polls \ {q} : polls'[x] = polls[x]
    BY <1>0, <2>1, <2>3, <2>4 DEF Poll
  <2> HIDE DEF p
  <2>6. published' \in [Projects -> Snapshots \cup {None}]
    BY <1>0, <2>1, <2>3
  <2>7. TypeOK' /\ CronFollowsMain'
    BY <1>0, <2>1, <2>5, <2>6 DEF TypeOK, CronFollowsMain, runtime
  <2>8. \A x \in Polls : Answered(polls'[x])
    BY <1>0, <2>3, <2>4, <2>5 DEF Answered
  <2>9. \A r \in Projects, s \in Snapshots : Known(s, published[r]) => Known(s, published'[r])
    BY <1>0, <2>1, <2>2, <2>3
  <2>10. Known(new, published'[p])
    BY <1>0, <2>1, <2>2, <2>3
  <2>11. KnownInv'
    BY <1>0, <2>1, <2>4, <2>5, <2>9, <2>10, StillKnown DEF runtime
  <2> QED BY <2>7, <2>8, <2>11 DEF RuntimeInv, Answered
<1>7. ASSUME NEW p \in Projects, NEW c \in Contents, Deploy(p, c) PROVE RuntimeInv'
  <2> DEFINE new == Built(p, c)
  <2>1. /\ new.version <= MaxVersion /\ spent.changes < MaxChanges
        /\ published' = [published EXCEPT ![p] = new]
        /\ wanted' = [wanted EXCEPT ![p] = c]
        /\ spent' = [spent EXCEPT !.changes = @ + 1]
        /\ UNCHANGED <<runtime, disk, polls, isPolling>>
    BY <1>7 DEF Deploy
  <2>2. new \in Snapshots /\ \A s \in Snapshots : Known(s, published[p]) => Known(s, new)
    BY <1>0, <2>1, BuiltKnown
  <2> HIDE DEF new
  <2>3. \A r \in Projects, s \in Snapshots : Known(s, published[r]) => Known(s, published'[r])
    BY <1>0, <2>1, <2>2
  <2>4. /\ spent' \in [changes : 0..MaxChanges, restarts : 0..MaxControlRestarts, crashes : 0..MaxCrashes]
        /\ spent'.restarts = spent.restarts
    BY <1>0, <2>1, RuntimeConstants
  <2>5. TypeOK' /\ CronFollowsMain'
    BY <1>0, <2>1, <2>2, <2>4 DEF TypeOK, CronFollowsMain, runtime
  <2>6. KnownInv'
    BY <1>0, <2>1, <2>3, <2>4, StillKnown DEF runtime
  <2> QED BY <1>0, <2>1, <2>5, <2>6 DEF RuntimeInv, Answered
<1>8. ASSUME NEW p \in Projects, Undeploy(p) PROVE RuntimeInv'
  <2>1. /\ spent.changes < MaxChanges /\ wanted' = [wanted EXCEPT ![p] = 0]
        /\ spent' = [spent EXCEPT !.changes = @ + 1]
        /\ UNCHANGED <<published, runtime, disk, polls, isPolling>>
    BY <1>8 DEF Undeploy
  <2>2. /\ spent' \in [changes : 0..MaxChanges, restarts : 0..MaxControlRestarts, crashes : 0..MaxCrashes]
        /\ spent'.restarts = spent.restarts
    BY <1>0, <2>1, RuntimeConstants
  <2>3. TypeOK' /\ CronFollowsMain'
    BY <1>0, <2>1, <2>2 DEF TypeOK, CronFollowsMain, runtime
  <2>4. KnownInv'
    BY <1>0, <2>1, <2>2, StillKnown DEF runtime
  <2> QED BY <1>0, <2>1, <2>3, <2>4 DEF RuntimeInv, Answered
<1>9. CASE ControlRestart
  <2>1. /\ published' = [p \in Projects |-> None] /\ spent.restarts < MaxControlRestarts
        /\ spent' = [spent EXCEPT !.restarts = @ + 1]
        /\ UNCHANGED <<wanted, runtime, disk, polls, isPolling>>
    BY <1>9 DEF ControlRestart
  <2>2. /\ spent' \in [changes : 0..MaxChanges, restarts : 0..MaxControlRestarts, crashes : 0..MaxCrashes]
        /\ spent'.restarts # 0
    BY <1>0, <2>1, RuntimeConstants
  <2>3. TypeOK' /\ CronFollowsMain'
    BY <1>0, <2>1, <2>2 DEF TypeOK, CronFollowsMain, runtime
  <2>4. KnownInv'
    BY <2>2 DEF KnownInv
  <2> QED BY <1>0, <2>1, <2>3, <2>4 DEF RuntimeInv, Answered
<1>10. CASE CrashRestart
  <2> DEFINE loaded == IF disk \in Snapshots THEN disk ELSE None
  <2>1. /\ spent.crashes < MaxCrashes
        /\ snaps' = [p \in Projects |-> IF p = Main THEN loaded ELSE None]
        /\ cron' = [p \in Projects |-> IF p = Main /\ loaded # None THEN loaded.content ELSE None]
        /\ polls' = [q \in Polls |-> IdlePoll] /\ isPolling' = None
        /\ spent' = [spent EXCEPT !.crashes = @ + 1]
        /\ UNCHANGED <<control, disk>>
    BY <1>10 DEF CrashRestart
  <2>2. /\ spent' \in [changes : 0..MaxChanges, restarts : 0..MaxControlRestarts, crashes : 0..MaxCrashes]
        /\ spent'.restarts = spent.restarts
    BY <1>0, <2>1, RuntimeConstants
  <2>3. loaded \in Snapshots \cup {None} /\ (loaded # None => loaded = disk /\ disk \in Snapshots)
    OBVIOUS
  <2> HIDE DEF loaded
  <2>4. CronFollowsMain'
    BY <1>0, <2>1 DEF CronFollowsMain
  <2>5. cron' \in [Projects -> Contents \cup {0, None}]
    BY <2>1, <2>3 DEF Snapshots
  <2>6. TypeOK'
    BY <1>0, <2>1, <2>2, <2>3, <2>5, IdlePollType DEF TypeOK, control
  <2>7. KnownInv'
    BY <1>0, <2>1, <2>2, <2>3, IdlePollType DEF KnownInv, control
  <2> QED BY <2>1, <2>4, <2>6, <2>7, IdlePollType DEF RuntimeInv, Answered
<1>11. ASSUME NEW q \in Polls, OpenDisk(q) PROVE RuntimeInv'
  <2>1. /\ polls[q].pc = "opening" /\ disk' = Partial
        /\ polls' = [polls EXCEPT ![q].pc = "writing"]
        /\ UNCHANGED <<control, runtime, isPolling, spent>>
    BY <1>11 DEF OpenDisk
  <2>2. /\ polls' \in [Polls -> Poll]
        /\ polls'[q].pc = "writing" /\ polls'[q].reply = polls[q].reply
        /\ polls'[q].project = polls[q].project
        /\ \A x \in Polls \ {q} : polls'[x] = polls[x]
    BY <1>0, <2>1 DEF Poll
  <2>3. TypeOK' /\ CronFollowsMain'
    BY <1>0, <2>1, <2>2 DEF TypeOK, CronFollowsMain, runtime, control
  <2>4. \A x \in Polls : Answered(polls'[x])
    BY <1>0, <2>1, <2>2 DEF Answered
  <2>5. KnownInv'
    BY <1>0, <2>1, <2>2, SnapshotSentinels DEF KnownInv, runtime, control
  <2> QED BY <2>3, <2>4, <2>5 DEF RuntimeInv, Answered
<1>12. ASSUME NEW q \in Polls, WriteDisk(q) PROVE RuntimeInv'
  <2>1. /\ polls[q].pc = "writing" /\ disk' \in {polls[q].reply, Partial}
        /\ GoOn(q, snaps) /\ UNCHANGED <<control, runtime, spent>>
    BY <1>12 DEF WriteDisk
  <2>2. polls[q].reply \in Snapshots /\ polls[q].project = Main
    BY <1>0, <2>1 DEF Answered
  <2>3. /\ polls' \in [Polls -> Poll] /\ isPolling' \in Polls \cup {None}
        /\ polls'[q].pc \in {"idle", "asking", "listing"}
        /\ \A x \in Polls \ {q} : polls'[x] = polls[x]
    BY <1>0, <2>1, GoOnEffect
  <2>4. TypeOK' /\ CronFollowsMain'
    BY <1>0, <2>1, <2>2, <2>3 DEF TypeOK, CronFollowsMain, runtime, control
  <2>5. \A x \in Polls : Answered(polls'[x])
    BY <1>0, <2>3 DEF Answered
  <2>6. KnownInv'
    BY <1>0, <2>1, <2>2, <2>3, SnapshotSentinels DEF KnownInv, runtime, control
  <2> QED BY <2>4, <2>5, <2>6 DEF RuntimeInv, Answered
<1>13. ASSUME NEW q \in Polls, Accept(q) PROVE RuntimeInv'
  <2> DEFINE p == polls[q].project
             reply == polls[q].reply
  <2>1. /\ polls[q].pc = "replied" /\ reply # NotModified
        /\ snaps' = [snaps EXCEPT ![p] = reply]
        /\ cron' = [cron EXCEPT ![p] = reply.content]
        /\ UNCHANGED <<control, disk, spent>>
    BY <1>13 DEF Accept, Newer
  <2>2. p \in Projects /\ reply \in Snapshots
    BY <1>0, <2>1 DEF Answered, Poll
  <2>3. /\ snaps' \in [Projects -> Snapshots \cup {None}]
        /\ cron' \in [Projects -> Contents \cup {0, None}]
    BY <1>0, <2>1, <2>2 DEF Snapshots
  <2>4. /\ polls' \in [Polls -> Poll] /\ isPolling' \in Polls \cup {None}
        /\ \A x \in Polls \ {q} : polls'[x] = polls[x]
        /\ \/ polls'[q].pc \in Quiet
           \/ polls'[q].pc = "opening" /\ polls'[q].reply = reply /\ polls'[q].project = p /\ p = Main
    <3>1. CASE p = Main
      <4>1. polls' = [polls EXCEPT ![q].pc = "opening"] /\ UNCHANGED isPolling
        BY <1>13, <3>1 DEF Accept
      <4> QED BY <1>0, <3>1, <4>1 DEF Poll
    <3>2. CASE p # Main
      <4>1. GoOn(q, snaps')
        BY <1>13, <3>2 DEF Accept
      <4> QED BY <1>0, <2>3, <4>1, GoOnEffect DEF Quiet
    <3> QED BY <3>1, <3>2
  <2>5. CronFollowsMain'
    BY <1>0, <2>1, <2>2 DEF CronFollowsMain
  <2>6. TypeOK'
    BY <1>0, <2>1, <2>3, <2>4 DEF TypeOK, control
  <2>7. \A x \in Polls : Answered(polls'[x])
    BY <1>0, <2>2, <2>4 DEF Answered, Quiet
  <2>8. KnownInv'
    <3> SUFFICES ASSUME spent.restarts = 0 PROVE KnownInv'
      BY <2>1 DEF KnownInv
    <3>1. Known(reply, published[p])
      BY <1>0, <2>1 DEF KnownInv
    <3>2. \A r \in Projects : snaps'[r] # None => Known(snaps'[r], published'[r])
      BY <1>0, <2>1, <2>2, <3>1 DEF KnownInv, control
    <3>3. \A x \in Polls : polls'[x].pc \in {"replied", "opening", "writing"}
             /\ polls'[x].reply # NotModified => Known(polls'[x].reply, published'[polls'[x].project])
      BY <1>0, <2>1, <2>4, <3>1 DEF KnownInv, control, Quiet
    <3> QED BY <1>0, <2>1, <3>2, <3>3 DEF KnownInv, control
  <2> QED BY <2>5, <2>6, <2>7, <2>8 DEF RuntimeInv, Answered
<1>14. ASSUME NEW q \in Polls, ApplyList(q) PROVE RuntimeInv'
  <2> DEFINE listed == polls[q].todo
             kept == [p \in Projects |-> IF p = Main \/ p \in listed THEN snaps[p] ELSE None]
  <2>1. snaps' = kept /\ UNCHANGED <<control, cron, disk, spent>>
    BY <1>14 DEF ApplyList
  <2>2. /\ kept \in [Projects -> Snapshots \cup {None}] /\ kept[Main] = snaps[Main]
        /\ \A p \in Projects : kept[p] \in {snaps[p], None}
    BY <1>0
  <2> HIDE DEF kept
  <2>3. /\ polls' \in [Polls -> Poll] /\ isPolling' \in Polls \cup {None}
        /\ polls'[q].pc \in Quiet
        /\ \A x \in Polls \ {q} : polls'[x] = polls[x]
    <3>1. CASE EndPoll(q)
      BY <1>0, <3>1, IdlePollType DEF EndPoll, Quiet
    <3>2. CASE (\E p \in listed \ {Main} :
                  polls' = [polls EXCEPT ![q] = Ask(p, listed \ {Main, p}, kept)])
               /\ UNCHANGED isPolling
      <4>1. PICK p \in listed \ {Main} :
              polls' = [polls EXCEPT ![q] = Ask(p, listed \ {Main, p}, kept)]
        BY <3>2
      <4>2. p \in Projects /\ listed \ {Main, p} \in SUBSET Projects
        BY <1>0 DEF Poll
      <4> QED BY <1>0, <2>2, <3>2, <4>1, <4>2, AskType DEF Quiet
    <3> QED BY <1>14, <3>1, <3>2 DEF ApplyList, kept
  <2>4. TypeOK' /\ CronFollowsMain'
    BY <1>0, <2>1, <2>2, <2>3 DEF TypeOK, CronFollowsMain, control
  <2>5. \A x \in Polls : Answered(polls'[x])
    BY <1>0, <2>3 DEF Answered, Quiet
  <2>6. KnownInv'
    BY <1>0, <2>1, <2>2, <2>3 DEF KnownInv, control, Quiet
  <2> QED BY <2>4, <2>5, <2>6 DEF RuntimeInv, Answered
<1>15. CASE UNCHANGED vars
  BY <1>0, <1>15, PollsMove DEF vars
<1> QED
  BY <1>1, <1>2, <1>3, <1>4, <1>5, <1>6, <1>7, <1>8, <1>9, <1>10, <1>11, <1>12, <1>13, <1>14, <1>15
  DEF Next, RuntimeStep, ControlStep

\* Through overlapping polls, lost answers and crashes, what a runtime holds is a
\* whole snapshot, its cron timers are those of the snapshot it routes by, and until
\* the control plane restarts a version number names one content.
THEOREM RuntimeIsSafe == Spec => []RuntimeSafe
<1>1. RuntimeInv => RuntimeSafe
  BY DEF RuntimeInv, RuntimeSafe, KnownInv, Known, VersionNamesContent
<1> QED BY <1>1, InitRuntimeInv, StepRuntimeInv, PTL DEF Spec

\* Fail-static: only a crash of the process takes the own project's snapshot away;
\* an outage, an undeploy or a restart of the control plane does not.
THEOREM RuntimeKeepsServing == Spec => KeepsServing
<1>1. ASSUME RuntimeInv, [Next]_vars, snaps[Main] # None, ~CrashRestart PROVE snaps'[Main] # None
  <2>0. /\ Main \in Projects /\ snaps \in [Projects -> Snapshots \cup {None}]
        /\ \A q \in Polls : Answered(polls[q]) /\ polls[q] \in Poll
    BY <1>1 DEF RuntimeInv, TypeOK, Projects
  <2>1. ASSUME NEW q \in Polls, Accept(q) PROVE snaps'[Main] # None
    <3>1. polls[q].reply \in Snapshots /\ polls[q].project \in Projects
      BY <2>0, <2>1 DEF Accept, Newer, Answered, Poll
    <3> QED BY <1>1, <2>0, <2>1, <3>1, SnapshotSentinels DEF Accept
  <2>2. ASSUME NEW q \in Polls, ApplyList(q) PROVE snaps'[Main] # None
    BY <1>1, <2>0, <2>2 DEF ApplyList
  <2>3. CASE UNCHANGED snaps
    BY <1>1, <2>3
  <2>4. ASSUME NEW q \in Polls,
               \/ StartPoll(q) \/ TimeoutPoll(q) \/ FetchFails(q) \/ Ignore(q) \/ OpenDisk(q)
               \/ OpenRefused(q) \/ WriteDisk(q) \/ ListFails(q) \/ ControlStep(q)
        PROVE  UNCHANGED snaps
    BY <2>4 DEF StartPoll, TimeoutPoll, FetchFails, Ignore, OpenDisk, OpenRefused, WriteDisk,
       ListFails, ControlStep, Serve, ServeList, runtime
  <2>5. ASSUME NEW p \in Projects, Undeploy(p) \/ \E c \in Contents : Deploy(p, c)
        PROVE  UNCHANGED snaps
    BY <2>5 DEF Undeploy, Deploy, runtime
  <2>6. CASE ControlRestart
    BY <2>3, <2>6 DEF ControlRestart, runtime
  <2>7. CASE UNCHANGED vars
    BY <2>3, <2>7 DEF vars, runtime
  <2> QED BY <1>1, <2>1, <2>2, <2>3, <2>4, <2>5, <2>6, <2>7 DEF Next, RuntimeStep
<1>2. RuntimeInv /\ [Next]_vars => [snaps[Main] # None => snaps'[Main] # None \/ CrashRestart]_vars
  BY <1>1
<1> QED BY <1>2, InitRuntimeInv, StepRuntimeInv, PTL DEF Spec, KeepsServing

----------------------------------------------------------------------------
(* API keys: the inductive invariant.                                       *)

\* A key names an earlier key as its maker, and one that was handed out is listed.
KeysInv ==
  \A k \in DOMAIN keys :
    /\ keys[k].by <= Len(keys)
    /\ keys[k].created => keys[k].listed

\* A request carries a key that exists; one that is about to make a key was let
\* in before any key had been handed out, or keeps to the scope of its own key.
RequestOK(q) ==
  /\ q.token <= Len(keys)
  /\ q.pc \in {"cache", "storage", "populate"} => q.token # NoKey
  /\ q.pc = "tokens" =>
       IF q.token = NoKey THEN q.early
       ELSE q.org = keys[q.token].org /\ keys[q.token].project \in {NoProject, q.project}
  /\ q.pc \in {"ids", "orgs"} => q.key \in DOMAIN keys

\* Once a key is marked no verification starts to believe in it: those that did
\* before are the only ones that can put it into the cache again, and while
\* there is one the age of the revocation is not counted.
RevocationOK(k) ==
  revokers[k].pc # "none" =>
    /\ k \in DOMAIN keys /\ keys[k].token = "revoked"
    /\ revokers[k].quiet => ~Verifying(k)
    /\ revokers[k].pc = "done" /\ revokers[k].quiet => authCache[k] = 0
    /\ revokers[k].pc # "done" \/ Verifying(k) => revokers[k].age = 0
    /\ authCache[k] + revokers[k].age <= CacheTtl

ApiKeysInv ==
  /\ ApiKeysTypeOK /\ BootstrapOnce /\ MintedInScope /\ KeysInv
  /\ \A r \in AuthRequests : RequestOK(authReqs[r])
  /\ \A k \in 1..MaxKeys : RevocationOK(k)

LEMMA KeysDomain ==
  ASSUME ApiKeysTypeOK
  PROVE  /\ Len(keys) \in 0..MaxKeys /\ DOMAIN keys = 1..Len(keys)
         /\ \A k \in DOMAIN keys : keys[k] \in Key /\ k \in 1..MaxKeys
BY LenProperties, ElementOfSeq, ApiKeysAssumption DEF ApiKeysTypeOK

LEMMA IdleRequestType ==
  IdleRequest \in Request /\ IdleRequest.pc = "idle" /\ IdleRequest.token = NoKey
BY ApiKeysAssumption DEF IdleRequest, Asking, DefaultOrg, NoKey, Request, Scope

LEMMA InitApiKeys == ApiKeysInit => ApiKeysInv
<1> SUFFICES ASSUME ApiKeysInit PROVE ApiKeysInv
  OBVIOUS
<1>1. keys \in Seq(Key) /\ Len(keys) = 0 /\ DOMAIN keys = {}
  BY EmptySeq DEF ApiKeysInit
<1>2. ApiKeysTypeOK
  BY <1>1, IdleRequestType, ApiKeysAssumption DEF ApiKeysInit, ApiKeysTypeOK, Revocation
<1>3. BootstrapOnce /\ MintedInScope /\ KeysInv
  BY <1>1 DEF BootstrapOnce, MintedInScope, KeysInv
<1>4. \A r \in AuthRequests : RequestOK(authReqs[r])
  BY <1>1, IdleRequestType DEF ApiKeysInit, RequestOK, NoKey
<1>5. \A k \in 1..MaxKeys : RevocationOK(k)
  BY DEF ApiKeysInit, RevocationOK
<1> QED BY <1>2, <1>3, <1>4, <1>5 DEF ApiKeysInv

\* A request goes on, without keys, cache or revocations being touched.
LEMMA RequestMoves ==
  ASSUME ApiKeysInv, NEW r \in AuthRequests, NEW q \in Request,
         authReqs' = [authReqs EXCEPT ![r] = q],
         UNCHANGED <<keys, authCache, revokers>>,
         RequestOK(q),
         q.pc = "populate" => keys[q.token].token = "valid"
  PROVE  ApiKeysInv'
<1>0. authReqs \in [AuthRequests -> Request]
  BY DEF ApiKeysInv, ApiKeysTypeOK
<1>1. authReqs'[r] = q /\ \A x \in AuthRequests \ {r} : authReqs'[x] = authReqs[x]
  BY <1>0
<1>2. ApiKeysTypeOK' /\ BootstrapOnce' /\ MintedInScope' /\ KeysInv'
  BY <1>0 DEF ApiKeysInv, ApiKeysTypeOK, BootstrapOnce, MintedInScope, KeysInv
<1>3. \A x \in AuthRequests : RequestOK(authReqs[x])'
  BY <1>1 DEF ApiKeysInv, RequestOK
<1>4. \A k \in 1..MaxKeys : RevocationOK(k)'
  <2>1. \A k \in 1..MaxKeys : revokers[k].pc # "none" => (Verifying(k)' => Verifying(k))
    BY <1>1 DEF Verifying, ApiKeysInv, RevocationOK
  <2> QED BY <2>1 DEF ApiKeysInv, RevocationOK
<1> QED BY <1>2, <1>3, <1>4 DEF ApiKeysInv

\* The record of one key changes, in its indexes only.
LEMMA KeyChanges ==
  ASSUME ApiKeysInv, NEW k \in DOMAIN keys, NEW e \in Key,
         keys' = [keys EXCEPT ![k] = e],
         e.org = keys[k].org, e.project = keys[k].project, e.by = keys[k].by,
         e.seeded = keys[k].seeded, e.early = keys[k].early, e.created => e.listed
  PROVE  /\ keys' \in Seq(Key) /\ Len(keys') = Len(keys) /\ DOMAIN keys' = DOMAIN keys
         /\ keys'[k] = e /\ \A j \in DOMAIN keys \ {k} : keys'[j] = keys[j]
         /\ BootstrapOnce' /\ MintedInScope' /\ KeysInv'
         /\ \A q \in Request : RequestOK(q) => RequestOK(q)'
<1>0. /\ Len(keys) \in 0..MaxKeys /\ DOMAIN keys = 1..Len(keys) /\ keys \in Seq(Key)
      /\ \A j \in DOMAIN keys : keys[j] \in Key
  BY KeysDomain DEF ApiKeysInv, ApiKeysTypeOK
<1>1. /\ keys' \in Seq(Key) /\ Len(keys') = Len(keys)
      /\ \A j \in DOMAIN keys : keys'[j] = IF j = k THEN e ELSE keys[j]
  BY <1>0, ExceptSeq
<1>2. DOMAIN keys' = DOMAIN keys
  BY <1>0, <1>1, LenProperties
<1>3. \A j \in DOMAIN keys :
        /\ keys'[j].org = keys[j].org /\ keys'[j].project = keys[j].project
        /\ keys'[j].by = keys[j].by /\ keys'[j].early = keys[j].early
        /\ keys'[j].seeded = keys[j].seeded
  BY <1>1
<1>4. BootstrapOnce'
  BY <1>2, <1>3 DEF ApiKeysInv, BootstrapOnce
<1>5. MintedInScope'
  <2>1. \A j \in DOMAIN keys : keys[j].by # NoKey => keys[j].by \in DOMAIN keys
    BY <1>0 DEF ApiKeysInv, KeysInv, Key, NoKey
  <2> QED BY <1>2, <1>3, <2>1 DEF ApiKeysInv, MintedInScope
<1>6. KeysInv'
  BY <1>1, <1>2 DEF ApiKeysInv, KeysInv
<1>7. ASSUME NEW q \in Request, RequestOK(q) PROVE RequestOK(q)'
  <2>1. q.token # NoKey => q.token \in DOMAIN keys
    BY <1>0, <1>7 DEF RequestOK, Request, NoKey
  <2> QED BY <1>1, <1>2, <1>3, <1>7, <2>1 DEF RequestOK
<1> QED BY <1>1, <1>2, <1>4, <1>5, <1>6, <1>7

\* A key is added that came from the environment, was asked for before any key had been
\* handed out, or keeps to the scope of its maker.
LEMMA KeyAdded ==
  ASSUME ApiKeysInv, NEW new \in Key, Len(keys) < MaxKeys, keys' = Append(keys, new),
         new.by <= Len(keys), ~new.created,
         new.by = NoKey => new.seeded \/ new.early,
         new.by # NoKey =>
           new.org = keys[new.by].org /\ keys[new.by].project \in {NoProject, new.project}
  PROVE  /\ keys' \in Seq(Key) /\ Len(keys') = Len(keys) + 1 /\ Len(keys') <= MaxKeys
         /\ DOMAIN keys' = 1..(Len(keys) + 1) /\ \A k \in DOMAIN keys : keys'[k] = keys[k]
         /\ BootstrapOnce' /\ MintedInScope' /\ KeysInv'
         /\ \A q \in Request : RequestOK(q) => RequestOK(q)'
<1> USE ApiKeysAssumption
<1>0. /\ ApiKeysTypeOK /\ KeysInv /\ BootstrapOnce /\ MintedInScope
      /\ Len(keys) \in 0..MaxKeys /\ DOMAIN keys = 1..Len(keys) /\ keys \in Seq(Key)
      /\ \A k \in DOMAIN keys : keys[k] \in Key
  BY KeysDomain DEF ApiKeysInv, ApiKeysTypeOK
<1>1. /\ keys' \in Seq(Key) /\ Len(keys') = Len(keys) + 1
      /\ \A k \in DOMAIN keys : keys'[k] = keys[k]
      /\ keys'[Len(keys) + 1] = new
  BY <1>0, AppendProperties
<1>2. DOMAIN keys' = 1..(Len(keys) + 1)
  BY <1>1, LenProperties
<1>3. BootstrapOnce'
  BY <1>0, <1>1, <1>2 DEF BootstrapOnce
<1>4. KeysInv'
  <2>1. \A k \in DOMAIN keys : keys'[k].by <= Len(keys') /\ (keys'[k].created => keys'[k].listed)
    BY <1>0, <1>1 DEF KeysInv, Key
  <2>2. new.by <= Len(keys') /\ (new.created => new.listed)
    BY <1>0, <1>1 DEF Key
  <2> QED BY <1>0, <1>1, <1>2, <2>1, <2>2 DEF KeysInv
<1>5. MintedInScope'
  <2>1. ASSUME NEW k \in DOMAIN keys', keys'[k].by # NoKey
        PROVE  /\ keys'[k].org = keys'[keys'[k].by].org
               /\ keys'[keys'[k].by].project \in {NoProject, keys'[k].project}
    <3>1. CASE k \in DOMAIN keys
      <4>1. keys'[k] = keys[k] /\ keys[k].by \in DOMAIN keys
        BY <1>0, <1>1, <2>1, <3>1 DEF KeysInv, Key, NoKey
      <4> QED BY <1>0, <1>1, <2>1, <3>1, <4>1 DEF MintedInScope
    <3>2. CASE k = Len(keys) + 1
      <4>1. new.by \in DOMAIN keys /\ new.by # NoKey
        BY <1>0, <1>1, <2>1, <3>2 DEF Key, NoKey
      <4> QED BY <1>0, <1>1, <3>2, <4>1
    <3>3. k \in 1..(Len(keys) + 1)
      BY <1>2, Zenon
    <3>4. k \in 1..Len(keys) \/ k = Len(keys) + 1
      BY <1>0, <3>3
    <3> QED BY <1>0, <3>1, <3>2, <3>4, Zenon
  <2> QED BY <2>1 DEF MintedInScope
<1>6. ASSUME NEW q \in Request, RequestOK(q) PROVE RequestOK(q)'
  <2>1. q.token # NoKey => q.token \in DOMAIN keys
    BY <1>0, <1>6 DEF RequestOK, Request, NoKey
  <2> QED BY <1>0, <1>1, <1>2, <1>6, <2>1 DEF RequestOK, Request
<1> QED BY <1>0, <1>1, <1>2, <1>3, <1>4, <1>5, <1>6

\* Who passes the middleware makes a key, if it does, within its own scope.
LEMMA AuthenticatedOK ==
  ASSUME ApiKeysInv, NEW r \in AuthRequests, authReqs[r].pc \in {"cache", "populate"}
  PROVE  /\ Authenticated(r) \in Request /\ RequestOK(Authenticated(r))
         /\ Authenticated(r).pc \in {"idle", "tokens"}
<1> DEFINE q == authReqs[r]
           caller == keys[q.token]
           minted == MintedProject(caller.project, q.project)
<1>1. q \in Request /\ RequestOK(q) /\ q.token # NoKey
  BY DEF ApiKeysInv, ApiKeysTypeOK, RequestOK
<1>2. q.token \in DOMAIN keys
  BY <1>1, KeysDomain DEF ApiKeysInv, RequestOK, Request, NoKey
<1>3. caller \in Key
  BY <1>2, KeysDomain DEF ApiKeysInv
<1>4. minted \in Scope /\ caller.project \in {NoProject, minted}
  BY <1>1, <1>3 DEF MintedProject, Key, Request, Scope
<1>5. Authenticated(r) \in {IdleRequest, Asking("tokens", q.token, TRUE, caller.org, minted, q.early)}
  BY DEF Authenticated
<1>6. CASE Authenticated(r) = IdleRequest
  BY <1>1, <1>6, IdleRequestType, KeysDomain DEF RequestOK, NoKey, ApiKeysInv
<1>7. CASE Authenticated(r) = Asking("tokens", q.token, TRUE, caller.org, minted, q.early)
  <2> HIDE DEF minted
  <2>1. Authenticated(r) \in Request
    BY <1>1, <1>3, <1>4, <1>7, ApiKeysAssumption DEF Asking, Request, Key, NoKey
  <2>2. RequestOK(Authenticated(r)) /\ Authenticated(r).pc = "tokens"
    BY <1>1, <1>4, <1>7 DEF Asking, RequestOK
  <2> QED BY <2>1, <2>2
<1> QED BY <1>5, <1>6, <1>7

LEMMA StepApiKeys == ApiKeysInv /\ [ApiKeysNext]_apiKeyVars => ApiKeysInv'
<1> SUFFICES ASSUME ApiKeysInv, [ApiKeysNext]_apiKeyVars PROVE ApiKeysInv'
  OBVIOUS
<1>0. /\ ApiKeysTypeOK /\ KeysInv /\ BootstrapOnce /\ MintedInScope
      /\ \A r \in AuthRequests : RequestOK(authReqs[r]) /\ authReqs[r] \in Request
      /\ \A k \in 1..MaxKeys : RevocationOK(k) /\ revokers[k] \in Revocation /\ authCache[k] \in 0..CacheTtl
      /\ authReqs \in [AuthRequests -> Request]
      /\ authCache \in [1..MaxKeys -> 0..CacheTtl] /\ revokers \in [1..MaxKeys -> Revocation]
      /\ Len(keys) \in 0..MaxKeys /\ DOMAIN keys = 1..Len(keys) /\ keys \in Seq(Key)
      /\ \A k \in DOMAIN keys : keys[k] \in Key /\ k \in 1..MaxKeys
  BY KeysDomain DEF ApiKeysInv, ApiKeysTypeOK
<1> USE ApiKeysAssumption
<1>1. ASSUME NEW r \in AuthRequests, NEW t \in 0..Len(keys), NEW o \in Orgs, NEW p \in Scope,
             AskForKey(r, t, o, p)
      PROVE  ApiKeysInv'
  <2> DEFINE q == Asking(IF HasAnyKeys THEN "cache" ELSE "tokens", t, TRUE, o, p, ~HasAnyKeys /\ Early)
  <2>1. /\ authReqs' = [authReqs EXCEPT ![r] = q] /\ UNCHANGED <<keys, authCache, revokers>>
        /\ IF HasAnyKeys THEN t # NoKey ELSE t = NoKey
    BY <1>1 DEF AskForKey
  <2>2. ~HasAnyKeys => Early
    BY <1>0 DEF HasAnyKeys, Early, KeysInv
  <2>3. q \in Request
    BY <1>0 DEF Asking, Request, NoKey
  <2>4. q.pc = (IF HasAnyKeys THEN "cache" ELSE "tokens") /\ q.token = t
    BY DEF Asking
  <2>5. ~HasAnyKeys => q.early
    <3>1. (~HasAnyKeys /\ Early) = q.early
      BY DEF Asking
    <3> QED BY <2>2, <3>1, Zenon
  <2> HIDE DEF q
  <2>6. RequestOK(q) /\ q.pc # "populate"
    BY <1>0, <2>1, <2>4, <2>5 DEF RequestOK
  <2> QED BY <2>1, <2>3, <2>6, RequestMoves
<1>2. ASSUME NEW r \in AuthRequests, NEW t \in 0..Len(keys), AskWithKey(r, t) PROVE ApiKeysInv'
  <2> DEFINE q == Asking("cache", t, FALSE, DefaultOrg, NoProject, FALSE)
  <2>1. /\ authReqs' = [authReqs EXCEPT ![r] = q] /\ UNCHANGED <<keys, authCache, revokers>>
        /\ t # NoKey
    BY <1>2 DEF AskWithKey
  <2>2. q \in Request
    BY <1>0 DEF Asking, Request, NoKey, DefaultOrg, Scope
  <2>3. RequestOK(q) /\ q.pc # "populate"
    BY <1>0, <2>1 DEF Asking, RequestOK
  <2> HIDE DEF q
  <2> QED BY <2>1, <2>2, <2>3, RequestMoves
<1>3. ASSUME NEW r \in AuthRequests, CacheHit(r) PROVE ApiKeysInv'
  BY <1>3, AuthenticatedOK, RequestMoves DEF CacheHit
<1>4. ASSUME NEW r \in AuthRequests, CacheMiss(r) PROVE ApiKeysInv'
  <2> DEFINE q == [authReqs[r] EXCEPT !.pc = "storage"]
  <2>1. /\ authReqs' = [authReqs EXCEPT ![r] = q] /\ UNCHANGED <<keys, authCache, revokers>>
        /\ authReqs[r].pc = "cache"
    BY <1>4 DEF CacheMiss
  <2>2. q \in Request /\ q.pc = "storage" /\ q.token = authReqs[r].token
    BY <1>0 DEF Request
  <2>3. RequestOK(q)
    BY <1>0, <2>1, <2>2 DEF RequestOK
  <2> HIDE DEF q
  <2> QED BY <2>1, <2>2, <2>3, RequestMoves
<1>5. RequestOK(IdleRequest)
  BY <1>0, IdleRequestType DEF RequestOK, NoKey
<1>6. ASSUME NEW r \in AuthRequests, StorageRead(r) PROVE ApiKeysInv'
  <2> DEFINE q == [authReqs[r] EXCEPT !.pc = "populate"]
  <2>1. /\ UNCHANGED <<keys, authCache, revokers>> /\ authReqs[r].pc = "storage"
        /\ \/ authReqs' = [authReqs EXCEPT ![r] = IdleRequest]
           \/ authReqs' = [authReqs EXCEPT ![r] = q] /\ keys[authReqs[r].token].token = "valid"
    BY <1>6 DEF StorageRead
  <2>2. q \in Request /\ q.pc = "populate" /\ q.token = authReqs[r].token
    BY <1>0 DEF Request
  <2>3. RequestOK(q)
    BY <1>0, <2>1, <2>2 DEF RequestOK
  <2> HIDE DEF q
  <2> QED BY <1>5, <2>1, <2>2, <2>3, RequestMoves, IdleRequestType
<1>7. ASSUME NEW r \in AuthRequests, RequestOver(r) PROVE ApiKeysInv'
  BY <1>5, <1>7, RequestMoves, IdleRequestType DEF RequestOver
<1>8. ASSUME NEW r \in AuthRequests, Populate(r) PROVE ApiKeysInv'
  <2> DEFINE t == authReqs[r].token
             q == Authenticated(r)
  <2>1. /\ authReqs[r].pc = "populate" /\ authReqs' = [authReqs EXCEPT ![r] = q]
        /\ authCache' \in {authCache, [authCache EXCEPT ![t] = CacheTtl]}
        /\ UNCHANGED <<keys, revokers>>
    BY <1>8 DEF Populate
  <2>2. q \in Request /\ RequestOK(q) /\ q.pc \in {"idle", "tokens"}
    BY <2>1, AuthenticatedOK
  <2>3. t \in 1..MaxKeys /\ Verifying(t)
    BY <1>0, <2>1 DEF RequestOK, Request, NoKey, Verifying
  <2> HIDE DEF q, t
  <2>4. ApiKeysTypeOK'
    <3>1. CacheTtl \in 0..CacheTtl
      OBVIOUS
    <3>3. authCache' \in [1..MaxKeys -> 0..CacheTtl]
      BY <1>0, <2>1, <2>3, <3>1
    <3>2. authReqs' \in [AuthRequests -> Request]
      BY <1>0, <2>1, <2>2
    <3> QED BY <1>0, <2>1, <3>2, <3>3 DEF ApiKeysTypeOK
  <2>7. BootstrapOnce' /\ MintedInScope' /\ KeysInv'
    BY <1>0, <2>1 DEF BootstrapOnce, MintedInScope, KeysInv
  <2>5. \A x \in AuthRequests : RequestOK(authReqs[x])'
    BY <1>0, <2>1, <2>2 DEF RequestOK
  <2>6. ASSUME NEW k \in 1..MaxKeys PROVE RevocationOK(k)'
    <3>1. Verifying(k)' => Verifying(k)
      BY <1>0, <2>1, <2>2 DEF Verifying
    <3>2. CASE k = t
      <4>1. revokers[k].pc # "none" => ~revokers[k].quiet /\ revokers[k].age = 0
        BY <1>0, <2>3, <3>2 DEF RevocationOK
      <4>2. authCache'[k] \in 0..CacheTtl
        BY <2>4 DEF ApiKeysTypeOK
      <4> QED BY <1>0, <2>1, <3>1, <4>1, <4>2 DEF RevocationOK
    <3>3. CASE k # t
      BY <1>0, <2>1, <3>1, <3>3 DEF RevocationOK
    <3> QED BY <3>2, <3>3
  <2> QED BY <2>4, <2>5, <2>6, <2>7 DEF ApiKeysInv
<1>9. ASSUME NEW r \in AuthRequests, StoreToken(r) PROVE ApiKeysInv'
  <2> DEFINE q == authReqs[r]
             new == [org |-> q.org, project |-> q.project, token |-> "valid", byId |-> FALSE, listed |-> FALSE,
                     by |-> q.token, seeded |-> FALSE, early |-> q.early, created |-> FALSE]
             next == [pc |-> "ids", token |-> q.token, create |-> q.create, org |-> q.org,
                      project |-> q.project, key |-> Len(keys) + 1, early |-> q.early]
  <2>1. /\ q.pc = "tokens" /\ Len(keys) < MaxKeys /\ keys' = Append(keys, new)
        /\ authReqs' = [authReqs EXCEPT ![r] = next] /\ UNCHANGED <<authCache, revokers>>
    BY <1>9 DEF StoreToken
  <2>2. new \in Key
    BY <1>0 DEF Key, Request
  <2>3. next \in Request
    BY <1>0, <2>1 DEF Request
  <2>4. next.pc = "ids" /\ next.key = Len(keys) + 1 /\ next.token = q.token
    BY <1>0 DEF Request
  <2>5. /\ new.by = q.token /\ new.early = q.early /\ new.org = q.org /\ new.project = q.project
        /\ ~new.created
    OBVIOUS
  <2> HIDE DEF new, next
  <2>6. RequestOK(q) /\ q \in Request
    BY <1>0
  <2>7. /\ keys' \in Seq(Key) /\ Len(keys') = Len(keys) + 1 /\ Len(keys') <= MaxKeys
        /\ DOMAIN keys' = 1..(Len(keys) + 1) /\ \A k \in DOMAIN keys : keys'[k] = keys[k]
        /\ BootstrapOnce' /\ MintedInScope' /\ KeysInv'
        /\ \A x \in Request : RequestOK(x) => RequestOK(x)'
    BY <2>1, <2>2, <2>5, <2>6, KeyAdded DEF RequestOK
  <2>8. ApiKeysTypeOK'
    BY <1>0, <2>1, <2>3, <2>7 DEF ApiKeysTypeOK
  <2>9. ASSUME NEW x \in AuthRequests PROVE RequestOK(authReqs[x])'
    <3>1. CASE x = r
      BY <1>0, <2>1, <2>4, <2>6, <2>7, <3>1 DEF RequestOK, Request
    <3>2. CASE x # r
      <4>1. authReqs'[x] = authReqs[x] /\ RequestOK(authReqs[x])' /\ authReqs[x] \in Request
        BY <1>0, <2>1, <2>7, <3>2 DEF RequestOK
      <4> QED BY <4>1
    <3> QED BY <3>1, <3>2
  <2>10. ASSUME NEW k \in 1..MaxKeys PROVE RevocationOK(k)'
    <3>1. Verifying(k)' => Verifying(k)
      BY <1>0, <2>1, <2>4 DEF Verifying
    <3>2. DOMAIN keys \subseteq DOMAIN keys'
      BY <1>0, <2>7
    <3> QED BY <1>0, <2>1, <2>7, <3>1, <3>2 DEF RevocationOK
  <2> QED BY <2>7, <2>8, <2>9, <2>10 DEF ApiKeysInv
<1>10. ASSUME NEW r \in AuthRequests, StoreId(r) \/ StoreListing(r) PROVE ApiKeysInv'
  <2> DEFINE k == authReqs[r].key
             stored == [keys[k] EXCEPT !.byId = TRUE]
             listed == [keys[k] EXCEPT !.listed = TRUE, !.created = TRUE]
             next == [authReqs[r] EXCEPT !.pc = "orgs"]
  <2>1. /\ authReqs[r].pc \in {"ids", "orgs"} /\ UNCHANGED <<authCache, revokers>>
        /\ \/ keys' = [keys EXCEPT ![k] = stored] /\ authReqs' = [authReqs EXCEPT ![r] = next]
           \/ keys' = [keys EXCEPT ![k] = listed] /\ authReqs' = [authReqs EXCEPT ![r] = IdleRequest]
    BY <1>0, <1>10 DEF StoreId, StoreListing, RequestOK
  <2>2. k \in DOMAIN keys /\ keys[k] \in Key
    BY <1>0, <2>1 DEF RequestOK
  <2>3. /\ stored.org = keys[k].org /\ stored.project = keys[k].project /\ stored.by = keys[k].by
        /\ stored.seeded = keys[k].seeded /\ stored.early = keys[k].early /\ stored.created = keys[k].created
        /\ stored.listed = keys[k].listed /\ stored.token = keys[k].token
    BY <2>2 DEF Key
  <2>4. /\ listed.org = keys[k].org /\ listed.project = keys[k].project /\ listed.by = keys[k].by
        /\ listed.seeded = keys[k].seeded /\ listed.early = keys[k].early /\ listed.listed /\ listed.token = keys[k].token
    BY <2>2 DEF Key
  <2>5. stored \in Key
    BY <2>2 DEF Key
  <2>6. listed \in Key
    BY <2>2 DEF Key
  <2>7. PICK e \in Key :
          /\ keys' = [keys EXCEPT ![k] = e] /\ e.org = keys[k].org /\ e.project = keys[k].project
          /\ e.by = keys[k].by /\ e.seeded = keys[k].seeded /\ e.early = keys[k].early /\ e.token = keys[k].token
          /\ e.created => e.listed
    BY <1>0, <2>1, <2>2, <2>3, <2>4, <2>5, <2>6 DEF KeysInv
  <2>8. /\ keys' \in Seq(Key) /\ Len(keys') = Len(keys) /\ DOMAIN keys' = DOMAIN keys
        /\ \A j \in DOMAIN keys : keys'[j].token = keys[j].token
        /\ BootstrapOnce' /\ MintedInScope' /\ KeysInv'
        /\ \A q \in Request : RequestOK(q) => RequestOK(q)'
    BY <2>2, <2>7, KeyChanges
  <2>9. next \in Request /\ next.pc = "orgs" /\ next.token = authReqs[r].token /\ next.key = k
    BY <1>0 DEF Request
  <2>10. RequestOK(next)
    BY <1>0, <2>1, <2>2, <2>9 DEF RequestOK
  <2> HIDE DEF stored, listed, next, k
  <2>11. PICK q \in Request : RequestOK(q) /\ q.pc # "populate" /\ authReqs' = [authReqs EXCEPT ![r] = q]
    BY <1>5, <2>1, <2>9, <2>10, IdleRequestType
  <2>12. ApiKeysTypeOK'
    BY <1>0, <2>1, <2>8, <2>11 DEF ApiKeysTypeOK
  <2>13. \A x \in AuthRequests : RequestOK(authReqs[x])'
    <3>1. \A x \in AuthRequests : authReqs'[x] \in Request /\ RequestOK(authReqs'[x])
      BY <1>0, <2>11
    <3> QED BY <2>8, <3>1 DEF RequestOK
  <2>14. ASSUME NEW j \in 1..MaxKeys PROVE RevocationOK(j)'
    <3>1. Verifying(j)' => Verifying(j)
      BY <1>0, <2>11 DEF Verifying
    <3> QED BY <1>0, <2>1, <2>8, <3>1 DEF RevocationOK
  <2> QED BY <2>8, <2>12, <2>13, <2>14 DEF ApiKeysInv
<1>11. ASSUME NEW k \in 1..MaxKeys, RevokeBegins(k) PROVE ApiKeysInv'
  <2> DEFINE e == [keys[k] EXCEPT !.token = "revoked"]
             rev == [pc |-> "marked", quiet |-> ~Verifying(k), age |-> 0]
  <2>1. /\ k \in DOMAIN keys /\ keys[k].byId /\ revokers[k].pc = "none"
        /\ keys' = [keys EXCEPT ![k] = e] /\ revokers' = [revokers EXCEPT ![k] = rev]
        /\ UNCHANGED <<authCache, authReqs>>
    BY <1>11 DEF RevokeBegins
  <2>2. keys[k] \in Key
    BY <1>0, <2>1
  <2>3. /\ e \in Key /\ e.org = keys[k].org /\ e.project = keys[k].project /\ e.by = keys[k].by
        /\ e.seeded = keys[k].seeded /\ e.early = keys[k].early /\ e.created = keys[k].created /\ e.listed = keys[k].listed
        /\ e.token = "revoked"
    BY <2>2 DEF Key
  <2>4. e.created => e.listed
    BY <1>0, <2>1, <2>3 DEF KeysInv
  <2> HIDE DEF e
  <2>5. /\ keys' \in Seq(Key) /\ Len(keys') = Len(keys) /\ DOMAIN keys' = DOMAIN keys
        /\ keys'[k] = e /\ \A j \in DOMAIN keys \ {k} : keys'[j] = keys[j]
        /\ BootstrapOnce' /\ MintedInScope' /\ KeysInv'
        /\ \A q \in Request : RequestOK(q) => RequestOK(q)'
    BY <2>1, <2>3, <2>4, KeyChanges
  <2>6. rev \in Revocation /\ rev.pc = "marked" /\ rev.age = 0 /\ (rev.quiet => ~Verifying(k))
    <3>1. rev.quiet = ~Verifying(k)
      OBVIOUS
    <3>2. rev.quiet => ~Verifying(k)
      BY <3>1, Zenon
    <3> QED BY <3>2 DEF Revocation
  <2> HIDE DEF rev
  <2>7. ApiKeysTypeOK'
    BY <1>0, <2>1, <2>5, <2>6 DEF ApiKeysTypeOK
  <2>8. \A x \in AuthRequests : RequestOK(authReqs[x])'
    BY <1>0, <2>1, <2>5 DEF RequestOK
  <2>9. ASSUME NEW j \in 1..MaxKeys PROVE RevocationOK(j)'
    <3>1. Verifying(j)' <=> Verifying(j)
      BY <2>1 DEF Verifying
    <3>2. CASE j = k
      BY <1>0, <2>1, <2>3, <2>5, <2>6, <3>1, <3>2 DEF RevocationOK
    <3>3. CASE j # k
      BY <1>0, <2>1, <2>5, <3>1, <3>3 DEF RevocationOK
    <3> QED BY <3>2, <3>3
  <2> QED BY <2>5, <2>7, <2>8, <2>9 DEF ApiKeysInv
<1>12. ASSUME NEW k \in 1..MaxKeys, RevokeListing(k) PROVE ApiKeysInv'
  <2> DEFINE e == [keys[k] EXCEPT !.listed = TRUE]
             rev == [revokers[k] EXCEPT !.pc = "listed"]
  <2>1. /\ revokers[k].pc = "marked"
        /\ keys' = [keys EXCEPT ![k] = e] /\ revokers' = [revokers EXCEPT ![k] = rev]
        /\ UNCHANGED <<authCache, authReqs>>
    BY <1>12 DEF RevokeListing
  <2>2. k \in DOMAIN keys /\ keys[k] \in Key /\ revokers[k] \in Revocation
    BY <1>0, <2>1 DEF RevocationOK
  <2>3. /\ e \in Key /\ e.org = keys[k].org /\ e.project = keys[k].project /\ e.by = keys[k].by
        /\ e.seeded = keys[k].seeded /\ e.early = keys[k].early /\ e.listed /\ e.token = keys[k].token
    BY <2>2 DEF Key
  <2> HIDE DEF e
  <2>4. /\ keys' \in Seq(Key) /\ Len(keys') = Len(keys) /\ DOMAIN keys' = DOMAIN keys
        /\ keys'[k] = e /\ \A j \in DOMAIN keys \ {k} : keys'[j] = keys[j]
        /\ BootstrapOnce' /\ MintedInScope' /\ KeysInv'
        /\ \A q \in Request : RequestOK(q) => RequestOK(q)'
    BY <2>1, <2>2, <2>3, KeyChanges
  <2>5. /\ rev \in Revocation /\ rev.pc = "listed" /\ rev.age = revokers[k].age
        /\ rev.quiet = revokers[k].quiet
    BY <2>2 DEF Revocation
  <2> HIDE DEF rev
  <2>6. ApiKeysTypeOK'
    BY <1>0, <2>1, <2>4, <2>5 DEF ApiKeysTypeOK
  <2>7. \A x \in AuthRequests : RequestOK(authReqs[x])'
    BY <1>0, <2>1, <2>4 DEF RequestOK
  <2>8. ASSUME NEW j \in 1..MaxKeys PROVE RevocationOK(j)'
    <3>1. Verifying(j)' <=> Verifying(j)
      BY <2>1 DEF Verifying
    <3>2. CASE j = k
      BY <1>0, <2>1, <2>3, <2>4, <2>5, <3>1, <3>2 DEF RevocationOK
    <3>3. CASE j # k
      BY <1>0, <2>1, <2>4, <3>1, <3>3 DEF RevocationOK
    <3> QED BY <3>2, <3>3
  <2> QED BY <2>4, <2>6, <2>7, <2>8 DEF ApiKeysInv
<1>13. ASSUME NEW k \in 1..MaxKeys, RevokeEvicts(k) PROVE ApiKeysInv'
  <2>1. PICK evicted \in BOOLEAN :
          /\ authCache' = IF evicted THEN [authCache EXCEPT ![k] = 0] ELSE authCache
          /\ revokers' = [revokers EXCEPT ![k] = [pc |-> "done", quiet |-> revokers[k].quiet /\ evicted,
                                                  age |-> revokers[k].age]]
    BY <1>13 DEF RevokeEvicts
  <2> DEFINE rev == [pc |-> "done", quiet |-> revokers[k].quiet /\ evicted, age |-> revokers[k].age]
  <2>2. revokers[k].pc = "listed" /\ UNCHANGED <<keys, authReqs>> /\ revokers' = [revokers EXCEPT ![k] = rev]
    BY <1>13, <2>1 DEF RevokeEvicts
  <2>3. revokers[k] \in Revocation /\ RevocationOK(k)
    BY <1>0
  <2>4. rev \in Revocation /\ rev.pc = "done" /\ rev.age = revokers[k].age
    BY <2>3 DEF Revocation
  <2>5. rev.quiet => revokers[k].quiet /\ evicted
    <3>1. rev.quiet = (revokers[k].quiet /\ evicted)
      OBVIOUS
    <3> QED BY <3>1, Zenon
  <2> HIDE DEF rev
  <2>6. /\ authCache' \in [1..MaxKeys -> 0..CacheTtl]
        /\ evicted => authCache'[k] = 0
        /\ authCache'[k] <= authCache[k]
        /\ \A j \in (1..MaxKeys) \ {k} : authCache'[j] = authCache[j]
    BY <1>0, <2>1
  <2>7. ApiKeysTypeOK' /\ BootstrapOnce' /\ MintedInScope' /\ KeysInv'
    BY <1>0, <2>2, <2>4, <2>6 DEF ApiKeysTypeOK, BootstrapOnce, MintedInScope, KeysInv
  <2>8. \A x \in AuthRequests : RequestOK(authReqs[x])'
    BY <1>0, <2>2 DEF RequestOK
  <2>9. ASSUME NEW j \in 1..MaxKeys PROVE RevocationOK(j)'
    <3>1. Verifying(j)' <=> Verifying(j)
      BY <2>2 DEF Verifying
    <3>2. CASE j = k
      <4>1. revokers'[k] = rev /\ revokers[k].age = 0
        BY <1>0, <2>2, <2>3 DEF RevocationOK
      <4>2. authCache'[k] + rev.age <= CacheTtl
        BY <2>4, <2>6, <4>1
      <4> QED BY <2>2, <2>3, <2>4, <2>5, <2>6, <3>1, <3>2, <4>1, <4>2 DEF RevocationOK
    <3>3. CASE j # k
      BY <1>0, <2>2, <2>6, <3>1, <3>3 DEF RevocationOK
    <3> QED BY <3>2, <3>3
  <2> QED BY <2>7, <2>8, <2>9 DEF ApiKeysInv
<1>14. CASE CacheTick
  <2> DEFINE age(k) == IF revokers[k].pc # "done" \/ Verifying(k) THEN 0
                       ELSE IF revokers[k].age = CacheTtl THEN CacheTtl ELSE revokers[k].age + 1
  <2>1. /\ authCache' = [k \in 1..MaxKeys |-> IF authCache[k] = 0 THEN 0 ELSE authCache[k] - 1]
        /\ revokers' = [k \in 1..MaxKeys |-> [revokers[k] EXCEPT !.age = age(k)]]
        /\ UNCHANGED <<keys, authReqs>>
    BY <1>14 DEF CacheTick, Aged
  <2>2. ASSUME NEW k \in 1..MaxKeys
        PROVE  /\ revokers'[k] \in Revocation /\ revokers'[k].pc = revokers[k].pc
               /\ revokers'[k].quiet = revokers[k].quiet /\ revokers'[k].age = age(k)
               /\ authCache'[k] \in 0..CacheTtl
    <3>1. age(k) \in 0..CacheTtl
      BY <1>0 DEF Revocation
    <3>2. revokers'[k] = [revokers[k] EXCEPT !.age = age(k)] /\ revokers[k] \in Revocation
      BY <1>0, <2>1
    <3> HIDE DEF age
    <3>3. authCache'[k] \in 0..CacheTtl
      BY <1>0, <2>1
    <3> QED BY <3>1, <3>2, <3>3 DEF Revocation
  <2>3. ApiKeysTypeOK' /\ BootstrapOnce' /\ MintedInScope' /\ KeysInv'
    <3>1. revokers' \in [1..MaxKeys -> Revocation] /\ authCache' \in [1..MaxKeys -> 0..CacheTtl]
      BY <2>1, <2>2
    <3> QED BY <1>0, <2>1, <3>1 DEF ApiKeysTypeOK, BootstrapOnce, MintedInScope, KeysInv
  <2>4. \A x \in AuthRequests : RequestOK(authReqs[x])'
    BY <1>0, <2>1 DEF RequestOK
  <2>5. ASSUME NEW k \in 1..MaxKeys PROVE RevocationOK(k)'
    <3>1. Verifying(k)' <=> Verifying(k)
      BY <2>1 DEF Verifying
    <3>2. RevocationOK(k) /\ revokers[k].age \in 0..CacheTtl /\ authCache[k] \in 0..CacheTtl
      BY <1>0 DEF Revocation
    <3>3. authCache'[k] = IF authCache[k] = 0 THEN 0 ELSE authCache[k] - 1
      BY <2>1
    <3>4. revokers[k].pc # "none" => authCache'[k] + age(k) <= CacheTtl
      BY <3>2, <3>3 DEF RevocationOK
    <3>5. revokers[k].pc # "done" \/ Verifying(k) => age(k) = 0
      OBVIOUS
    <3> HIDE DEF age
    <3> QED BY <2>1, <2>2, <3>1, <3>2, <3>3, <3>4, <3>5 DEF RevocationOK
  <2> QED BY <2>3, <2>4, <2>5 DEF ApiKeysInv
<1>16. CASE SeedKey
  <2> DEFINE new == [org |-> DefaultOrg, project |-> NoProject, token |-> "valid", byId |-> FALSE, listed |-> FALSE,
                     by |-> NoKey, seeded |-> TRUE, early |-> FALSE, created |-> FALSE]
  <2>1. Len(keys) < MaxKeys /\ keys' = Append(keys, new) /\ UNCHANGED <<authCache, authReqs, revokers>>
    BY <1>16 DEF SeedKey
  <2>2. new \in Key
    BY DEF Key, Scope, NoKey, DefaultOrg
  <2>3. new.by = NoKey /\ new.seeded /\ ~new.created
    OBVIOUS
  <2> HIDE DEF new
  <2>4. /\ keys' \in Seq(Key) /\ Len(keys') = Len(keys) + 1 /\ Len(keys') <= MaxKeys
        /\ DOMAIN keys' = 1..(Len(keys) + 1) /\ \A k \in DOMAIN keys : keys'[k] = keys[k]
        /\ BootstrapOnce' /\ MintedInScope' /\ KeysInv'
        /\ \A x \in Request : RequestOK(x) => RequestOK(x)'
    BY <1>0, <2>1, <2>2, <2>3, KeyAdded DEF NoKey
  <2>5. ApiKeysTypeOK'
    BY <1>0, <2>1, <2>4 DEF ApiKeysTypeOK
  <2>6. \A x \in AuthRequests : RequestOK(authReqs[x])'
    BY <1>0, <2>1, <2>4 DEF RequestOK
  <2>7. ASSUME NEW k \in 1..MaxKeys PROVE RevocationOK(k)'
    <3>1. Verifying(k)' <=> Verifying(k)
      BY <2>1 DEF Verifying
    <3>2. DOMAIN keys \subseteq DOMAIN keys'
      BY <1>0, <2>4
    <3> QED BY <1>0, <2>1, <2>4, <3>1, <3>2 DEF RevocationOK
  <2> QED BY <2>4, <2>5, <2>6, <2>7 DEF ApiKeysInv
<1>15. CASE UNCHANGED apiKeyVars
  BY <1>15 DEF apiKeyVars, ApiKeysInv, ApiKeysTypeOK, BootstrapOnce, MintedInScope, KeysInv,
     RequestOK, RevocationOK, Verifying
<1> QED
  BY <1>1, <1>2, <1>3, <1>4, <1>6, <1>7, <1>8, <1>9, <1>10, <1>11, <1>12, <1>13, <1>14, <1>15, <1>16
  DEF ApiKeysNext

\* Requests, revocations, starts with a key in the environment and the cache's clock may
\* interleave in any way: no key is made without credentials by a request that comes after the
\* first key the route handed out (a key of the environment does not count), none has a wider scope than its
\* maker, and a revoked key leaves the cache at once or within its time to live.
THEOREM KeysAreSafe == ApiKeysSpec => []KeysSafe
<1>1. ApiKeysInv => KeysSafe
  BY DEF ApiKeysInv, KeysSafe, RevocationOK, RevokedAtOnce, RevokedInTime
<1> QED BY <1>1, InitApiKeys, StepApiKeys, PTL DEF ApiKeysSpec

----------------------------------------------------------------------------
(* `rail deploy`.                                                           *)

\* Functions are activated in order, only after all of them were scanned, and the
\* command is not a success before it ends.
JobInv ==
  /\ job.pc \in {"config", "package", "validate", "analyse", "capture"} => job.done = {} /\ job.at <= NumFns
  /\ job.pc \in {"config", "validate", "analyse", "capture"} => job.at = 1
  /\ job.pc = "upload" => job.at <= NumFns /\ job.done = 1..(job.at - 1)
  /\ job.pc = "compensate" => job.at <= NumFns /\ job.via = "service"
  /\ job.pc = "verify" => job.done = Indices /\ job.at = NumFns + 1
  /\ job.pc # "end" => ~job.ok

ScannedInv ==
  job.pc \in {"analyse", "capture", "upload", "compensate", "verify"} \/ job.done # {} =>
    \A f \in Indices : package[f].scanned = package[f].read

\* Through the service only functions of this batch serve its revisions, and no
\* revision to go back to is one of them.
ServingInv ==
  job.via = "service" =>
    /\ \A f \in Indices : serving[f] = "ours" => f \in job.done
    /\ \A f \in Indices : job.previous[f] # "ours"
    /\ job.pc = "compensate" =>
         \A f \in 1..(job.at - 1) : job.previous[f] # "none" /\ f \notin job.stuck => serving[f] # "ours"

DeployInv == DeployTypeOK /\ JobInv /\ ScannedInv /\ ServingInv /\ Compensated

JobType == [pc : DeployPcs, via : {"service", "http"}, at : 1..(NumFns + 1), done : SUBSET Indices,
            previous : [Indices -> Owners], stuck : SUBSET Indices, ok : BOOLEAN]

LEMMA InitDeploy == DeployInit => DeployInv
<1> SUFFICES ASSUME DeployInit PROVE DeployInv
  OBVIOUS
<1>1. PICK via \in {"service", "http"} :
        job = [pc |-> "config", via |-> via, at |-> 1, done |-> {}, previous |-> [f \in Indices |-> "none"],
               stuck |-> {}, ok |-> FALSE]
  BY DEF DeployInit
<1>2. job \in JobType
  BY <1>1, DeployAssumption DEF JobType, DeployPcs, Owners
<1>3. /\ job.pc = "config" /\ job.done = {} /\ job.at = 1 /\ ~job.ok
      /\ job.previous = [f \in Indices |-> "none"]
  BY <1>1
<1>4. DeployTypeOK
  BY <1>2, <1>3, DeployAssumption DEF DeployInit, DeployTypeOK, JobType, Owners, Edits
<1>5. JobInv /\ ScannedInv /\ Compensated
  BY <1>3, DeployAssumption DEF JobInv, ScannedInv, Compensated
<1>6. ServingInv
  BY <1>3 DEF DeployInit, ServingInv
<1> QED BY <1>4, <1>5, <1>6 DEF DeployInv

LEMMA StepDeploy == DeployInv /\ [DeployNext]_deployVars => DeployInv'
<1> SUFFICES ASSUME DeployInv, [DeployNext]_deployVars PROVE DeployInv'
  OBVIOUS
<1>0. /\ JobInv /\ ScannedInv /\ ServingInv /\ Compensated /\ DeployTypeOK
      /\ job \in JobType /\ sources \in [Indices -> Edits] /\ others \in 0..MaxOthers
      /\ package \in [Indices -> [read : Edits, scanned : Edits, analysed : Edits]]
      /\ serving \in [Indices -> Owners]
  BY DEF DeployInv, DeployTypeOK, JobType
<1> USE DeployAssumption DEF Indices
<1>1. ASSUME NEW f \in Indices, EditSource(f) PROVE DeployInv'
  <2>0. sources[f] \in Edits /\ sources[f] < MaxEdits
    BY <1>0, <1>1 DEF EditSource
  <2>a. sources[f] + 1 \in Edits
    BY <2>0 DEF Edits
  <2>1. UNCHANGED <<package, serving, others, job>> /\ sources' \in [Indices -> Edits]
    BY <1>0, <1>1, <2>a DEF EditSource
  <2> QED BY <1>0, <2>1 DEF DeployInv, DeployTypeOK, JobInv, ScannedInv, ServingInv, Compensated
<1>2. ASSUME NEW f \in Indices, OtherDeploys(f) PROVE DeployInv'
  <2>1. /\ UNCHANGED <<sources, package, job>> /\ serving' = [serving EXCEPT ![f] = "others"]
        /\ others' \in 0..MaxOthers
    BY <1>0, <1>2 DEF OtherDeploys
  <2>2. serving' \in [Indices -> Owners] /\ \A g \in Indices : serving'[g] = "ours" => serving[g] = "ours"
    BY <1>0, <2>1 DEF Owners
  <2>3. DeployTypeOK' /\ JobInv' /\ ScannedInv'
    BY <1>0, <2>1, <2>2 DEF DeployTypeOK, JobInv, ScannedInv
  <2>4. ServingInv' /\ Compensated'
    BY <1>0, <2>1, <2>2 DEF ServingInv, Compensated, JobType
  <2> QED BY <2>3, <2>4 DEF DeployInv
<1>3. CASE JobFails
  <2>1. /\ job.pc \in {"config", "package", "validate", "analyse", "verify"}
        /\ job' = [job EXCEPT !.pc = "end", !.ok = FALSE]
        /\ UNCHANGED <<sources, package, serving, others>>
    BY <1>3 DEF JobFails
  <2>2. job' \in JobType
    BY <1>0, <2>1 DEF JobType, DeployPcs
  <2>3. /\ job'.pc = "end" /\ ~job'.ok /\ job'.via = job.via /\ job'.at = job.at /\ job'.done = job.done
        /\ job'.previous = job.previous /\ job'.stuck = job.stuck
    BY <1>0, <2>1 DEF JobType
  <2>4. DeployTypeOK' /\ JobInv' /\ ScannedInv'
    BY <1>0, <2>1, <2>2, <2>3 DEF DeployTypeOK, JobInv, ScannedInv, JobType
  <2>5. ServingInv' /\ Compensated'
    BY <1>0, <2>1, <2>3 DEF ServingInv, Compensated, JobInv
  <2> QED BY <2>4, <2>5 DEF DeployInv
<1>4. CASE ReadConfig
  <2>1. /\ job.pc = "config" /\ job' = [job EXCEPT !.pc = "package"]
        /\ UNCHANGED <<sources, package, serving, others>>
    BY <1>4 DEF ReadConfig
  <2>2. job' \in JobType
    BY <1>0, <2>1 DEF JobType, DeployPcs
  <2>3. /\ job'.pc = "package" /\ job'.ok = job.ok /\ job'.via = job.via /\ job'.at = job.at
        /\ job'.done = job.done /\ job'.previous = job.previous
    BY <1>0, <2>1 DEF JobType
  <2>4. DeployTypeOK' /\ JobInv' /\ ScannedInv'
    BY <1>0, <2>1, <2>2, <2>3 DEF DeployTypeOK, JobInv, ScannedInv, JobType
  <2>5. ServingInv' /\ Compensated'
    BY <1>0, <2>1, <2>3 DEF ServingInv, Compensated, JobInv
  <2> QED BY <2>4, <2>5 DEF DeployInv
<1>5. CASE PackageFn
  <2>1. /\ job.pc = "package" /\ job' = NextFn("validate") /\ UNCHANGED <<sources, serving, others>>
        /\ package' = [package EXCEPT ![job.at].read = sources[job.at]]
    BY <1>5 DEF PackageFn
  <2>a. job.at \in Indices /\ job.done = {} /\ ~job.ok
    BY <1>0, <2>1 DEF JobInv, JobType
  <2>2. package' \in [Indices -> [read : Edits, scanned : Edits, analysed : Edits]]
    BY <1>0, <2>1, <2>a
  <2>b. 1 \in 1..(NumFns + 1) /\ (job.at < NumFns => job.at + 1 \in 1..(NumFns + 1))
    BY <1>0 DEF JobType
  <2>c. [job EXCEPT !.pc = "validate", !.at = 1] \in JobType
    BY <1>0, <2>b DEF JobType, DeployPcs
  <2>d. job.at < NumFns => [job EXCEPT !.at = @ + 1] \in JobType
    BY <1>0, <2>b DEF JobType
  <2>3. job' \in JobType
    BY <2>1, <2>c, <2>d DEF NextFn
  <2>4. /\ job'.pc \in {"package", "validate"} /\ ~job'.ok /\ job'.via = job.via /\ job'.at <= NumFns
        /\ job'.done = {} /\ job'.previous = job.previous /\ (job'.pc = "validate" => job'.at = 1)
    BY <1>0, <2>1, <2>a DEF JobType, NextFn
  <2>5. DeployTypeOK' /\ JobInv' /\ ScannedInv'
    BY <1>0, <2>1, <2>2, <2>3, <2>4 DEF DeployTypeOK, JobInv, ScannedInv, JobType
  <2>6. ServingInv' /\ Compensated'
    BY <1>0, <2>1, <2>a, <2>4 DEF ServingInv, Compensated
  <2> QED BY <2>5, <2>6 DEF DeployInv
<1>6. CASE ValidateAll
  <2>1. /\ job.pc = "validate" /\ job' = [job EXCEPT !.pc = "analyse"] /\ UNCHANGED <<sources, serving, others>>
        /\ package' = [f \in Indices |-> [package[f] EXCEPT !.scanned = package[f].read]]
    BY <1>6 DEF ValidateAll, ScannedVersion
  <2>2. /\ package' \in [Indices -> [read : Edits, scanned : Edits, analysed : Edits]]
        /\ \A f \in Indices : package'[f].scanned = package'[f].read
    BY <1>0, <2>1
  <2>3. job' \in JobType
    BY <1>0, <2>1 DEF JobType, DeployPcs
  <2>4. /\ job'.pc = "analyse" /\ job'.ok = job.ok /\ job'.via = job.via /\ job'.at = job.at
        /\ job'.done = job.done /\ job'.previous = job.previous
    BY <1>0, <2>1 DEF JobType
  <2>5. DeployTypeOK' /\ JobInv' /\ ScannedInv'
    BY <1>0, <2>1, <2>2, <2>3, <2>4 DEF DeployTypeOK, JobInv, ScannedInv, JobType
  <2>6. ServingInv' /\ Compensated'
    BY <1>0, <2>1, <2>4 DEF ServingInv, Compensated
  <2> QED BY <2>5, <2>6 DEF DeployInv
<1>7. ASSUME NEW dryRun \in BOOLEAN, Analyse(dryRun) PROVE DeployInv'
  <2>1. /\ job.pc = "analyse" /\ UNCHANGED <<sources, serving, others>>
        /\ job' = [job EXCEPT !.pc = IF dryRun THEN "end" ELSE "capture", !.ok = dryRun]
        /\ package' = [f \in Indices |-> [package[f] EXCEPT !.analysed = sources[f]]]
    BY <1>7 DEF Analyse
  <2>2. /\ package' \in [Indices -> [read : Edits, scanned : Edits, analysed : Edits]]
        /\ \A f \in Indices : package'[f].scanned = package[f].scanned /\ package'[f].read = package[f].read
    BY <1>0, <2>1
  <2>3. job' \in JobType
    BY <1>0, <2>1 DEF JobType, DeployPcs
  <2>4. /\ job'.pc = (IF dryRun THEN "end" ELSE "capture") /\ job'.via = job.via /\ job'.at = job.at
        /\ job'.done = job.done /\ job'.previous = job.previous /\ job'.done = {} /\ job'.at <= NumFns
    BY <1>0, <2>1 DEF JobType, JobInv
  <2>b. job'.ok = dryRun
    BY <1>0, <2>1 DEF JobType
  <2>c. job'.pc # "end" => ~job'.ok
    BY <2>4, <2>b
  <2>5. DeployTypeOK'
    BY <1>0, <2>1, <2>2, <2>3, <2>4 DEF DeployTypeOK, JobType
  <2>d. JobInv' /\ ScannedInv'
    BY <1>0, <2>1, <2>2, <2>4, <2>c DEF JobInv, ScannedInv
  <2>6. ServingInv' /\ Compensated'
    BY <1>0, <2>1, <2>4 DEF ServingInv, Compensated
  <2> QED BY <2>5, <2>d, <2>6 DEF DeployInv
<1>8. CASE CapturePrevious
  <2>1. /\ job.pc = "capture" /\ UNCHANGED <<sources, package, serving, others>>
        /\ job' = [job EXCEPT !.pc = "upload", !.previous = IF job.via = "service" THEN serving ELSE @]
    BY <1>8 DEF CapturePrevious
  <2>2. job' \in JobType
    BY <1>0, <2>1 DEF JobType, DeployPcs
  <2>3. /\ job'.pc = "upload" /\ job'.ok = job.ok /\ job'.via = job.via /\ job'.at = job.at
        /\ job'.done = job.done /\ (job.via = "service" => job'.previous = serving)
    BY <1>0, <2>1 DEF JobType
  <2>a. job.done = {} /\ job.at <= NumFns
    BY <1>0, <2>1 DEF JobInv
  <2>4. DeployTypeOK' /\ ScannedInv'
    BY <1>0, <2>1, <2>2, <2>3 DEF DeployTypeOK, ScannedInv, JobType
  <2>b. job.at = 1
    BY <1>0, <2>1 DEF JobInv
  <2>c. job'.done = 1..(job'.at - 1) /\ job'.at <= NumFns
    BY <2>3, <2>a, <2>b
  <2>5. JobInv'
    BY <1>0, <2>1, <2>3, <2>c DEF JobInv
  <2>6. ServingInv' /\ Compensated'
    BY <1>0, <2>1, <2>3, <2>a DEF ServingInv, Compensated
  <2> QED BY <2>4, <2>5, <2>6 DEF DeployInv
<1>9. CASE ActivateNext
  <2>1. /\ job.pc = "upload" /\ UNCHANGED <<sources, package, others>>
        /\ serving' = [serving EXCEPT ![job.at] = "ours"]
        /\ job' = [job EXCEPT !.done = @ \cup {job.at}, !.at = @ + 1,
                              !.pc = IF job.at = NumFns THEN "verify" ELSE "upload"]
    BY <1>9 DEF ActivateNext
  <2>a. job.at \in Indices /\ job.done = 1..(job.at - 1) /\ job.done \subseteq Indices /\ ~job.ok
    BY <1>0, <2>1 DEF JobInv, JobType
  <2>2. /\ job'.pc = (IF job.at = NumFns THEN "verify" ELSE "upload") /\ job'.ok = job.ok /\ job'.via = job.via
        /\ job'.at = job.at + 1 /\ job'.done = job.done \cup {job.at} /\ job'.previous = job.previous
        /\ job'.stuck = job.stuck
    BY <1>0, <2>1 DEF JobType
  <2>b. job.at + 1 \in 1..(NumFns + 1) /\ job.done \cup {job.at} \in SUBSET Indices
    BY <2>a
  <2>3. job' \in JobType
    BY <1>0, <2>1, <2>b DEF JobType, DeployPcs
  <2>4. /\ serving' \in [Indices -> Owners]
        /\ \A f \in Indices : serving'[f] = "ours" => serving[f] = "ours" \/ f = job.at
    BY <1>0, <2>1, <2>a DEF Owners
  <2>c. job'.done = 1..(job'.at - 1)
    BY <2>a, <2>2
  <2>5. DeployTypeOK' /\ ScannedInv'
    BY <1>0, <2>1, <2>2, <2>3, <2>4 DEF DeployTypeOK, ScannedInv, JobType
  <2>6. JobInv'
    BY <2>a, <2>2, <2>c DEF JobInv
  <2>7. ServingInv' /\ Compensated'
    BY <1>0, <2>1, <2>2, <2>4 DEF ServingInv, Compensated
  <2> QED BY <2>5, <2>6, <2>7 DEF DeployInv
<1>10. ASSUME NEW lost \in BOOLEAN, UploadFails(lost) PROVE DeployInv'
  <2>1. /\ job.pc = "upload" /\ job.via = "http" /\ job' = [job EXCEPT !.pc = "end", !.ok = FALSE]
        /\ serving' = IF lost THEN [serving EXCEPT ![job.at] = "ours"] ELSE serving
        /\ UNCHANGED <<sources, package, others>>
    BY <1>10 DEF UploadFails
  <2>2. job' \in JobType
    BY <1>0, <2>1 DEF JobType, DeployPcs
  <2>3. job'.pc = "end" /\ ~job'.ok /\ job'.via = "http" /\ job'.done = job.done
    BY <1>0, <2>1 DEF JobType
  <2>4. serving' \in [Indices -> Owners]
    BY <1>0, <2>1 DEF Owners
  <2>5. DeployTypeOK' /\ JobInv' /\ ScannedInv'
    BY <1>0, <2>1, <2>2, <2>3, <2>4 DEF DeployTypeOK, JobInv, ScannedInv, JobType
  <2>6. ServingInv' /\ Compensated'
    BY <2>3 DEF ServingInv, Compensated
  <2> QED BY <2>5, <2>6 DEF DeployInv
<1>11. CASE BatchFails
  <2>1. /\ job.pc = "upload" /\ job.via = "service" /\ job' = [job EXCEPT !.pc = "compensate", !.at = 1]
        /\ UNCHANGED <<sources, package, serving, others>>
    BY <1>11 DEF BatchFails
  <2>a. 1 \in 1..(NumFns + 1)
    OBVIOUS
  <2>2. job' \in JobType
    BY <1>0, <2>1, <2>a DEF JobType, DeployPcs
  <2>3. /\ job'.pc = "compensate" /\ job'.ok = job.ok /\ job'.via = job.via /\ job'.at = 1
        /\ job'.done = job.done /\ job'.previous = job.previous
    BY <1>0, <2>1 DEF JobType
  <2>4. DeployTypeOK' /\ JobInv' /\ ScannedInv'
    BY <1>0, <2>1, <2>2, <2>3 DEF DeployTypeOK, JobInv, ScannedInv, JobType
  <2>5. ServingInv' /\ Compensated'
    BY <1>0, <2>1, <2>3 DEF ServingInv, Compensated
  <2> QED BY <2>4, <2>5 DEF DeployInv
<1>12. ASSUME NEW ok \in BOOLEAN, Compensate(ok) PROVE DeployInv'
  <2> DEFINE f == job.at
  <2>1. /\ job.pc = "compensate" /\ UNCHANGED <<sources, package, others>>
        /\ serving' = IF ToRollBack(f) /\ ok THEN [serving EXCEPT ![f] = job.previous[f]] ELSE serving
        /\ job' = [job EXCEPT !.stuck = IF ToRollBack(f) /\ ~ok THEN @ \cup {f} ELSE @,
                              !.at = IF f < NumFns THEN f + 1 ELSE f, !.pc = IF f = NumFns THEN "end" ELSE @]
    BY <1>12 DEF Compensate
  <2>a. f \in Indices /\ job.via = "service" /\ ~job.ok
    BY <1>0, <2>1 DEF JobInv, JobType
  <2>2. /\ job'.pc = (IF f = NumFns THEN "end" ELSE "compensate") /\ job'.ok = job.ok /\ job'.via = "service"
        /\ job'.at = (IF f < NumFns THEN f + 1 ELSE f) /\ job'.done = job.done /\ job'.previous = job.previous
        /\ job'.stuck = (IF ToRollBack(f) /\ ~ok THEN job.stuck \cup {f} ELSE job.stuck)
    BY <1>0, <2>1, <2>a DEF JobType
  <2>b. job'.at \in 1..(NumFns + 1) /\ job'.at <= NumFns /\ job'.stuck \in SUBSET Indices
    BY <1>0, <2>a, <2>2 DEF JobType
  <2>3. job' \in JobType
    BY <1>0, <2>1, <2>2, <2>b DEF JobType, DeployPcs
  <2>4. serving' \in [Indices -> Owners]
    BY <1>0, <2>1, <2>a DEF JobType
  <2>c. \A g \in Indices : job.previous[g] # "ours" /\ (serving'[g] = "ours" => serving[g] = "ours")
    BY <1>0, <2>1, <2>a DEF ServingInv, JobType
  <2>d. \A g \in 1..(f - 1) : job.previous[g] # "none" /\ g \notin job'.stuck => serving'[g] # "ours"
    BY <1>0, <2>1, <2>a, <2>2, <2>c DEF ServingInv
  <2>e. job.previous[f] # "none" /\ f \notin job'.stuck => serving'[f] # "ours"
    BY <1>0, <2>1, <2>a, <2>2, <2>c DEF ServingInv, ToRollBack
  <2>f. \A g \in 1..f : job.previous[g] # "none" /\ g \notin job'.stuck => serving'[g] # "ours"
    BY <2>a, <2>d, <2>e
  <2>5. DeployTypeOK' /\ JobInv' /\ ScannedInv'
    BY <1>0, <2>1, <2>a, <2>2, <2>b, <2>3, <2>4 DEF DeployTypeOK, JobInv, ScannedInv, JobType
  <2>6. ServingInv'
    BY <1>0, <2>a, <2>2, <2>c, <2>f DEF ServingInv
  <2>7. Compensated'
    BY <2>a, <2>2, <2>f DEF Compensated
  <2> QED BY <2>5, <2>6, <2>7 DEF DeployInv
<1>13. CASE VerifyDeploy
  <2>1. /\ job.pc = "verify" /\ job' = [job EXCEPT !.pc = "end", !.ok = TRUE]
        /\ UNCHANGED <<sources, package, serving, others>>
    BY <1>13 DEF VerifyDeploy
  <2>2. job' \in JobType
    BY <1>0, <2>1 DEF JobType, DeployPcs
  <2>3. /\ job'.pc = "end" /\ job'.via = job.via /\ job'.at = job.at /\ job'.done = job.done
        /\ job'.previous = job.previous /\ job.done = Indices /\ job.at = NumFns + 1
    BY <1>0, <2>1 DEF JobType, JobInv
  <2>4. DeployTypeOK' /\ JobInv' /\ ScannedInv'
    BY <1>0, <2>1, <2>2, <2>3 DEF DeployTypeOK, JobInv, ScannedInv, JobType
  <2>5. ServingInv' /\ Compensated'
    BY <1>0, <2>1, <2>3 DEF ServingInv, Compensated
  <2> QED BY <2>4, <2>5 DEF DeployInv
<1>14. CASE UNCHANGED deployVars
  BY <1>0, <1>14 DEF deployVars, DeployInv, DeployTypeOK, JobInv, ScannedInv, ServingInv, Compensated
<1> QED
  BY <1>1, <1>2, <1>3, <1>4, <1>5, <1>6, <1>7, <1>8, <1>9, <1>10, <1>11, <1>12, <1>13, <1>14 DEF DeployNext

\* What `rail deploy` promises.
LEMMA DeploySafeLemma == DeploySpec => [](DeployTypeOK /\ Compensated /\ UploadedScanned)
<1>1. DeployInv => DeployTypeOK /\ Compensated /\ UploadedScanned
  BY DEF DeployInv, UploadedScanned, ScannedInv, DeployTypeOK
<1> QED BY InitDeploy, StepDeploy, <1>1, PTL DEF DeploySpec

----------------------------------------------------------------------------
(* Installing and upgrading `rail`.                                         *)

InstallType == [pc : InstallPcs, from : Sources, force : BOOLEAN, compile : BOOLEAN, said : Says,
                commit : Commits \cup {NoCommit}, config : Commits \cup {NoCommit, LocalTree}]
BinType == [launcher : Commits \cup {NoCommit, LocalTree}, config : Commits \cup {NoCommit, LocalTree},
            commit : Commits \cup {NoCommit}, ref : Sources, recorded : BOOLEAN, temp : BOOLEAN]

\* The command speaks at its end only, and a working copy has no commit.
SaysInv ==
  /\ install.pc \notin {"idle", "cleanup"} => install.said = "nothing"
  /\ install.pc = "cleanup" => install.said \in {"installed", "failed"}
  /\ install.pc # "idle" /\ install.from = "local" => install.commit = NoCommit
  /\ install.from = "local" => install.pc \notin {"check", "version", "resolve", "fetch"}

\* Every download since the commit was resolved is of that commit.
FetchedInv ==
  /\ install.pc = "deno" =>
       install.from = "local" \/ install.commit = NoCommit \/ install.config = install.commit
  /\ install.pc \in {"persist", "run", "record"} \/ install.said = "installed" =>
       \/ install.from = "local" \/ install.commit = NoCommit
       \/ bin.launcher = install.commit /\ install.config = install.commit

\* What the record says, where it is newer than the launcher, is true.
RecordInv == bin.recorded /\ bin.commit # NoCommit => bin.launcher = bin.commit

InstallInv == InstallTypeOK /\ SaysInv /\ FetchedInv /\ RecordInv /\ UpToDateTrue

LEMMA InitInstall == InstallInit => InstallInv
<1> SUFFICES ASSUME InstallInit PROVE InstallInv
  OBVIOUS
<1>1. install \in InstallType /\ bin \in BinType /\ head \in Commits
  BY InstallAssumption DEF InstallInit, InstallType, BinType, InstallPcs, Sources, Says, Commits
<1>2. install.pc = "idle" /\ install.said = "nothing" /\ ~bin.recorded
  BY DEF InstallInit
<1> QED
  BY <1>1, <1>2 DEF InstallInv, InstallTypeOK, SaysInv, FetchedInv, RecordInv, UpToDateTrue, InstallType, BinType

LEMMA StepInstall == InstallInv /\ [InstallNext]_installVars => InstallInv'
<1> SUFFICES ASSUME InstallInv, [InstallNext]_installVars PROVE InstallInv'
  OBVIOUS
<1>0. /\ SaysInv /\ FetchedInv /\ RecordInv /\ UpToDateTrue
      /\ install \in InstallType /\ bin \in BinType /\ head \in Commits
      /\ (install.pc \in {"persist", "run", "record"} => bin.launcher # NoCommit)
  BY DEF InstallInv, InstallTypeOK, InstallType, BinType
<1>a. /\ install.from \in Sources /\ install.commit \in Commits \cup {NoCommit}
      /\ install.config \in Commits \cup {NoCommit, LocalTree} /\ install.said \in Says
      /\ bin.launcher \in Commits \cup {NoCommit, LocalTree} /\ bin.commit \in Commits \cup {NoCommit}
      /\ NoCommit \notin Commits /\ NoCommit # LocalTree /\ 0 \in Commits /\ MaxPushes \in Nat
      /\ Named(install.from) \in Commits /\ Pinned \in Commits
  BY <1>0, InstallAssumption DEF InstallType, BinType, Commits, Named, Pinned
<1>b. ASSUME UNCHANGED <<install, bin>>, head' \in Commits PROVE InstallInv'
  <2>1. InstallTypeOK'
    BY <1>0, <1>b DEF InstallTypeOK, InstallType, BinType
  <2>2. install' = install /\ bin' = bin
    BY <1>b
  <2>3. SaysInv' /\ FetchedInv' /\ RecordInv' /\ UpToDateTrue'
    BY <1>0, <2>2, Zenon DEF SaysInv, FetchedInv, RecordInv, UpToDateTrue
  <2> QED BY <2>1, <2>3 DEF InstallInv
<1>1. CASE Push
  <2>1. UNCHANGED <<install, bin>> /\ head' \in Commits
    BY <1>0, <1>1, <1>a DEF Push, Commits
  <2> QED BY <1>b, <2>1
<1>2. ASSUME NEW pc \in {"deno", "check", "version", "resolve"}, NEW from \in Sources, NEW force \in BOOLEAN,
             NEW compile \in BOOLEAN, Starts(pc, from, force, compile), UNCHANGED <<head, bin>>,
             pc = "deno" <=> from = "local"
      PROVE InstallInv'
  <2>1. install' \in InstallType
    BY <1>2, <1>a DEF Starts, InstallType, InstallPcs, Says
  <2>2. /\ install'.pc = pc /\ install'.said = "nothing" /\ install'.commit = NoCommit /\ install'.from = from
    BY <1>2 DEF Starts
  <2> QED
    BY <1>0, <1>2, <2>1, <2>2
    DEF InstallInv, InstallTypeOK, SaysInv, FetchedInv, RecordInv, UpToDateTrue, InstallType, BinType
<1>3. ASSUME NEW from \in Sources, NEW force \in BOOLEAN, NEW compile \in BOOLEAN,
             BeginUpgrade(from, force, compile)
      PROVE InstallInv'
  BY <1>2, <1>3 DEF BeginUpgrade, Sources
<1>4. ASSUME NEW from \in Sources, NEW compile \in BOOLEAN, BeginInstall(from, compile) PROVE InstallInv'
  BY <1>2, <1>4 DEF BeginInstall, Sources
<1>5. CASE InstallKilled
  <2>1. install' = [install EXCEPT !.pc = "idle", !.said = "nothing"] /\ UNCHANGED <<head, bin>>
    BY <1>5 DEF InstallKilled, Ends
  <2>2. install' \in InstallType /\ install'.pc = "idle" /\ install'.said = "nothing"
    BY <1>0, <2>1 DEF InstallType, InstallPcs, Says
  <2> QED
    BY <1>0, <2>1, <2>2
    DEF InstallInv, InstallTypeOK, SaysInv, FetchedInv, RecordInv, UpToDateTrue, InstallType, BinType
<1>6. ASSUME NEW resolved \in BOOLEAN, NEW sameVersion \in BOOLEAN, CheckOnly(resolved, sameVersion)
      PROVE InstallInv'
  <2> DEFINE known == resolved /\ bin.commit # NoCommit /\ bin.ref = "main"
             commit == IF known THEN head ELSE NoCommit
             said == IF ~sameVersion \/ (known /\ bin.commit # head) THEN "nothing"
                     ELSE IF known THEN "up to date" ELSE "same version"
  <2>1. /\ install.pc = "idle" /\ UNCHANGED <<head, bin>>
        /\ install' = [install EXCEPT !.from = "main", !.commit = commit, !.said = said]
    BY <1>6, Zenon DEF CheckOnly
  <2>2. commit \in Commits \cup {NoCommit} /\ said \in {"nothing", "up to date", "same version"}
    BY <1>0
  <2>3. said = "up to date" => commit = bin.commit /\ bin.commit # NoCommit
    OBVIOUS
  <2> HIDE DEF known, commit, said
  <2>4. /\ install' \in InstallType /\ install'.pc = "idle" /\ install'.said = said /\ install'.commit = commit
    BY <1>0, <2>1, <2>2 DEF InstallType, Says, Sources
  <2> QED
    BY <1>0, <2>1, <2>2, <2>3, <2>4
    DEF InstallInv, InstallTypeOK, SaysInv, FetchedInv, RecordInv, UpToDateTrue, InstallType, BinType
<1>7. ASSUME NEW resolved \in BOOLEAN, CheckCommit(resolved) PROVE InstallInv'
  <2> DEFINE commit == LatestCommit(resolved)
             same == ~install.force /\ resolved /\ bin.commit = commit
             said == IF same THEN "up to date" ELSE "nothing"
             pc == IF same THEN "idle" ELSE IF ~resolved /\ ~install.force THEN "version" ELSE "resolve"
  <2>1. /\ install.pc = "check" /\ UNCHANGED <<head, bin>>
        /\ install' = [install EXCEPT !.commit = commit, !.said = said, !.pc = pc]
    BY <1>7, Zenon DEF CheckCommit
  <2>2. /\ commit \in Commits \cup {NoCommit} /\ said \in {"nothing", "up to date"}
        /\ pc \in {"idle", "version", "resolve"} /\ (pc # "idle" => said = "nothing")
        /\ (said = "up to date" => commit = bin.commit /\ bin.commit # NoCommit)
    BY <1>0, <1>a DEF LatestCommit
  <2>a. install.from # "local"
    BY <1>0, <2>1 DEF SaysInv
  <2> HIDE DEF commit, same, said, pc
  <2>3. /\ install' \in InstallType /\ install'.pc = pc /\ install'.said = said /\ install'.commit = commit
        /\ install'.from = install.from
    BY <1>0, <2>1, <2>2 DEF InstallType, Says, InstallPcs
  <2> QED
    BY <1>0, <2>1, <2>2, <2>a, <2>3
    DEF InstallInv, InstallTypeOK, SaysInv, FetchedInv, RecordInv, UpToDateTrue, InstallType, BinType
<1>8. ASSUME NEW same \in BOOLEAN, CheckVersion(same) PROVE InstallInv'
  <2>1. /\ install.pc = "version" /\ UNCHANGED <<head, bin>>
        /\ install' = IF same THEN [install EXCEPT !.pc = "idle", !.said = "same version"]
                      ELSE [install EXCEPT !.pc = "resolve"]
    BY <1>8 DEF CheckVersion, Ends, Step
  <2>2. install' \in InstallType
    BY <1>0, <2>1 DEF InstallType, InstallPcs, Says
  <2>3. /\ install'.commit = install.commit /\ install'.from = install.from
        /\ \/ install'.pc = "idle" /\ install'.said = "same version"
           \/ install'.pc = "resolve" /\ install'.said = install.said
    BY <1>0, <2>1 DEF InstallType
  <2> QED
    BY <1>0, <2>1, <2>2, <2>3
    DEF InstallInv, InstallTypeOK, SaysInv, FetchedInv, RecordInv, UpToDateTrue, InstallType, BinType
<1>9. ASSUME NEW resolved \in BOOLEAN, ResolveRef(resolved) PROVE InstallInv'
  <2> DEFINE commit == IF install.commit = NoCommit /\ resolved THEN Named(install.from) ELSE install.commit
  <2>1. /\ install.pc = "resolve" /\ UNCHANGED <<head, bin>>
        /\ install' = [install EXCEPT !.pc = "fetch", !.commit = commit]
    BY <1>9 DEF ResolveRef
  <2>2. commit \in Commits \cup {NoCommit}
    BY <1>a
  <2> HIDE DEF commit
  <2>3. /\ install' \in InstallType /\ install'.pc = "fetch" /\ install'.said = install.said
        /\ install'.from = install.from
    BY <1>0, <2>1, <2>2 DEF InstallType, InstallPcs
  <2>a. install.from # "local"
    BY <1>0, <2>1 DEF SaysInv
  <2> QED
    BY <1>0, <2>1, <2>3, <2>a
    DEF InstallInv, InstallTypeOK, SaysInv, FetchedInv, RecordInv, UpToDateTrue, InstallType, BinType
<1>10. ASSUME NEW ok \in BOOLEAN, FetchConfig(ok) PROVE InstallInv'
  <2>1. CASE ok
    <3>1. /\ install.pc = "fetch" /\ head' = head /\ bin' = [bin EXCEPT !.temp = TRUE]
          /\ install' = [install EXCEPT !.pc = "deno", !.config = Pinned]
      BY <1>10, <2>1 DEF FetchConfig
    <3>2. bin' \in BinType /\ bin'.recorded = bin.recorded /\ bin'.commit = bin.commit /\ bin'.launcher = bin.launcher
      BY <1>0, <3>1 DEF BinType
    <3>3. /\ install' \in InstallType /\ install'.pc = "deno" /\ install'.said = install.said
          /\ install'.from = install.from /\ install'.commit = install.commit /\ install'.config = Pinned
      BY <1>0, <1>a, <3>1 DEF InstallType, InstallPcs
    <3>4. install.commit # NoCommit => Pinned = install.commit
      BY DEF Pinned
    <3> QED
      BY <1>0, <3>1, <3>2, <3>3, <3>4
      DEF InstallInv, InstallTypeOK, SaysInv, FetchedInv, RecordInv, UpToDateTrue, InstallType, BinType
  <2>2. CASE ~ok
    <3>1. install' = [install EXCEPT !.pc = "idle", !.said = "failed"] /\ UNCHANGED <<head, bin>>
      BY <1>10, <2>2 DEF FetchConfig, Ends
    <3>2. install' \in InstallType /\ install'.pc = "idle" /\ install'.said = "failed"
      BY <1>0, <3>1 DEF InstallType, InstallPcs, Says
    <3> QED
      BY <1>0, <3>1, <3>2
      DEF InstallInv, InstallTypeOK, SaysInv, FetchedInv, RecordInv, UpToDateTrue, InstallType, BinType
  <2> QED BY <2>1, <2>2
<1>11. ASSUME NEW ok \in BOOLEAN, DenoInstall(ok) PROVE InstallInv'
  <2>1. CASE ok
    <3> DEFINE launcher == IF install.from = "local" THEN LocalTree ELSE Pinned
               pc == IF install.compile THEN "run" ELSE "persist"
    <3>1. /\ install.pc = "deno" /\ head' = head /\ install' = [install EXCEPT !.pc = pc]
          /\ bin' = [bin EXCEPT !.launcher = launcher, !.recorded = FALSE]
      BY <1>11, <2>1 DEF DenoInstall, Step
    <3>2. /\ launcher \in Commits \cup {NoCommit, LocalTree} /\ launcher # NoCommit /\ pc \in {"run", "persist"}
          /\ (install.from # "local" /\ install.commit # NoCommit => launcher = install.commit)
      BY <1>a DEF Pinned
    <3> HIDE DEF launcher, pc
    <3>3. bin' \in BinType /\ bin'.launcher = launcher /\ ~bin'.recorded
      BY <1>0, <3>1, <3>2 DEF BinType
    <3>4. /\ install' \in InstallType /\ install'.pc = pc /\ install'.said = install.said
          /\ install'.from = install.from /\ install'.commit = install.commit /\ install'.config = install.config
      BY <1>0, <3>1, <3>2 DEF InstallType, InstallPcs
    <3> QED
      BY <1>0, <3>1, <3>2, <3>3, <3>4
      DEF InstallInv, InstallTypeOK, SaysInv, FetchedInv, RecordInv, UpToDateTrue, InstallType, BinType
  <2>2. CASE ~ok
    <3>1. /\ install.pc = "deno" /\ install' = [install EXCEPT !.pc = "cleanup", !.said = "failed"]
          /\ UNCHANGED <<head, bin>>
      BY <1>11, <2>2 DEF DenoInstall
    <3>2. /\ install' \in InstallType /\ install'.pc = "cleanup" /\ install'.said = "failed"
          /\ install'.from = install.from /\ install'.commit = install.commit
      BY <1>0, <3>1 DEF InstallType, InstallPcs, Says
    <3> QED
      BY <1>0, <3>1, <3>2
      DEF InstallInv, InstallTypeOK, SaysInv, FetchedInv, RecordInv, UpToDateTrue, InstallType, BinType
  <2> QED BY <2>1, <2>2
<1>12. ASSUME NEW ok \in BOOLEAN, PersistConfig(ok) PROVE InstallInv'
  <2>1. /\ install.pc = "persist" /\ head' = head /\ install' = [install EXCEPT !.pc = "run"]
        /\ bin' = IF ok THEN [bin EXCEPT !.config = install.config] ELSE bin
    BY <1>12 DEF PersistConfig, Step
  <2>2. bin' \in BinType /\ bin'.launcher = bin.launcher /\ bin'.recorded = bin.recorded /\ bin'.commit = bin.commit
    BY <1>0, <1>a, <2>1 DEF BinType
  <2>3. /\ install' \in InstallType /\ install'.pc = "run" /\ install'.said = install.said
        /\ install'.from = install.from /\ install'.commit = install.commit /\ install'.config = install.config
    BY <1>0, <2>1 DEF InstallType, InstallPcs
  <2> QED
    BY <1>0, <2>1, <2>2, <2>3
    DEF InstallInv, InstallTypeOK, SaysInv, FetchedInv, RecordInv, UpToDateTrue, InstallType, BinType
<1>13. ASSUME NEW ok \in BOOLEAN, VerifyLauncher(ok) PROVE InstallInv'
  <2>1. /\ install.pc = "run" /\ UNCHANGED <<head, bin>>
        /\ install' = IF ok THEN [install EXCEPT !.pc = "record"]
                      ELSE [install EXCEPT !.pc = "cleanup", !.said = "failed"]
    BY <1>13 DEF VerifyLauncher, Step
  <2>2. install' \in InstallType
    BY <1>0, <2>1 DEF InstallType, InstallPcs, Says
  <2>3. /\ install'.from = install.from /\ install'.commit = install.commit /\ install'.config = install.config
        /\ \/ install'.pc = "record" /\ install'.said = install.said
           \/ install'.pc = "cleanup" /\ install'.said = "failed"
    BY <1>0, <2>1 DEF InstallType
  <2> QED
    BY <1>0, <2>1, <2>2, <2>3
    DEF InstallInv, InstallTypeOK, SaysInv, FetchedInv, RecordInv, UpToDateTrue, InstallType, BinType
<1>14. ASSUME NEW ok \in BOOLEAN, WriteRecord(ok) PROVE InstallInv'
  <2>1. /\ install.pc = "record" /\ head' = head
        /\ install' = [install EXCEPT !.pc = "cleanup", !.said = "installed"]
        /\ bin' = IF ok THEN [bin EXCEPT !.commit = install.commit, !.ref = install.from, !.recorded = TRUE] ELSE bin
    BY <1>14 DEF WriteRecord, RecordedCommit
  <2>2. /\ bin' \in BinType /\ bin'.launcher = bin.launcher
        /\ \/ bin' = bin
           \/ bin'.commit = install.commit
    BY <1>0, <1>a, <2>1 DEF BinType
  <2>3. /\ install' \in InstallType /\ install'.pc = "cleanup" /\ install'.said = "installed"
        /\ install'.from = install.from /\ install'.commit = install.commit /\ install'.config = install.config
    BY <1>0, <2>1 DEF InstallType, InstallPcs, Says
  <2> QED
    BY <1>0, <2>1, <2>2, <2>3
    DEF InstallInv, InstallTypeOK, SaysInv, FetchedInv, RecordInv, UpToDateTrue, InstallType, BinType
<1>15. ASSUME NEW ok \in BOOLEAN, Cleanup(ok) PROVE InstallInv'
  <2>1. /\ install.pc = "cleanup" /\ head' = head /\ install' = [install EXCEPT !.pc = "idle"]
        /\ bin' = IF ok THEN [bin EXCEPT !.temp = FALSE] ELSE bin
    BY <1>15 DEF Cleanup, Step
  <2>2. bin' \in BinType /\ bin'.launcher = bin.launcher /\ bin'.recorded = bin.recorded /\ bin'.commit = bin.commit
    BY <1>0, <2>1 DEF BinType
  <2>3. /\ install' \in InstallType /\ install'.pc = "idle" /\ install'.said = install.said
        /\ install'.from = install.from /\ install'.commit = install.commit /\ install'.config = install.config
    BY <1>0, <2>1 DEF InstallType, InstallPcs
  <2> QED
    BY <1>0, <2>1, <2>2, <2>3
    DEF InstallInv, InstallTypeOK, SaysInv, FetchedInv, RecordInv, UpToDateTrue, InstallType, BinType
<1>16. CASE UNCHANGED installVars
  BY <1>0, <1>16, <1>b DEF installVars
<1> QED
  BY <1>1, <1>3, <1>4, <1>5, <1>6, <1>7, <1>8, <1>9, <1>10, <1>11, <1>12, <1>13, <1>14, <1>15, <1>16 DEF InstallNext

\* `rail deploy` and the installation of `rail` never leave a lie behind, whoever else
\* deploys, edits or pushes meanwhile: a failed batch serves none of its own revisions
\* where it could go back, only scanned bytes are activated, an installation that knows its
\* commit is of that commit throughout, and "up to date" is true of the launcher.
THEOREM CommandsAreSafe == CliSpec => []CliSafe
<1>1. InstallInv => InstallTypeOK /\ PinnedOneRevision /\ UpToDateTrue
  BY DEF InstallInv, PinnedOneRevision, FetchedInv
<1>2. InstallSpec => [](InstallTypeOK /\ PinnedOneRevision /\ UpToDateTrue)
  BY <1>1, InitInstall, StepInstall, PTL DEF InstallSpec
<1> QED BY <1>2, DeploySafeLemma, PTL DEF CliSpec, CliSafe

=============================================================================
