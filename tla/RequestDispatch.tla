-------------------------- MODULE RequestDispatch --------------------------
(***************************************************************************)
(* The request path of the data plane (apps/runtime/runtime-server.ts and  *)
(* runtime/api/dispatch.ts): call-depth guard, choice of the project and   *)
(* the route, artifact cache, cron timers and queue dispatch, while polls  *)
(* replace and drop snapshots and the server is closed.                    *)
(*                                                                         *)
(* A project has one function.  Its snapshot is the artifact that is       *)
(* deployed, or says that the path asked for has no route; polling itself  *)
(* is module RuntimeSnapshot.  An artifact belongs to the project that     *)
(* built it, and its content is itself: artifacts are content-addressed.   *)
(***************************************************************************)
EXTENDS Naturals, Sequences, SequencesExt

CONSTANTS Projects, MainProject,
          Owner,            \* artifact -> its project
          NoRoute, NoSnapshot, Empty,
          RequestIds, Handlers,
          CallDepthMax, MaxChains, MaxArtifacts,
          MaxUpdates        \* bound: snapshots accepted by a poll

Artifacts == DOMAIN Owner
Snapshots == Artifacts \cup {NoRoute, NoSnapshot}

ASSUME DispatchConstants ==
  /\ MainProject \in Projects /\ Owner \in [Artifacts -> Projects]
  /\ NoRoute \notin Artifacts /\ NoSnapshot \notin Artifacts \cup {NoRoute} /\ Empty \notin Projects
  /\ CallDepthMax \in Nat \ {0} /\ MaxChains \in Nat \ {0} /\ MaxArtifacts \in Nat \ {0} /\ MaxUpdates \in Nat

VARIABLES
  served,    \* project -> its snapshot (projectSnapshots)
  timers,    \* the cron timers: project and the artifact captured
  polled,    \* the answer of a poll whose body is being read, or whose function is prewarmed
  updates,
  artifactCache,   \* the map, oldest entry first
  chains,    \* callDepthChains: request id -> depth, 0 for no entry
  handlers,  \* what each handler is doing
  closed,
  forgot     \* history: a full map of chains was cleared

dispatchVars == <<served, timers, polled, updates, artifactCache, chains, handlers, closed, forgot>>

NoPoll == [project |-> MainProject, snapshot |-> NoSnapshot, applied |-> FALSE]
Handler == [pc : {"idle", "admitted", "fetching", "running"},
            trigger : {"http", "cron", "queue"},
            id : RequestIds \cup {Empty}, depth : 0..CallDepthMax, nesting : 0..CallDepthMax,
            asked : Projects \cup {Empty},            \* the project the request names
            project : Projects, artifact : Snapshots, code : Artifacts \cup {Empty},
            own : BOOLEAN]                            \* history: it had a route of its own
IdleHandler == [pc |-> "idle", trigger |-> "http", id |-> Empty,
                depth |-> 0, nesting |-> 0, asked |-> Empty, project |-> MainProject,
                artifact |-> NoSnapshot, code |-> Empty, own |-> FALSE]

DispatchTypeOK ==
  /\ served \in [Projects -> Snapshots] /\ served[MainProject] # NoSnapshot
  /\ timers \subseteq Projects \X Artifacts
  /\ polled \in [project : Projects, snapshot : Snapshots, applied : BOOLEAN]
  /\ \A i \in DOMAIN artifactCache : artifactCache[i] \in [id : Artifacts \cup Projects, code : Artifacts]
  /\ Len(artifactCache) <= MaxArtifacts
  /\ chains \in [RequestIds -> 0..CallDepthMax]
  /\ handlers \in [Handlers -> Handler]
  /\ closed \in BOOLEAN /\ forgot \in BOOLEAN /\ updates \in 0..MaxUpdates

TimersOf(p, s) == IF s \in Artifacts THEN {<<p, s>>} ELSE {}

DispatchInit ==
  /\ \E a \in Artifacts : /\ Owner[a] = MainProject
                          /\ served = [p \in Projects |-> IF p = MainProject THEN a ELSE NoSnapshot]
                          /\ timers = TimersOf(MainProject, a)
  /\ polled = NoPoll /\ updates = 0 /\ artifactCache = <<>>
  /\ chains = [i \in RequestIds |-> 0]
  /\ handlers = [h \in Handlers |-> IdleHandler]
  /\ closed = FALSE /\ forgot = FALSE

----------------------------------------------------------------------------
(* Polls: whether the server is closed is looked at before the body is read, not  *)
(* when its content is applied.                                                   *)

PollAnswers(p, s) ==
  /\ ~closed /\ polled = NoPoll /\ updates < MaxUpdates
  /\ s \in Artifacts => Owner[s] = p
  /\ polled' = [project |-> p, snapshot |-> s, applied |-> FALSE] /\ updates' = updates + 1
  /\ UNCHANGED <<served, timers, artifactCache, chains, handlers, closed, forgot>>

\* A project the control plane no longer lists; its timers stay.
DropProject(p) ==
  /\ ~closed /\ p # MainProject /\ served[p] # NoSnapshot
  /\ served' = [served EXCEPT ![p] = NoSnapshot]
  /\ UNCHANGED <<timers, polled, updates, artifactCache, chains, handlers, closed, forgot>>

----------------------------------------------------------------------------
(* The call-depth guard. *)

Known == {i \in RequestIds : chains[i] > 0}
TrackedDepth(id, header) == IF chains[id] > 0 THEN chains[id] ELSE header

\* Mutant of Tracked: only the first hop of a chain is recorded.
TrackedOnce(id, header) ==
  LET kept == IF Cardinality(Known) >= MaxChains THEN [i \in RequestIds |-> 0] ELSE chains
  IN  [kept EXCEPT ![id] = IF chains[id] > 0 THEN chains[id] ELSE header + 1]

\* trackCallDepth: a full map is cleared, then this hop is recorded.
Tracked(id, header) ==
  LET kept == IF Cardinality(Known) >= MaxChains THEN [i \in RequestIds |-> 0] ELSE chains
  IN  [kept EXCEPT ![id] = TrackedDepth(id, header) + 1]

Arrive(h, id, header, nesting, asked) ==
  /\ handlers[h].pc = "idle" /\ ~closed
  /\ IF TrackedDepth(id, header) >= CallDepthMax
       THEN UNCHANGED <<chains, handlers, forgot>>
       ELSE /\ chains' = Tracked(id, header)
            /\ forgot' = (forgot \/ Cardinality(Known) >= MaxChains)
            /\ handlers' = [handlers EXCEPT ![h] =
                 [IdleHandler EXCEPT !.pc = "admitted", !.id = id, !.nesting = nesting, !.asked = asked,
                                     !.depth = TrackedDepth(id, header)]]
  /\ UNCHANGED <<served, timers, polled, updates, artifactCache, closed>>

\* A client, with an id of its own or one it has used before.
ClientCalls(h, id, asked) == Arrive(h, id, 0, 0, asked)

\* A function calls on.  In a request it passes the id or the depth it was given, or
\* both: a request without id gets one that no chain has.  A cron or queue run has no
\* depth in its headers and begins a chain, with an id and, in its sandbox, the depth 1.
FunctionCalls(h, caller, asked) ==
  LET from == handlers[caller]
  IN  /\ from.pc = "running"
      /\ \/ /\ from.trigger = "http" /\ from.nesting < CallDepthMax
            /\ \/ \E header \in {0, from.depth + 1} : Arrive(h, from.id, header, from.nesting + 1, asked)
               \/ \E id \in RequestIds \ Known : Arrive(h, id, from.depth + 1, from.nesting + 1, asked)
         \/ /\ from.trigger # "http"
            /\ \E id \in RequestIds, header \in {0, 1} : Arrive(h, id, header, 0, asked)

----------------------------------------------------------------------------
(* The artifact cache. *)

\* Mutant of CacheKey: code is cached for the project, not for the artifact.
CacheKeyProject(run) == run.project

CacheKey(run) == run.artifact

\* What a poll that has been applied prewarms.
Prewarmed == [project |-> polled.project, artifact |-> polled.snapshot]

CachedAt(key) == SelectInSeq(artifactCache, LAMBDA e : e.id = key)

\* Mutant of CacheArtifact: one entry too many is kept.
CacheArtifactLate(key, code) ==
  LET kept == IF Len(artifactCache) > MaxArtifacts THEN Tail(artifactCache) ELSE artifactCache
  IN  Append(SelectSeq(kept, LAMBDA e : e.id # key), [id |-> key, code |-> code])

\* cacheArtifactCode: the oldest entry goes when the map is full, even if the
\* artifact is in it already; setting it again keeps its place.
CacheArtifact(key, code) ==
  LET kept == IF Len(artifactCache) >= MaxArtifacts THEN Tail(artifactCache) ELSE artifactCache
      at == SelectInSeq(kept, LAMBDA e : e.id = key)
  IN  IF at > 0 THEN [kept EXCEPT ![at].code = code] ELSE Append(kept, [id |-> key, code |-> code])

\* A run of what was found begins with the code in the cache, or fetches it first.
Begin(h, run) ==
  LET at == CachedAt(CacheKey(run))
  IN  handlers' = [handlers EXCEPT ![h] =
        IF at > 0 THEN [run EXCEPT !.pc = "running", !.code = artifactCache[at].code]
        ELSE [run EXCEPT !.pc = "fetching"]]

----------------------------------------------------------------------------
(* The content of a poll. *)

\* syncCronSchedules: the timers of the project are replaced.  The poll then waits for
\* prewarmSnapshotFunctions, which fetches an artifact that is not in the cache.
PollApplies ==
  /\ polled # NoPoll /\ ~polled.applied
  /\ served' = [served EXCEPT ![polled.project] = polled.snapshot]
  /\ timers' = {t \in timers : t[1] # polled.project} \cup TimersOf(polled.project, polled.snapshot)
  /\ polled' = IF polled.snapshot \in Artifacts /\ CachedAt(CacheKey(Prewarmed)) = 0
                 THEN [polled EXCEPT !.applied = TRUE]
                 ELSE NoPoll
  /\ UNCHANGED <<updates, artifactCache, chains, handlers, closed, forgot>>

\* Its fetch ends: the code is cached, or the failure is ignored.
PrewarmEnds ==
  /\ polled.applied /\ polled' = NoPoll
  /\ artifactCache' \in {artifactCache, CacheArtifact(CacheKey(Prewarmed), polled.snapshot)}
  /\ UNCHANGED <<served, timers, updates, chains, handlers, closed, forgot>>

----------------------------------------------------------------------------
(* The choice of project and route. *)

\* Mutant of Resolved: the main project is asked first.
ResolvedMainFirst(asked) ==
  IF served[MainProject] \in Artifacts
    THEN [project |-> IF asked = Empty THEN MainProject ELSE asked, artifact |-> served[MainProject]]
    ELSE [project |-> asked, artifact |-> IF asked # Empty THEN served[asked] ELSE NoRoute]

\* The project asked for, if it has a route; else the main one's route, under the
\* name of the project asked for; else the route of any project.
Resolved(asked) ==
  IF asked # Empty /\ served[asked] \in Artifacts
    THEN [project |-> asked, artifact |-> served[asked]]
  ELSE IF served[MainProject] \in Artifacts
    THEN [project |-> IF asked = Empty THEN MainProject ELSE asked, artifact |-> served[MainProject]]
  ELSE IF \E p \in Projects : served[p] \in Artifacts
    THEN LET p == CHOOSE q \in Projects : served[q] \in Artifacts IN [project |-> p, artifact |-> served[p]]
  ELSE [project |-> MainProject, artifact |-> NoRoute]

Route(h) ==
  LET found == Resolved(handlers[h].asked)
  IN  /\ handlers[h].pc = "admitted"
      /\ IF found.artifact \notin Artifacts
           THEN handlers' = [handlers EXCEPT ![h] = IdleHandler]
           ELSE Begin(h, [handlers[h] EXCEPT !.project = found.project, !.artifact = found.artifact, !.asked = Empty,
                                             !.own = handlers[h].asked = Empty \/ served[handlers[h].asked] \in Artifacts])
      /\ UNCHANGED <<served, timers, polled, updates, artifactCache, chains, closed, forgot>>

\* The server answers by itself: its health, an object it finds on the disk, its log
\* entries, or what the control plane answers to a request passed on to it.
AnswersItself(h) ==
  /\ handlers[h].pc = "admitted"
  /\ handlers' = [handlers EXCEPT ![h] = IdleHandler]
  /\ UNCHANGED <<served, timers, polled, updates, artifactCache, chains, closed, forgot>>

\* A rate limit or a missing bearer token ends the request.
Refuse(h) ==
  /\ handlers[h].pc = "admitted"
  /\ handlers' = [handlers EXCEPT ![h] = IdleHandler]
  /\ UNCHANGED <<served, timers, polled, updates, artifactCache, chains, closed, forgot>>

CronRun(t) == [IdleHandler EXCEPT !.trigger = "cron", !.project = t[1], !.artifact = t[2], !.own = TRUE]

\* Mutant of CronFires: a timer set while the server closed is not stopped.
CronFiresClosed(h, t) ==
  /\ handlers[h].pc = "idle" /\ t \in timers
  /\ Begin(h, CronRun(t))
  /\ UNCHANGED <<served, timers, polled, updates, artifactCache, chains, closed, forgot>>

\* The callback of a timer runs the function it captured.
CronFires(h, t) ==
  /\ handlers[h].pc = "idle" /\ t \in timers /\ ~closed
  /\ Begin(h, CronRun(t))
  /\ UNCHANGED <<served, timers, polled, updates, artifactCache, chains, closed, forgot>>

\* A message goes to the function of its project, or of the main project if the
\* project has no snapshot.  Which of several functions takes it (by its queue
\* trigger, else by its name) is left out; where none is found there is no run.
QueueDispatch(h, p) ==
  LET s == IF served[p] = NoSnapshot THEN served[MainProject] ELSE served[p]
  IN  /\ handlers[h].pc = "idle" /\ s \in Artifacts
      /\ Begin(h, [IdleHandler EXCEPT !.trigger = "queue", !.project = p, !.artifact = s,
                                      !.own = served[p] # NoSnapshot])
      /\ UNCHANGED <<served, timers, polled, updates, artifactCache, chains, closed, forgot>>

----------------------------------------------------------------------------
Fetched(h) ==
  /\ handlers[h].pc = "fetching"
  /\ artifactCache' = CacheArtifact(CacheKey(handlers[h]), handlers[h].artifact)
  /\ handlers' = [handlers EXCEPT ![h].pc = "running", ![h].code = handlers[h].artifact]
  /\ UNCHANGED <<served, timers, polled, updates, chains, closed, forgot>>

\* The function is run all the same, without code.
FetchFails(h) ==
  /\ handlers[h].pc = "fetching"
  /\ handlers' = [handlers EXCEPT ![h].pc = "running"]
  /\ UNCHANGED <<served, timers, polled, updates, artifactCache, chains, closed, forgot>>

\* It ends, or was never run because the body of the request is too large.
RunEnds(h) ==
  /\ handlers[h].pc = "running"
  /\ handlers' = [handlers EXCEPT ![h] = IdleHandler]
  /\ UNCHANGED <<served, timers, polled, updates, artifactCache, chains, closed, forgot>>

\* close: the timers known now are cleared.
CloseServer ==
  /\ ~closed /\ closed' = TRUE /\ timers' = {}
  /\ UNCHANGED <<served, polled, updates, artifactCache, chains, handlers, forgot>>

\* A request that names the main project is resolved like one that names none.
AskedProjects == (Projects \ {MainProject}) \cup {Empty}

DispatchNext ==
  \/ PollApplies \/ PrewarmEnds \/ CloseServer
  \/ \E p \in Projects : DropProject(p) \/ \E s \in Artifacts \cup {NoRoute} : PollAnswers(p, s)
  \/ \E h \in Handlers :
       \/ \E asked \in AskedProjects :
            \/ \E id \in RequestIds : ClientCalls(h, id, asked)
            \/ \E caller \in Handlers : FunctionCalls(h, caller, asked)
       \/ Route(h) \/ AnswersItself(h) \/ Refuse(h) \/ Fetched(h) \/ FetchFails(h) \/ RunEnds(h)
       \/ \E t \in timers : CronFires(h, t)
       \/ \E p \in Projects : QueueDispatch(h, p)

DispatchSpec == DispatchInit /\ [][DispatchNext]_dispatchVars

----------------------------------------------------------------------------
\* FN-7: a chain of calls is never deeper than the limit, whatever else shares its
\* request id and whether its calls pass the id, the depth or both, as long as the map
\* of chains has not been cleared: an entry that is set again later is trusted more
\* than a greater depth in the header.
DepthBounded ==
  ~forgot => \A h \in Handlers : handlers[h].nesting <= handlers[h].depth /\ handlers[h].depth < CallDepthMax

\* What runs is the code of the artifact that was routed to, or nothing, though
\* snapshots change and entries are evicted between routing, fetching and running.
RunsRoutedCode ==
  \A h \in Handlers : handlers[h].pc = "running" => handlers[h].code \in {handlers[h].artifact, Empty}

\* A project that has a route of its own is served by its own function.
OwnFunction ==
  \A h \in Handlers :
    handlers[h].pc # "idle" /\ handlers[h].own => Owner[handlers[h].artifact] = handlers[h].project

\* No cron run begins once the server is closed, though a poll sets timers after it.
NoCronAfterClose ==
  closed => \A h \in Handlers :
    handlers'[h].trigger = "cron" /\ handlers'[h].pc # "idle" => handlers[h].trigger = "cron"

\* A request runs the code it was routed to, of its own project and within the depth
\* of calls (while the map of chains is not cleared), though polls replace snapshots
\* and evict artifacts meanwhile; a closed server fires no cron.
DispatchSafe ==
  /\ [](DispatchTypeOK /\ DepthBounded /\ RunsRoutedCode /\ OwnFunction)
  /\ [][NoCronAfterClose]_dispatchVars
=============================================================================
