--------------------------- MODULE LocalIsolation ---------------------------
(***************************************************************************)
(* LocalIsolationProvider: functions are imported into the runtime's own   *)
(* process and kept warm per (organisation, project, function, revision).  *)
(* A run looks its module up or loads it, resolves the secrets, calls the  *)
(* handler against a deadline and cleans up: the environment is wiped and  *)
(* the configurable properties that appeared on globalThis or              *)
(* Object.prototype since the handler was called are deleted.  Code runs   *)
(* outside such calls as well: the top level of a module while it is       *)
(* imported, timers that were left behind, and a handler that missed its   *)
(* deadline, which is not stopped and runs on as an "orphan".  Properties  *)
(* are told apart by name: what they hold is not followed.  The kv binding *)
(* that a handler gets is module LocalKv.                                  *)
(***************************************************************************)
EXTENDS Naturals, FiniteSets, LocalKv

CONSTANTS Runs,              \* the concurrent calls of run() and prewarm()
          Bundles,         \* pairs <<function, revision>>
          MaxWarmInstances,
          MaxOps,            \* maxKvOps of the invocation tracker
          GlobalNames        \* names that code may define on globalThis

ASSUME IsoAssumption ==
  MaxWarmInstances \in Nat \ {0} /\ MaxOps \in Nat /\ Bundles # {} /\ IsFiniteSet(Runs)

VARIABLES
  warm,        \* warmInstances: records [key, code]
  runs,        \* what each run is doing
  globals,     \* the added properties of the global objects
  fixed,       \* those of them that are not configurable
  outside,     \* history: those of them that code outside a handler's call defined
  disturbed    \* history: two handlers overlapped or one missed its deadline

isoVars == <<warm, runs, globals, fixed, outside, disturbed>>

\* prewarm: a prewarm() call; code: the module the handler is taken from; initial: the
\* properties noted before the call; env: the environment of the context.
Run == [pc : {"idle", "loading", "secrets", "running", "body", "orphan"}, prewarm : BOOLEAN, artifact : Bundles,
        code : Bundles, initial : SUBSET GlobalNames, env : {"none", "held", "wiped"}, ops : 0..MaxOps]
IdleRun == [pc |-> "idle", prewarm |-> FALSE, artifact |-> CHOOSE a \in Bundles : TRUE,
            code |-> CHOOSE a \in Bundles : TRUE, initial |-> {}, env |-> "none", ops |-> 0]

\* A key has one instance; operations beyond the quota are refused, not counted.
IsoTypeOK ==
  /\ \A w \in warm : w.code \in Bundles /\ \A x \in warm : x.key = w.key => x = w
  /\ runs \in [Runs -> Run] /\ globals \subseteq GlobalNames /\ disturbed \in BOOLEAN
  /\ fixed \subseteq globals /\ outside \subseteq globals

IsoInit ==
  /\ warm = {} /\ runs = [i \in Runs |-> IdleRun] /\ disturbed = FALSE
  /\ globals = {} /\ fixed = {} /\ outside = {}

----------------------------------------------------------------------------
\* Mutant of WarmKey: the revision is left out.
WarmKeyFunction(a) == a[1]

WarmKey(a) == a

Alive(i) == runs[i].pc \in {"running", "orphan"}
Called(r) == r.pc \in {"running", "body"}
globalVars == <<globals, fixed, outside>>
WarmFor(a) == {w \in warm : w.key = WarmKey(a)}

\* Mutant of Evictions: no instance makes room for the one to be loaded.
EvictionsNone == {warm}

\* A full cache loses the instance used longest ago; which one that is is left open.
Evictions == IF Cardinality(warm) < MaxWarmInstances THEN {warm} ELSE {warm \ {w} : w \in warm}

\* run(): a warm instance is used at once, else room is made and the module is loaded.
StartRun(i, a) ==
  /\ runs[i].pc = "idle"
  /\ \/ /\ WarmFor(a) # {}
        /\ \E w \in WarmFor(a) : runs' = [runs EXCEPT ![i] = [IdleRun EXCEPT !.pc = "secrets", !.artifact = a, !.code = w.code]]
        /\ UNCHANGED warm
     \/ /\ WarmFor(a) = {} /\ warm' \in Evictions
        /\ runs' = [runs EXCEPT ![i] = [IdleRun EXCEPT !.pc = "loading", !.artifact = a]]
  /\ UNCHANGED <<globalVars, disturbed>>

\* prewarm(): nothing when the instance is warm.
Prewarm(i, a) ==
  /\ runs[i].pc = "idle" /\ WarmFor(a) = {} /\ warm' \in Evictions
  /\ runs' = [runs EXCEPT ![i] = [IdleRun EXCEPT !.pc = "loading", !.artifact = a, !.prewarm = TRUE]]
  /\ UNCHANGED <<globalVars, disturbed>>

\* The module is imported; an instance that another run loaded meanwhile is replaced.  The
\* code is written to a file whose name joins the parts of the key, characters outside
\* [a-zA-Z0-9_-] replaced, and a generation that is read after an await: loads of one key may
\* share the file.  Revision ids are unique, so loads of two keys do not.
Loaded(i) ==
  LET a == runs[i].artifact IN
  /\ runs[i].pc = "loading"
  /\ warm' = (warm \ WarmFor(a)) \cup {[key |-> WarmKey(a), code |-> a]}
  /\ runs' = [runs EXCEPT ![i] = IF runs[i].prewarm THEN IdleRun ELSE [runs[i] EXCEPT !.pc = "secrets", !.code = a]]
  /\ UNCHANGED <<globalVars, disturbed>>

\* The import fails, also of a file that a load of the same key is writing again, or there is
\* no default handler: VALIDATION_FAILED.
LoadFails(i) ==
  /\ runs[i].pc = "loading" /\ runs' = [runs EXCEPT ![i] = IdleRun]
  /\ UNCHANGED <<warm, globalVars, disturbed>>

\* The context is built, the global properties are noted and the handler is called, also
\* when the deadline has passed already.
CallHandler(i) ==
  /\ runs[i].pc = "secrets"
  /\ runs' = [runs EXCEPT ![i] = [runs[i] EXCEPT !.pc = "running", !.initial = globals, !.env = "held"]]
  /\ disturbed' = (disturbed \/ \E j \in Runs \ {i} : Alive(j) \/ Called(runs[j]))
  /\ UNCHANGED <<warm, globalVars>>

\* Code defines a global property, configurable or not.
Define(g, configurable) ==
  /\ globals' = globals \cup {g} /\ fixed' = IF configurable THEN fixed ELSE fixed \cup {g}
  /\ UNCHANGED <<warm, runs, disturbed>>

\* The handler does, or the stream that is the body of its response.
HandlerDefines(i, g, configurable) ==
  /\ Called(runs[i]) /\ Define(g, configurable)
  /\ UNCHANGED outside

\* Anything else does: the top level of a module that is being imported, an orphan, a
\* timer that either or a handler left, the runtime itself.
OtherCodeDefines(g, configurable) ==
  /\ Define(g, configurable) /\ outside' = outside \cup {g}

\* recordKvOp: throws once the quota is used up.
RecordOp(i) == IF runs[i].ops >= MaxOps THEN runs[i].ops ELSE runs[i].ops + 1

\* A binding of the context is used, and every method begins with its count; key-value, objects and
\* queues have each a count and a quota of their own, of which ops is one.  An orphan still has them.
UseBinding(i) ==
  /\ Alive(i) /\ runs' = [runs EXCEPT ![i].ops = RecordOp(i)]
  /\ UNCHANGED <<warm, globalVars, disturbed>>

\* Mutant of CleanedUp: the environment is left to the handler.
CleanedUpKeeping(i, pc) == [runs[i] EXCEPT !.pc = pc]

\* The finally block: the environment is wiped, the run goes on to pc.
CleanedUp(i, pc) == [runs[i] EXCEPT !.pc = pc, !.env = "wiped"]

\* Mutant of KeptGlobals: nothing is deleted.
KeptGlobalsAll(i) == globals

\* The properties noted before the call stay; deleting one that is not configurable fails,
\* which is ignored.
KeptGlobals(i) == (globals \cap runs[i].initial) \cup fixed

DeleteGlobals(i) ==
  /\ globals' = KeptGlobals(i) /\ outside' = outside \cap KeptGlobals(i)
  /\ UNCHANGED fixed

\* The handler returns a response; its body is read, which no deadline interrupts.
HandlerReturns(i) ==
  /\ runs[i].pc = "running" /\ runs' = [runs EXCEPT ![i].pc = "body"]
  /\ UNCHANGED <<warm, globalVars, disturbed>>

\* The body was read, or the handler or the body failed.
RunReturns(i) ==
  /\ runs[i].pc \in {"running", "body"}
  /\ runs' = [runs EXCEPT ![i] = [CleanedUp(i, "idle") EXCEPT !.ops = 0]] /\ DeleteGlobals(i)
  /\ UNCHANGED <<warm, disturbed>>

\* The deadline wins the race: TIMEOUT is returned and the handler runs on.
DeadlinePasses(i) ==
  /\ runs[i].pc = "running"
  /\ runs' = [runs EXCEPT ![i] = CleanedUp(i, "orphan")] /\ DeleteGlobals(i)
  /\ disturbed' = TRUE
  /\ UNCHANGED warm

OrphanEnds(i) ==
  /\ runs[i].pc = "orphan" /\ runs' = [runs EXCEPT ![i] = IdleRun]
  /\ UNCHANGED <<warm, globalVars, disturbed>>

ClearWarm ==
  /\ warm # {} /\ warm' = {}
  /\ UNCHANGED <<runs, globalVars, disturbed>>

IsoNext ==
  \/ \E i \in Runs :
       \/ \E a \in Bundles : StartRun(i, a) \/ Prewarm(i, a)
       \/ Loaded(i) \/ LoadFails(i) \/ CallHandler(i) \/ UseBinding(i)
       \/ HandlerReturns(i) \/ RunReturns(i) \/ DeadlinePasses(i) \/ OrphanEnds(i)
  \/ \E g \in GlobalNames, c \in BOOLEAN : OtherCodeDefines(g, c) \/ \E i \in Runs : HandlerDefines(i, g, c)
  \/ ClearWarm

IsoSpec == IsoInit /\ [][IsoNext]_isoVars

----------------------------------------------------------------------------
\* The handler that runs is that of the revision asked for (functions.contract.md, FN-6).
RunsOwnRevision == \A i \in Runs : runs[i].pc \in {"secrets", "running", "body", "orphan"} => runs[i].code = runs[i].artifact

\* The cache check and the insertion are apart, so concurrent loads pass maxWarmInstances,
\* but never by more than the other runs that may be loading at the time.
WarmBounded ==
  Cardinality(warm) + Cardinality({i \in Runs : runs[i].pc = "loading"}) <= MaxWarmInstances + Cardinality(Runs) - 1

\* A handler that outlives its run finds no secret in its environment (platform.contract.md, PLAT-15).
SecretsDieWithRun == \A i \in Runs : runs[i].pc \in {"idle", "loading", "orphan"} => runs[i].env # "held"

\* As long as no two handlers overlapped and none missed its deadline, what a handler defined
\* while it was called is gone once its run is over: a property that is left is not
\* configurable or was defined outside a handler's call, where loads and timers of others may
\* define one in the middle of it (functions.contract.md, FN-6).
GlobalsCleaned == (\A i \in Runs : ~Called(runs[i])) /\ ~disturbed => globals \subseteq fixed \cup outside

\* Runs that share one process: each runs its own revision, concurrent loads exceed
\* the warm cache by no more than their number, secrets do not outlive their run nor
\* configurable globals one that was on its own, and a checked commit notices the run's own sets.
LocalSandboxSafe ==
  /\ [](/\ IsoTypeOK /\ RunsOwnRevision /\ WarmBounded /\ SecretsDieWithRun /\ GlobalsCleaned
        /\ LocalKvTypeOK)
  /\ [][OwnWritesSeen]_localKvVars
=============================================================================
