# A TLA+ verification project for Railfog

Railfog is a self-hosted function platform: a control plane accepts deployments
and publishes routing snapshots, data-plane nodes poll those snapshots and run
functions, workers consume queues, and a small set of policies (circuit breaker,
rate limits, permissions, secrets) and providers (key-value, object, queue,
compute) sits underneath. This directory holds a specification of the parts of it
whose correctness depends on interleaving, failure and order, the TLC
configurations that check them on small instances, and TLAPS proofs of the most
important invariants for every instance.

Paths below are relative to the repository root, `src/`.

## 1. Inventory

### The components, their state and their operations

| Component | State | Operations |
|---|---|---|
| SQLite queue (`providers/queues/sqlite-queue-provider.ts`) | table `messages` (attempts, visible_after, is_dlq, expires_at) | send, receive (two statements), ack, deadLetter.receive/ack/send, purge |
| Cloudflare queue (`providers/queues/cloudflare-queue-provider.ts`) | bounded map of leases | send, sendBatch, pull, ack by lease or by id |
| Queue workers (`apps/worker/*.ts`) | the message in hand, restart counters, stop promise | receive-invoke-ack cycle, dead-lettering, restart with back-off, start, stop, drain |
| Deployment service (`apps/api/deployment-service.ts`) | revisions, active pointers, routes, metadata, last timestamp, persist chain, state file | deploy pipeline, rollback, restore, set routes/metadata, delete, hydrate |
| Backup (`apps/api/state-backup-service.ts`) | the archive being read or written | export page by page, validate, check, import |
| Control server (`apps/api/control-server.ts`, `packages/protocol/snapshot.ts`) | cached snapshot and fingerprint per project | deploy, rollback, import, delete, snapshot and list routes, key routes |
| API keys (`packages/auth/*.ts`) | key records by token and id, a listing, a cache with a time to live | create, verify, revoke, bootstrap |
| Runtime server (`apps/runtime/runtime-server.ts`) | current snapshot, snapshots of discovered projects, cron timers, disk cache, polling lock, artifact cache, call depths | poll, accept, cold start, dispatch of requests, cron and queue messages, close |
| Snapshot caches (`runtime/snapshot/*.ts`) | latest snapshot, polling lock, temporary and cache file | start, stop, poll, force refresh, persist |
| Router and cron matcher (`runtime/router/`, `runtime/lifecycle/cron-matcher.ts`) | compiled patterns, timers | match, score, compile, fire |
| Gateway (`apps/gateway/*.ts`) | token buckets | check the tiers, proxy, prune, close |
| Sandboxes (`runtime/sandbox/*isolation.ts`, `process-worker.ts`) | process pool, warm instances, environment, globals, local KV | spawn, send, read, time out, evict, load, run, clean up |
| Egress proxy (`runtime/sandbox/egress-*.ts`) | registrations and their connection counts | register, resolve, tunnel, forward, end |
| Circuit breaker, retry, resilient provider (`packages/policy/`, `providers/resilient/`) | one record in the KV store, attempts of a call | execute, count with compare-and-set, reset, retry with back-off |
| KV providers (`providers/kv/*.ts`) | a row, its chunks, its lock | get, set, delete, commit, list |
| Objects and tenants (`providers/objects/`, `providers/guard/`, `packages/policy/permission-resolver.ts`) | files by path | put, delete, list under prefixes |
| Secrets (`packages/policy/secret-store.ts`) | one record file per secret | set, get, delete, resolve |
| SDK helpers (`sdk/typescript/helpers.ts`) | one key each | mutate, withIdempotency, withCircuitBreaker |
| CLI (`cli/*.ts`, `scripts/install.ts`) | callback listener, credentials, launcher and version record | deploy, login, logout, install, upgrade |
| Dev server (`runtime/dev-server/*.ts`) | pending events, configuration, loaded modules | watch, debounce, reload, serve |

`PROJECT.json` lists every component with its files and status, including those
that no module covers.

### How they interact

* The CLI calls the control server; its handlers call the deployment service,
  which probes health and writes its state file in the background; the handlers
  then mark the cached snapshot of the project dirty and rebuild it.
* A runtime polls the control server with the version it has as ETag. A poll is
  raced against a timer; the loser is not cancelled. Requests, cron timers and
  queue messages are dispatched on whatever snapshot is current when they arrive.
* A request passes the gateway's buckets, the runtime's depth guard and routes, the
  artifact cache and a sandbox; the sandbox resolves secrets and gives the handler
  bindings, and its outgoing connections may go through the egress proxy.
* Workers of several processes share one queue. A message that is not acked within
  its visibility timeout is delivered again, to anyone.
* Every caller of a circuit breaker reads its record from the KV store before the
  operation and updates it with compare-and-set after it; the resilient wrappers put
  all attempts of one operation inside one such call.

All of it runs on JavaScript event loops: within one process, an interleaving
point is an `await`; between processes, it is every statement or request.

### What is hard

Late answers of requests nobody waits for any more; state read before an `await`
and used after it; two-step updates a crash may separate; acks that fail after the
work was done; retries of what may have happened; background writes that outlive
the answer; version numbers that begin again; one temporary file, one connection,
one map of depths shared by overlapping callers; caches filled after they were
emptied; batches that fail half way; off-by-one comparisons that live in two files.
`PROJECT.json` lists these under `hazards`, each at its line, with the properties
that would catch it.

### What makes each component correct

* Queues: a message is never lost, never processed more than `maxReceives` times,
  a dead-lettered one is never revived, and every message leaves the queue.
* Deployment and backup: what serves passed its health checks and is stored; the
  newest healthy revision serves; memory reaches the disk; a refused import changed
  nothing and a successful one brought everything back.
* Snapshot distribution: an answer reflects the project; a version names one
  snapshot.
* Keys: no key exceeds the rights of its maker; a revoked one dies within the cache's
  time to live; once a key was handed out nobody mints anonymously.
* Runtime: it never loses its snapshot, its cron timers match it, it converges to
  what was deployed last, and a request runs the code it was routed to.
* Caches: the snapshot in memory only moves forward, the file is always readable,
  and a hanging fetch does not stop the polling.
* Request path: a caller never exceeds its rate, reads only its own answer, never
  finds another run's secrets, and never reaches a forbidden address.
* Stores: a checked commit checks, a scan is complete, tenants stay apart, a secret
  is read as it was set.
* Life cycle: loops of two starts never overlap, a stop stops and ends, a clean
  shutdown leaves nothing behind.
* Policies: no failure is lost to a concurrent update, the threshold trips the
  circuit, it recovers, and a call with side effects is sent once.
* CLI: a failed batch is taken back, an installation is of one revision, a login
  leaves no listener.

## 2. Modules

| Module | Models | Checked in |
|---|---|---|
| `SqliteQueue`, `QueueDelivery` | the table and its SQL statements; worker cycles over it | `Queue` |
| `QueueDeliveryProofs` | theorems about `QueueDelivery` | |
| `Deployment` | `DeploymentService` | `ControlPlane`, `RollbackRace` |
| `SnapshotSource` | abstract: what a poller may rely on | `ControlPlane` |
| `SnapshotDistribution` | snapshot cache and handlers of the control server; implements `SnapshotSource` | `ControlPlane` |
| `StateBackup` | `StateBackupService` and the archive schema | `ControlPlane` |
| `ControlPlaneProofs` | theorems about `Deployment`, `SnapshotDistribution` and `StateBackup` | |
| `RuntimeSnapshot` | polling runtime with a control plane reduced to one step per request | `Rollout`, `Recovery`, `RuntimeDowngrade`, `RuntimeControlRestart` |
| `ApiKeys` | key store, verifier, middleware and key route | `Rollout` |
| `CliDeploy` | `rail deploy` | `Rollout` |
| `CliInstall` | installer and `rail upgrade` | `Rollout` |
| `CommandLine` | the two commands on one machine: `CliSpec` and what both promise | `Rollout` |
| `RolloutProofs` | theorems about `RuntimeSnapshot`, `ApiKeys` and `CommandLine` | |
| `CircuitBreaker` | `KVCircuitBreaker` over a compare-and-set store | `Recovery` |
| `ResilientProvider` | resilient wrappers and retry; EXTENDS `CircuitBreaker` | `Recovery` |
| `ResilientProofs` | theorems about `CircuitBreaker` and `ResilientProvider` | |
| `DiskSnapshotCache` | both snapshot caches | `Stores`, `CacheSharedTmp` |
| `KvStores`, `KvListing` | one key, and the paged list, of the KV providers; `KvSafe` is what both promise | `Stores` |
| `SdkHelpers` | helpers of the SDK over a KV binding | `Stores` |
| `TenantKeys` | object keys from binding to file | `Stores` |
| `SecretStore` | the file-backed secret store | `Stores` |
| `StoreProofs` | theorems about `DiskSnapshotCache`, `SecretStore`, `SdkHelpers`, `KvStores`, `KvListing` and `TenantKeys` | |
| `WorkerLifecycle`, `ShutdownCoordinator` | start, stop, abort and sleeps; the coordinator over them | `Lifecycle` |
| `CloudQueue` | resilient consumer over the Cloudflare queue | `Lifecycle` |
| `CliLogin` | `rail login` and its callback listener | `Lifecycle` |
| `ShutdownProofs` | theorems about `ShutdownCoordinator`, `CloudQueue` and `CliLogin` | |
| `Gateway` | tiers of token buckets | `Requests` |
| `RouteMatcher`, `CronTriggers` | matching, scores; cron fields and timers; `TriggersSound` is what both promise | `Requests` |
| `RequestDispatch` | request path of the runtime | `Requests` |
| `ProcessIsolation`, `LocalIsolation`, `LocalKv` | the two sandboxes and the local KV binding, part of the local one | `Requests` |
| `EgressProxy` | proxy and address blocker | `Requests` |
| `DevReload` | hot reload of `rail dev` | `Requests`, `DevStaleImport` |
| `RequestProofs` | theorems about all modules of the `Requests` run | |
| `MC...` | constants and compositions for TLC | |

A definition whose comment begins "Mutant of" is a deliberately wrong variant of
the definition that follows it: replacing the one by the other must make TLC
report a violation, which shows that the property depends on that line of code.

### Queue (`SqliteQueue`, `QueueDelivery`)

`table` is the messages table. Time is relative: `visible` is `visible_after -
now`, so the clock only decreases it and there is no absolute counter; a row that
has been visible for `Horizon` ticks ages no further. The two UPDATEs of `receive`
are two actions (`Receive`, `ReceiveExhausted`) because another process may run
between them and a crash may separate them. `Ack` deletes by id, whoever asks.
`work[w]` is a worker's place in its cycle. Both worker kinds share the actions;
they differ in `AckError`, because the supervisor acks inside the `try` of the
computation and the consumer does not, and in `ReceiveLimit`. `Abandon` is a
supervisor that was stopped while `receive` was pending. `dlqProvider`, chosen
initially, is what the workers were given as dead-letter queue: nothing, a provider
that stores, one that may reject, or the SQLite provider's own `deadLetter`. `operator` drains the
provider's dead-letter queue. `invoked`, `succeeded` and `drained` are history.

### Deployment (`Deployment`)

A revision id is its timestamp, which is what orders ULIDs. A deploy is
`DeployBegin` (timestamp), `DeployStored`/`DeployStoreError`, and
`DeployHealthy`/`DeployUnhealthy` (the verdict of the probes is left open).
`RollbackCheck` and `RollbackFlip` are the two sides of rollback's `await`.
`persistQueued`, `writing` and `disk` model the persist chain: the flag is cleared
and the image taken when a link of the chain starts, so a change made during a
write schedules the next one. `Restart` forgets everything that is not in the
image, `lastTimestamp` included. `ClockMoves` may set the clock back.

### Snapshot distribution (`SnapshotDistribution`, `SnapshotSource`)

`getProjectSnapshot` reads the active revision of one function per `await`;
`StartBuild`, `ReadNext` and `FinishBuild` are its steps. The fingerprint of a
project that serves nothing is the empty string, and so is the mark for "dirty":
the model keeps that identification (`Empty`). `undisturbed` is history: the
project has not changed since this request began reading. `ImplementsSource` maps
the cached snapshot to the abstract `published` snapshot.

### Runtime (`RuntimeSnapshot`)

A poll asks for the snapshot of the main project, writes the disk cache if the
answer is newer than the snapshot it read before asking, asks for the project
list, drops the projects that are gone and asks for the others. `TimeoutPoll`
releases the lock and lets the poll run on, so polls overlap. The file is
truncated and then written in place (`OpenDisk`, `WriteDisk`). The control plane
is one step per request, `Built` being the version rule of
`SnapshotDistribution`.

### Snapshot caches (`DiskSnapshotCache`)

The temporary path and the cache path name inodes; an open descriptor keeps its
inode when the path is renamed or removed, and opening an existing path truncates
it. `hasDisk`, chosen initially, tells the two classes apart. `cached`, `unsaved`
and `clash` are history. A `mkdir` that fails ends the refresh before the `try` that
removes temporary files.

### Circuit breaker (`CircuitBreaker`)

A caller reads the record, is admitted or fails fast, runs its operation and then
commits an updated record if no other commit came between. `age` is the time since
the last state change, up to the cooldown. `current` stands for the version
comparison of the store's commit. `run` is history: consecutive committed
failures.

### Life cycle (`WorkerLifecycle`, `ShutdownCoordinator`)

`kind` tells a supervisor from a consumer. A loop is named by the start that spawned
it and its slot, so that two generations of loops could be seen side by side.
`stopping` is `stopPromise`, `restart` a `start()` that awaits it; the continuations
of one promise run back to back in the order of registration, so `StopResolves`
includes what the waiting start does. `startPromise` never spans an interleaving
point: its body has no `await`, except under an aborted signal, where it starts
nothing. A loop's sleep is `asleep` until its timer fires or a stop cancels it
(`awake`). The coordinator first awaits `stopAccepting` of every target (`awaited`),
then calls `drain` on all of them, the supervisor's being `stop`, and races them
against its timer. A server is a target with at most one request in flight, whose
`drain` may resolve at any time, reject or hang. `lastCall`, `overtaken` and `atDrain`
are history.

### Backup and keys (`StateBackup`, `ApiKeys`)

An export reads the functions in one synchronous step and the keys page by page;
`exporter` and `importer` say where the two commands are, `content` is the project
others go on changing. `PhaseAfter` is the order of an import's checks and writes:
schema, content-addressed objects, revision conflicts, existing keys, and only then
the writes, one per step, each of which may fail. `ApiKeys` keeps the three writes of
a creation apart (by token, by id, listing) and a verification's cache look-up,
storage read and cache write; `authCache[k]` is what its entry has left to live.
`SeedKey` is a start of a control plane with `RAILFOG_API_KEY` set: it writes the record by
token and nothing else, so the key works, is not listed and cannot be revoked.

### Retries (`ResilientProvider`)

`KvMethods`, `ObjectMethods` and `QueueMethods` are the methods of the three wrappers with
the way each is called: `get`, `head`, `list` and also `receive` are retried, all others are sent
once. `work[c].performed` is history: how often the backend carried
the operation out. An
attempt that fails transiently may have been performed. `ErrorClass` is the order in
which an error's signs are looked at; `Retries` says that only idempotent operations
are tried again. The breaker's caller in `Wrappers` takes its operation's outcome from
the last attempt; `NextSleeps` is the interval the random back-off is drawn from.

### Stores (`KvStores`, `KvListing`, `SdkHelpers`, `TenantKeys`, `SecretStore`)

`engine`, chosen initially, is one of SQLite, the in-memory maps, Redis, Postgres and Deno KV. A
step is what the engine does at once: SQLite and the maps whole operations; Postgres a transaction
whose `FOR UPDATE` locks the row if there is one; Redis WATCH, reads and EXEC on one connection
that all callers share; Deno KV an envelope and chunks, committed against a stamp. `KvListing`
numbers keys in the order of their encoded paths; `pager` tells a database, which sorts and
compares in one order, from the maps, which sort in another, and from Redis, whose SCAN gives all
keys of the prefix in no order and refuses the encoded cursor of a second page. `SdkHelpers` runs
one helper, chosen initially, over a store that counts versions and starts them anew after a
delete; `versioned` tells the bindings whose `list` reports versions from those that always say 1.
`TenantKeys` keeps strings as sequences of characters (`Chars`), because separators inside names
are what the properties are about; a colon and the text "%3A" are a character each, which
`getPath` makes one (`Encoded`) and `list` turns back (`Decoded`). In `SecretStore` a file is a
sequence of blocks, each named by the set that wrote it; a record decrypts only if all blocks are
of one set. `BreakOff` is a write that fails after some of them.

### Request path (`Gateway`, `RouteMatcher`, `RequestDispatch`, `CronTriggers`)

Time in `Gateway` and `CronTriggers` is a number of ticks; tokens are fractions of the
one a request costs, and `ideal` is history: the bucket without eviction. `RouteMatcher`
looks at one route of the table per step; a path is what stands after each of its slashes, nothing
(`NoText`) after the one that is "/" or the last of "/a/", and an asterisk stands for any rest, an
empty one too. `RequestDispatch` separates arrival, routing,
artifact fetch and run, since a poll may be applied between them; `chains` is the map of
call depths, `artifactCache` the bounded map of artifacts. `AnswersItself` are the requests the
server answers before it looks at a route; a poll that is applied prewarms the cache artifact by
artifact, and calls of functions that a cron timer or a message ran begin a chain of their own.
A date of `CronTriggers` is
a minute, a day and a weekday at a small width: `Matches` has the rule that a restricted
day and a restricted weekday are alternatives.

### Sandboxes and egress (`ProcessIsolation`, `LocalIsolation`, `LocalKv`, `EgressProxy`)

`ProcessIsolation` has one action per await of `run` and `execute`; a process that
answers after the deadline puts its line into a pipe nobody reads, because the process
is killed. `LocalIsolation` lets a handler that missed its deadline run on as an orphan
with the bindings it was given. Global properties are defined by a called handler
(`HandlerDefines`) or by anything else (`OtherCodeDefines`: the top level of a module while it is
imported, which is before the snapshot of the globals, orphans, timers), and those that are not
configurable survive the clean-up; the globals of `globalThis` and of `Object.prototype` are one set.
`ops` is one of the three counts a run has. `LocalKv` is its KV binding: shared values, versions per
binding. Addresses of `EgressProxy` are numbers of a few bits with the embedding of v4
into v6 kept; `Names` gives each name several possible answers, chosen anew at each
resolution.

### Commands and dev server (`CliDeploy`, `CliInstall`, `CliLogin`, `CloudQueue`, `DevReload`)

`CliDeploy` follows the versions of the source files through packaging, scanning and activation;
`serving` is what the control plane has active, which others change. `CliInstall` follows commits:
of the branch, of config and entrypoint downloaded, of the launcher, of the record. `CliLogin` is
the listener with its timer, requests that were accepted before it stopped, and the command that
awaits it. `CloudQueue` runs consumers with start and stop over a broker whose leases all
consumers remember in one bounded map; messages come one by one or in a batch, and any request to
the broker may fail. `DevReload` stamps configuration, permissions, allowlists and loaded modules
with the version of the file they come from.

## 3. Runs

Seven runs ask what holds; five show a violation of what a document, comment or test
says. Components that do not share state are checked in one run by a module that
EXTENDS them and follows one of them per behaviour: `focus`, chosen initially and never
changed, says which. The others are pinned to one initial state and do not move, so
the state spaces add up and do not multiply, and each component's properties are
checked over all of its behaviours. Where components do interact, they are composed
in a module of their own (`QueueDelivery` over `SqliteQueue`, `ResilientProvider` over
`CircuitBreaker`, `ShutdownCoordinator` over `WorkerLifecycle`, `RuntimeSnapshot` over a
control plane that numbers snapshots as `SnapshotDistribution` does).

| Run | Question | Instance |
|---|---|---|
| `Queue` | can a message get lost, be delivered too often, twice with one attempt number, be revived from the DLQ, or be dead-lettered by a consumer after success; does it always leave the queue? | two supervised workers and one consumer, one message and one too large, two receives, delays on both sides of the accepted range, one crash, four kinds of dead-letter provider |
| `ControlPlane` | can a failed, missing or superseded revision serve; do changes reach the disk; are answers fresh and does a version name one snapshot; does a backup bring back what it read, or change nothing? | `Deployment`: one function, two concurrent deploys, up to three of rollback, restore, delete, restart, settings; three timestamps, a clock that goes back, failing writes. `SnapshotDistribution`: two functions, two revisions, two handlers, two changes, one delete, one restart. `StateBackup`: one function, two keys (a page each), small and large objects, three changes by others |
| `Rollout` | can the runtime lose its snapshot, run the wrong cron timers, or hold another content under one version; can a key exceed or outlive its rights; is a failed batch taken back; is an installation of one revision? | `RuntimeSnapshot`: two projects, two overlapping polls, two changes, a restart and a crash. `ApiKeys`: two organisations, two requests, two keys, one revocation, a cache of one tick. `CliDeploy`: two functions, one edit, one deploy by another. `CliInstall`: two pushes |
| `Recovery` | does the last deployment reach the runtime; is every failure counted, does the circuit trip and close again; is a call with side effects sent once, and does it end? | one project, two overlapping polls, two changes; one wrapped and one plain caller, threshold two, three failures, one reset, one store error, three attempts |
| `Stores` | does memory only move forward, is the cache file readable, does it catch up; are commits checked, scans complete, reads whole; are tenants apart; is a secret what was set; what do the SDK helpers keep? | two refreshes, three versions, one crash; two callers on five engines; four keys and pages of one or two; names with and without separators; two secrets, two setters; two calls of a helper |
| `Lifecycle` | can loops of two starts overlap, the active count be wrong, something run after a stop or a clean shutdown; do stop, start and shutdown end; is a message dropped; does a login leave a listener? | supervisor with two loops or a consumer, five calls in any order, an abort, one server; two Cloudflare consumers, two messages, one remembered lease; two callbacks |
| `Requests` | is the rate kept, the best route chosen, the routed code run, the depth bounded; does cron fire once; are answers, processes, secrets and globals of their run; is no forbidden address reached; does the dev server catch up? | two requests, runs, callers or connections at a time; pool, warm cache, artifact cache and connection limit of one; addresses of three and six bits; every cron form at widths of two and three values; two edits |
| `RollbackRace` (violation) | does a rollback's target still exist when it is activated? | one rollback, one delete |
| `RuntimeDowngrade` (violation) | can an old answer replace a newer snapshot? | one project, two polls, three changes |
| `RuntimeControlRestart` (violation) | does the runtime still converge after the control plane restarted? | as above, one restart |
| `CacheSharedTmp` (violation) | is the cache file readable also when refreshes overlap? | two refreshes, no crash needed |
| `DevStaleImport` (violation) | is a cached module that counts as current as new as its revision? | one request, two edits |

### What is checked

A checked property that covers one component is a conjunction of named parts, each with
its own comment in its module; the type invariant of the component is one of them unless
it is listed apart. The README names the parts where it argues about them.

| Run | Property | Parts |
|---|---|---|
| `Queue` | `TypeOK`, `NoMessageLost`, `ConsumersDeadLetterFailures`, `DlqIsFinal`, `Settles` | |
| | `DeliveriesSound` | `BoundedDeliveries`, `DistinctDeliveries` |
| `ControlPlane` | `DeploymentSafe` | `ActiveServable`, `FailedNeverActive`, `NewestServes`, `DurableWhenQuiet`, `CreationOrder` |
| | `SnapshotsFresh` | `FreshFunctions`, `FreshSettings` |
| | `BackupSafe` | `ArchiveFaithful`, `ImportFaithful`, `RefusedUntouched`, `KeepsExisting` |
| | `EventuallyDurable`, `ImplementsSource` | |
| `Rollout` | `RuntimeSafe` | `CronFollowsMain`, `VersionNamesContent` |
| | `KeysSafe` | `BootstrapOnce`, `MintedInScope`, `RevokedAtOnce`, `RevokedInTime` |
| | `CliSafe` | `Compensated`, `UploadedScanned`, `PinnedOneRevision`, `UpToDateTrue` |
| | `KeepsServing` | |
| `Recovery` | `BreakerSafe` | `CountsEveryFailure`, `BelowThreshold` |
| | `RetriesSafe` | `WritesOnce`, and the cap of the sleeps in its type invariant |
| | `CallsRecover` | `Recovers`, `CallsEnd` |
| | `Converges` | |
| `Stores` | `TypeOK`, `OnlyNewer`, `NotWedged` | |
| | `CacheSafe` | `CacheReadable`, `DiskCatchesUp` |
| | `KvSafe` | `CommitsCheckedMostly`, `QuietGetWhole`, `VersionsStep`, `ScanComplete` |
| | `HelpersSafe` | `MutateSeesCurrent`, `ConflictsAreReal`, `AckedMeansDone`, `CountsAlone` |
| | `TenantsApart` | `ObjectsApart`, `ListsOwn` |
| | `SecretsSafe` | `SecretsGenuine`, `SoloSetReadable` |
| `Lifecycle` | `LoopsAccounted` | `OneGeneration`, `ActiveCount` |
| | `StopStops`, `CleanMeansIdle` | |
| | `EverythingEnds` | `StopEnds`, `StartStarts`, `ShutdownEnds`, `ConsumerStops`, `WaitEnds` |
| | `CloudQueueSound` | `OneLoop`, `NeverDropped` |
| | `LoginSound` | `NoListenerLeft`, `SavedVerified` |
| `Requests` | `GatewaySafe` | `WithinRate`, `RetryAfterHonoured` |
| | `TriggersSound` | `MostSpecificWins`, `OncePerMinute`, `FiresWhenDue` |
| | `DispatchSafe` | `RunsRoutedCode`, `OwnFunction`, `DepthBounded`, `NoCronAfterClose` |
| | `ProcessSafe` | `AnswersMatch`, `RunsSentCode`, `ProcessesAccounted` |
| | `LocalSandboxSafe` | `RunsOwnRevision`, `WarmBounded`, `SecretsDieWithRun`, `GlobalsCleaned`, `OwnWritesSeen` |
| | `EgressSafe` | `NeverForbidden`, `WithinLimit` |
| | `DevSafe` | `ConfigCatchesUp`, `AllowlistFollows` |

Each part has a mutant of the model, a plausible slip in the code it is about, that
violates it: these are the definitions whose comment begins "Mutant of".

### Why the bounds are enough

Two actors of each kind make every pairwise interleaving happen, and every hazard
listed is one of two actors, or of one actor and a crash. Counters are bounded
just above the threshold they are compared with (`MaxReceives`,
`FailureThreshold`, `TripThreshold` = 2; versions up to 3), so that "below", "at" and
"above" all occur; pools, caches and limits are of size one, so that the second entry
already meets the bound. One crash or restart at any point is every crash point; a
second adds only repetitions. Five calls of start and stop are enough for a start and a
stop that overtake a stop under way, and one more of each. `MaxEvents` bounds the sum
of the rarer requests of `Deployment`: each pair and each triple of kinds occurs, all
five together do not. Symmetry is used in `Rollout` and `Requests`, over identities that
the models only compare, and these runs check no liveness. The theorems of section 4 hold
without any of these bounds.

### Fairness

* `QueueDelivery`: the event loop runs every started worker, and time passes. Faults
  (crash, failing ack, rejecting DLQ) are not fair but may happen up to their bound
  or, for failing acks, for ever: `Settles` holds because attempts are counted.
* `Deployment`: the persist chain and accepted requests run on. No fairness for new
  requests or the clock.
* `RuntimeSnapshot`: the interval timer fires and local steps finish (weak). A
  request that is sent again and again is answered now and then, and an answer
  arrives now and then (strong): without that, a runtime that is cut off for ever
  would refute convergence.
* `DiskSnapshotCache`: timers fire and file operations end. A fetch may hang for ever.
* `CircuitBreaker`, `ResilientProvider`: callers keep calling, attempts and sleeps end
  (each has a timer), time passes; failures are bounded, since a service that fails for
  ever keeps the circuit open rightly.
* `ShutdownCoordinator`: `receive`, invocations and acks end, promises run their
  continuations, every `stopAccepting` settles and the drain timer fires. Nothing is
  assumed of the sleeps' timers (a stop must cancel them) or of the servers' drains.
* `CloudQueue`: a running consumer takes its next step. New messages, visibility
  timeouts, starts and stops are not fair.
* `CliLogin`: the listener's timer fires and accepted requests are handled; the command
  continues when its promise settles. The user and the browser owe nothing.

A run's fairness is that of its components, restricted to the one in focus. Deadlock
is checked in `Queue` and `Recovery`, whose actors never run out of work. In the others
a component stops when its bounded requests are used up, or its command has ended.

## 4. Proofs

`QueueDeliveryProofs` proves, for any sets of messages and workers, any
`MaxReceives`, delay, timeout and number of crashes:

* `TypeCorrect`;
* `DeliveriesBounded`: `DeliveriesSound`, that is `BoundedDeliveries` and `DistinctDeliveries`.
  They are not inductive alone. The invariant `IInv` adds `RowInv` (rows in the DLQ have more than
  `MaxReceives` attempts), `HeldInv` (a worker's delivery is one the row has counted, and distinct
  from every other worker's) and `InvokedInv` (the row has counted every attempt number invoked).
  A redelivery increments the row's counter in the statement that takes it, so its number is new;
* `NothingLost`: `NoMessageLost` is about workers whose `dlqProvider` stores what it
  accepts. `AckInv` says that with such a provider a worker about to ack holds a
  message that completed or was dead-lettered, so a late or duplicate ack deletes
  only a settled message;
* `DlqFinal`;
* `ConsumerDeadLetters`: `ConsumersDeadLetterFailures`, with `ConsumerInv`: a consumer
  whose function has completed is on its way to the ack and to nowhere else.

`ShutdownProofs` proves, for any finite sets of workers, servers, messages and callbacks and
any number of calls:

* `GenerationsApart`, `StoppedForGood` and `CleanIsIdle`. `LifeInv` adds to the
  properties that the flags exclude each other and loops live only while it runs or
  stops (`FlagInv`), that every spawn was paid for by a call (`BudgetInv`) and that a
  stop no waiting start overtakes leaves nothing to run (`CallInv`). `Inv` adds the
  coordinator: from the call of its drain on the supervisor does not run until the
  next spawn (`SupervisorInv`), and a drained server that does not accept has no
  request (`ServerInv`);
* `CountIsExact`: the counter is reset only when no loop lives, and decremented by
  exactly the loops that return. With `GenerationsApart` it gives `LoopsAreAccounted`,
  the property `LoopsAccounted` of the run;
* `LifecycleTypeCorrect`: with the count exact and the loops of one start, the counter stays
  between zero and the number of workers;
* `CloudQueueIsSound`: `LoopOK` ties the flags of a consumer to its loop, `HoldsOK` says
  that the broker has delivered what a consumer holds at least as often as the consumer
  believes, and that one about to ack has handled the message or counted it out. Because
  deliveries and outcomes only grow, this outlives whatever the other consumers do with the
  same message and the shared map of leases (`LeasesOK`);
* `LoginIsSound`: `LoginInv` says that the timer runs only under an open listener and that the
  configuration is written only on the way out of a verified login.

`ResilientProofs` proves, for any number of callers, thresholds, cooldown and retry policy:

* `BreakerCounts`: `BreakerSafe` is inductive with `CopyInv`. A caller that is about to
  commit holds a copy computed from the record it read; as long as nobody committed
  since (`current`), what is true of the copy is true of the record after the commit,
  and when somebody did the commit is refused;
* `WrappersUseBreaker`: whatever the resilient wrappers do is a behaviour of
  `BreakerSpec`, step by step, so `BreakerSafe` holds under retries too;
* `RetriesAreSafe`: `WorkInv` counts that a call has performed its operation at most
  once per attempt that is over, and one with side effects not before its only attempt.

`ControlPlaneProofs` proves:

* `ServesHealthyRevisions`: `ImageInv` says of three images at once, the memory, the
  image being written and the file, that pointers name healthy revisions with stored
  artifacts. It must, because a restart makes the file the memory. `JobOK` (the id of a
  deploy in flight is its own) and `FlipOK` (a rollback between its check and its flip
  has a target unless a delete came) carry the awaits. With `DurableInv`, that a write
  nothing overtook carries what memory holds, it gives `DeploymentIsSafe`, whose
  hypothesis `AllServe` excludes archives with revisions that do not serve: restoring
  such a one schedules no write;
* `SnapshotsAreFresh`: `HandlerOK` says that a build no change disturbed has read what
  is active, `CacheInv` that a fingerprint other than the dirty mark is that of the cached
  snapshot;
* `EndpointImplementsSource`: the refinement `ImplementsSource`, each step of the endpoint
  being a publication, a restart or a stutter of `SnapshotSource`;
* `BackupsAreSafe`: `ExporterOK` follows the cursor of an export, `ChecksOK` says that an
  import has changed nothing until its checks are over, `RestoresOK` what an undisturbed one
  has brought back so far.

`RolloutProofs` proves:

* `RuntimeIsSafe` and `RuntimeKeepsServing`. `KnownInv` says that until a restart every
  snapshot in memory, on disk or on its way was made by the control plane, so that two of
  one version are one;
* `KeysAreSafe`, seeded keys included. `RequestOK` carries what a request was admitted with
  through its awaits; `RevocationOK` says that after the mark only a verification that had begun
  before can put the key into the cache again, which is why the age of the revocation is counted
  from the end of the last such verification;
* `CommandsAreSafe`: the batch is activated in order and only after all of it was scanned
  (`JobInv`, `ScannedInv`), no revision to go back to is one of the batch (`ServingInv`),
  every download since the commit was resolved is of it (`FetchedInv`) and the record is
  true of the launcher (`RecordInv`).

`RequestProofs` proves:

* `GatewayIsSafe`: `KeyInv` compares the bucket with one that is never evicted. A bucket
  is evicted only after `MaxIdle` ticks, in which it fills, so starting it full again gives
  nothing away; a wait rounded up to seconds is long enough for one token;
* `ProcessesAreSafe`: `CallsInv` says that the promise chain of a process holds the calls
  on it, each once, that only its head has written, and that the pipes hold at most that
  call's message or its answer; `PoolInv` that the order of use lists the pooled keys, and
  that what is live is pooled;
* `EgressIsSafe`: an address that passed the blocker is forbidden in no way of writing it,
  and the entry of a registration never exceeds the connections it stands for (`CountInv`);
* `TriggersAreSound`: `BestSoFar` is the loop invariant of `matchRoute`, the best of the routes
  looked at and the first of the best. That a literal route of the path wins follows from
  `OnlyLiteralScores`: a pattern that matches the path has no more places that score than the path
  has (`FewerPlaces`), and each gives a literal two and anything else one. It needs the last place
  to have text: on a path that ends with a slash an asterisk scores where the literal route has
  nothing to score with. `CronInv` keeps one timer per schedule: one that has fired is not due
  again within the minute, and one that stood since the minute began and has not fired still is;
* `DispatchIsSafe`: `SnapshotsOK` says that each snapshot, in use, polled or held by a timer, is
  of the project it is kept for, `HandlerOK` what a handler carries through the awaits of
  routing, fetch and run, and `ChainOK` that the map knows at least the depth of each request
  in flight, until it is cleared (`forgot`);
* `LocalSandboxIsSafe`: `WarmFits` counts warm instances and loads together. A load evicts
  down to one below the limit before it awaits, without counting the other loads, so together
  they pass the limit by at most one less than the number of runs. `Undisturbed` says
  that until handlers overlap or miss a deadline one at most is called, and that what it found when
  it was called, or what is there when none is, was defined by other code or is not configurable;
  `BindingOK` that a set moves a binding past the version its check was read at;
* `DevServerIsSafe`: `CatchingUp` says that until a change was missed one callback runs at a
  time, and that what it has read, or what is in use, is on disk unless an event is still
  pending; `RaisesEarned` bounds the revision by the changes of the code.

`StoreProofs` proves, of the snapshot caches for any number of refreshes, versions, inodes and
crashes, of the others for any number of secrets, sets, calls, writes, keys and pages, and of
object keys for any names and keys over any alphabet:

* `CacheTypeCorrect`, with `Carrying` (a refresh past its fetch carries a version,
  one that writes has a descriptor);
* `OnlyNewerHolds`: the comparison and the assignment are one step;
* `CacheIsSafe`: `RInv` says that as long as refreshes have not clashed, at
  most one is persisting (`Single`), the temporary and the cache path name different
  inodes and a descriptor open for writing is not the cache file's (`Separate`), so
  neither truncation nor a half-done write can touch the cache file. `SInv` adds that the one
  refresh that persists carries what is in memory, so that what is in memory is on disk, on its
  way there, or its write has failed (`OnItsWay`);
* `SecretsAreSafe`: `FilesWritten` says that a file consists of blocks that sets of its own
  secret wrote, `SoloAlone` and `Readable` that an undisturbed set is alone with its file;
* `HelpersAreSafe`: `AttemptOK` says what an attempt of `mutate` knows of the entry it saw,
  `MarkersOK` that markers and answers follow the action, `CountOK` that the calls of the
  breaker helper that do not overlap see the stored count;
* `KvIsSafe`, engine by engine: a Postgres caller past its check holds the lock of the row it
  found (`LockOK`), what a Deno KV caller read is what is stored as long as no commit came in
  between (`StampOK`), and the chunks of the stored value are all there (`ChunksOK`) and read in
  order (`GettingOK`). `ScanInv` says of the pages that a database has listed each key that
  stayed exactly once up to the cursor and none beyond it, and that a scan of Redis is over or
  refused after its first page;
* `TenantsStayApart`: a key the guard lets through has no empty and no "." segment (`Clean`), so
  `getPath` drops none of its characters (`CleanPath`) and the path is the key with its colons
  encoded. Organisation, project and bucket have no slash, so the path splits into them in one way
  only (`SegmentsSplit`, `TenantsSplit`): `FilesInv` says that every file's path is that of its
  own tenant, bucket and key, and two puts that meet in one file are of one tenant, bucket and
  key, or of two that the encoding makes one (`SameName`, which is equality of all names without
  "%3A").

The proofs rest on the named assumptions on constants stated in the modules, which TLC
evaluates in the runs. Most say that a bound is a number, a set is finite or a placeholder
is none of the values it stands in for (`SnapshotSentinels`, `NoSnapshotIsNone`,
`NoneIsNoImage`). The others are properties of the configuration: the first back-off
is not above the cap (`ResilientConstants`), a bucket holds a token and fills before
it may be evicted (`GatewayConstants`), the v6 blocklist has `::` and `::1` of its own
(`OwnRanges`), the marks of parameters, wildcards and missing text are not literals
(`MatcherConstants`), an artifact belongs to one project (`DispatchConstants`), and an archive
does not contradict itself: what serves was deployed, and one id is one record
(`DeploymentConstants`). The bounds the
models put on counters (`Max...`) are arbitrary numbers in the theorems.

Every safety property of the runs is a theorem (`DeploymentSafe` for archives whose revisions
serve, see `DeploymentIsSafe`). Only model-checked are:

* liveness under fairness: `Settles`, `EventuallyDurable`, `Converges`, `CallsRecover`,
  `NotWedged` and `EverythingEnds`, which, like `ENABLED`, is outside the prover. TLC checks
  them on the instances of section 3;
* the focus of the composed runs: a theorem is about a component's own specification, the
  run about that component while it is in focus.

## 5. What the runs found

Each violation run states what a document, comment or test of the repository says:

* `RollbackRace`: rollback checks its target, awaits, then activates it; a delete
  in between leaves a pointer to nothing.
* `RuntimeDowngrade`: the runtime compares an answer with the snapshot it read
  before the request, so the late answer of a poll that was cut off can replace a
  newer snapshot.
* `RuntimeControlRestart`: versions begin again at one when the control plane
  restarts; runtimes ignore its snapshots until the number passes theirs.
* `CacheSharedTmp`: overlapping refreshes share one temporary path; one renames
  what the other is still writing.
* `DevStaleImport`: a module is stamped with the revision counter after its import, so
  a file change during the import makes the stale module current.

Modelling showed more behaviour that the models contain and the properties
therefore exclude explicitly, with the line that causes it.

Queue, deployment, snapshots, breaker and life cycle:

* A supervised worker whose ack fails at the last attempt dead-letters a message its
  function processed (`worker-supervisor.ts:318`); `ConsumersDeadLetterFailures`
  holds of consumers only.
* Without a `dlqProvider`, or with the SQLite provider's own `deadLetter` as one, an
  exhausted message is acked and gone (`worker-supervisor.ts:326-335`); `NoMessageLost`
  is about a durable one.
* A deploy is answered before its state is on disk (`deployment-service.ts:202`), a
  write that fails is not tried again, and restoring an inactive revision schedules
  no write (`deployment-service.ts:591`).
* After a rollback the cutover compares with the pointer, not with the newest
  revision, so an older deploy still in flight may take the traffic
  (`deployment-service.ts:415`); `NewestServes` is about a project without rollbacks.
* Ids are monotonic within one life of the process only (`deployment-service.ts:249`).
* The dirty mark is the fingerprint of a project that serves nothing, so its new
  routes are not published (`control-server.ts:441`), and a delete marks nothing
  (`control-server.ts:750`).
* The runtime's cache file is overwritten in place, so a crash in the middle leaves a
  cold start without a snapshot (`runtime-server.ts:161`); the cron timers of an
  undeployed project stay (`runtime-server.ts:643`).
* A trial call that ends after the circuit has closed is still counted as a trial
  (`circuit-breaker.ts:113`, `:159`): one late failure opens it, one late success makes
  it half-open. All callers after the cooldown are admitted, not one
  (`circuit-breaker.ts:207`). When the store rejects the record of a success, a failure
  is recorded (`circuit-breaker.ts:210`).
* A `stop()` called while a `start()` waits for an earlier stop joins that stop, and the
  waiting start spawns its loops afterwards: the last call was stop, and workers run
  (`worker-supervisor.ts:151`); `StopStops` excludes it by `overtaken`. A consumer
  ignores a `start()` during a stop instead (`queue-consumer.ts:80`).
* The coordinator awaits `stopAccepting` without a time limit, so a target that hangs
  there blocks the shutdown (`shutdown-coordinator.ts:143`); a rejection of it is
  swallowed, and a clean result says nothing about that target. After the drain timer
  nothing is closed, and `forceTimeoutMs` is not used.

Control plane, keys and backup:

* Two first requests may both find no key and both create one (`control-server.ts:525`);
  `BootstrapOnce` is about requests that come after a key was handed out. A crash or a
  lost answer after the listing was written locks anonymous creation with no usable key.
* The key of `RAILFOG_API_KEY` is written under `_auth/tokens` only (`control-server.ts:1351-1365`):
  it works, but `hasAnyKeys` does not see it, so anonymous creation stays open although the comment
  at `control-server.ts:522-524` allows it only "while the store has zero keys", and no route can
  revoke it. `BootstrapOnce` counts from the first key that the key route handed out. The model takes
  the variable's value for a token that the store did not make itself; every start writes the same
  record again.
* A verification that read storage before a revocation can put the key back into the
  cache until its time to live ends (`packages/auth/store.ts:172`); a failed delete from
  the cache is ignored (`:211`). Keys made by a revoked key stay valid.
* An import is not atomic when storage fails between its writes, the check for existing
  keys and the write of a key are apart, versions and times to live are not in the
  archive, nor are the artifacts of revisions (`state-backup-service.ts:441-540`).

Stores:

* Postgres locks no row that is not there, so two creations of one key may both pass
  their check (`postgres-provider.ts:369`); Redis callers share one connection, so a
  WATCH of one covers or clears that of another (`redis-provider.ts:309`), and a set
  reads the version before it writes (`:115`). `CommitsCheckedMostly` names exactly these.
* Versions restart after a delete or an expiry, so a version read before may match again.
* The in-memory maps sort with `localeCompare` and compare the cursor by code unit
  (`redis-provider.ts:235`, `postgres-provider.ts:290`); `ScanComplete` holds of them where
  the two orders agree. The Redis SCAN loop is given the encoded cursor of the page before, which
  Redis refuses (`redis-provider.ts:187`), so a list there has one page. LIKE treats `%` and `_` in
  a prefix as wildcards (`sqlite-provider.ts:128`, `postgres-provider.ts:246`), so a list may hold
  keys outside the prefix: `ScanComplete` says that no key of the prefix is missing or there twice.
* Redis reads the entry a second time before it writes (`redis-provider.ts:350`); the model has both
  reads.
* `getPath` writes ':' as "%3A" and `list` reads every "%3A" as ':' (`local-fs-provider.ts:36-39`,
  `:143`), and the guard accepts both, so `a:b` and `a%3Ab` are one file and one of them is listed
  under the other's name. `ObjectsApart` and `ListsOwn` exempt exactly names with "%3A" in them.
* Deno KV's get reads the envelope and the chunks separately (`deno-deploy-provider.ts:189`);
  `QuietGetWhole` is about reads without a concurrent write.
* No provider's `list` reports versions and the binding then says 1
  (`permission-resolver.ts:225`), so `mutate` fails from the third update of a key on,
  with nobody interfering (`helpers.ts:334`); `ConflictsAreReal` excludes it.
  `withIdempotency` claims nothing before its action, so overlapping deliveries both
  run it, where `docs/sdk-guide.md:243` says "Guarantees exactly-once execution". Overlapping
  calls of the SDK's `withCircuitBreaker` overwrite each other's count, even an open circuit.
* A crash, a write that breaks off or an overlapping set leaves a secret that cannot be decrypted
  (`secret-store.ts:326`).
* The resilient wrappers retry a `receive` (`resilient-provider.ts`), so a delivery whose answer was
  lost counts as an attempt of its message. A `RailFogError` keeps its class, whatever it is; in
  `ErrorClass` that class is its one sign.
* The KV binding of the local sandbox counts versions per invocation, so a checked commit
  does not notice another invocation's write (`local-isolation.ts:151`).

Request path:

* The entry of a call chain stays in the map after its request has ended, and a full map is
  cleared (`runtime-server.ts:190`); `DepthBounded` is about a map that was not. A project
  without a route of its own is served by the main project's function. Runs of cron timers and
  messages pass no depth on, so a chain that they begin starts anew (`runtime-server.ts:320-328`,
  `:525-535`). Which of the functions of a queue gets a message (`:452-476`) is left open.
* A poll that ends after `close()` still sets cron timers; their callbacks see that the
  server is closed. Accepting snapshots more often than once a minute resets the timers
  before they fire; `FiresWhenDue` is about a timer that stood through the minute.
* An asterisk that stands for nothing still scores one: the route "/*" takes "/" from the route
  "/", which scores none, and "/a/*" takes "/a/" from "/a/" (`route-matcher.ts:21-31`, `:49-72`);
  `MostSpecificWins` promises the literal route only on a path that does not end with a slash.
* An optional segment makes a route outscore a literal of the same length
  (`route-matcher.ts:8`); the tables checked have none.
* Evicting a process kills it though a call is running on it (`process-isolation.ts:388`);
  the deadline covers neither the load of a module nor the reading of the body. Concurrent
  loads exceed `maxWarmInstances` by the number of loaders (`local-isolation.ts:727`).
* The globals are noted after the module was imported (`local-isolation.ts:763`, `:1016`) and
  properties that cannot be deleted stay (`:1140-1156`), so what a module defines at its top level,
  and what is not configurable, is seen by every later run; background work that a handler leaves may
  define more after the clean-up. `GlobalsCleaned` is about what is left of a handler's own.
  Overwritten values of existing properties are not followed. The files of local loads are named by
  joining sanitised names and a generation (`:748-756`); the model takes them as distinct, which the
  platform's unique revision ids make them.
* A forwarded request stops counting when its response head is there, so more connections
  may be open than the limit (`egress-proxy.ts:706`). The texts of addresses are parsed by the code
  and are numbers in the model; an answer that cannot be parsed is blocked
  (`egress-ip-blocker.ts:335`). Neither the proxy nor the guarded
  object provider is constructed by the servers; they are checked as libraries.
* A refused dead letter is still acked, a consumer may ack with the lease of a later
  delivery, and a lease that fell out of the map is replaced by the message id
  (`cloudflare-queue-provider.ts:472`); a start during a stop is ignored.

Commands and dev server:

* Over HTTP a batch that fails half way is not taken back, and a lost answer leaves an
  activated function unlisted; the compensation may overwrite what another deployed
  meanwhile; the static analysis reads the sources again (`cli/deploy.ts:820`, `:1002`).
* A verification that fails, or a record that cannot be written, leaves the new launcher
  with the old record, and `upgrade` then says "up to date"; an unresolved ref downloads
  config and entrypoint at two moments (`scripts/install.ts:248`, `:483`).
* A callback that was accepted while the listener closes is answered with success though
  its token is not used (`cli/callback-server.ts:234`).
* A railfog.toml event that falls out of the watcher's buffer, or overlapping reloads, leave an
  old configuration; one bad declaration stops a reload before the allowlists are collected; a
  request takes its bindings before its awaits and its allowlist and environment after them
  (`local-server.ts:575`, `:726-731`), so it may combine two configurations, and
  `AllowlistFollows` is about the maps, not about one request; continuous edits postpone the
  reload for ever (`watcher.ts:113`, `local-server.ts:893`).

## 6. Not modelled, and what could follow

What the plan named is modelled, and its safety properties are proved. What could follow:

* liveness proofs, once a prover for them is at hand: the argument for `Settles` is a measure
  (attempts left, then time to visibility), that for `EverythingEnds` a chain of `leads to`
  steps along the promises;
* the meaning of strings where a model starts after parsing: the text of cron expressions and
  route patterns, which needs an induction over characters the prover does not have.

Not modelled, with the reason:

* The health checker's probes (their verdict is left open), the Cloudflare KV and R2
  providers and multipart uploads (requests to a remote service, no state of their own),
  gVisor (starts an external sandbox), metrics and usage (sums nothing else reads), the SDK
  client and wrapper, function loading (`loadFunction` has no caller).
* Terminal output, prompts and templates (`cli/ui.ts`, `cli/prompt.ts`, `cli/spinner.ts`,
  `apps/api/login-page.ts`, the dev dashboard), `rail check` and the other commands of one
  request, release scripts, text parsing of the configuration and log redaction: they keep
  no state and no step of them interleaves with another.
* `packages/policy/rate-limiter.ts`, a second limiter that no server constructs.
* Payload contents, formats of ids other than their order, and cryptography are abstracted
  everywhere.
