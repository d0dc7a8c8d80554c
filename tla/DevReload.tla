----------------------------- MODULE DevReload ------------------------------
(***************************************************************************)
(* Hot reload in `rail dev`: the watcher collects file events and hands    *)
(* them over after a quiet interval; the callback reads railfog.toml and   *)
(* rebuilds routes, permissions and secret allowlists, and drops the       *)
(* loaded modules when a function changed.  Requests meanwhile look up     *)
(* the configuration, wait for the file system and for import(), and keep  *)
(* what they imported.                                                     *)
(***************************************************************************)
EXTENDS Naturals, Sequences, FiniteSets, SequencesExt

CONSTANTS DevFns,        \* the functions of the project
          DevRequests,   \* requests in flight at once
          Reloads,       \* bound: callbacks of the watcher running at once
          MaxEdits,      \* bound: edits of each of the two files
          MaxPending,    \* MAX_PENDING_EVENTS
          Unset          \* nothing cached

ASSUME DevAssumption == MaxEdits \in Nat /\ MaxPending \in Nat \ {0} /\ Unset \notin Nat
                           /\ IsFiniteSet(DevFns) /\ IsFiniteSet(Reloads)

VARIABLES
  files,      \* on disk: the version of railfog.toml, the declarations in it that do not resolve, and the version of the code
  watch,      \* pendingEvents and the debounce timer of the watcher, and whether it has stopped
  reloads,    \* the running callbacks
  dev,        \* currentConfig, cachedPermissions and fnSecrets (as the version they come from) and revCounter
  loaded,     \* loadedModules: the entry of the function, with its revision
  imported,   \* the module cache of import(), by the ?v= of the URL
  calls       \* the requests

devVars == <<files, watch, reloads, dev, loaded, imported, calls>>

Versions == 0..MaxEdits
Opt(S) == S \cup {Unset}
Module == [rev : Versions, code : Versions]
IdleReload == [pc |-> "idle", toml |-> 0, bad |-> {}, code |-> FALSE]
DevIdle == [pc |-> "idle", old |-> Unset, url |-> 0, ran |-> Unset]

\* partial: history, the last reload stopped at a declaration that does not resolve.
\* missed: history, a change of railfog.toml was pushed out of the buffer or reloads overlapped.
\* since: history, the code on disk when revCounter was last raised.
DevTypeOK ==
  /\ files \in [toml : Versions, bad : SUBSET DevFns, code : Versions]
  /\ watch.pending \in Seq({"toml", "code"}) /\ Len(watch.pending) <= MaxPending
  /\ watch.timer \in BOOLEAN /\ watch.stopped \in BOOLEAN /\ (watch.timer => watch.pending # <<>>)
  /\ reloads \in [Reloads -> [pc : {"idle", "reading", "read"}, toml : Versions, bad : SUBSET DevFns, code : BOOLEAN]]
  /\ dev \in [config : Versions, bad : SUBSET DevFns, perms : [DevFns -> Opt(Versions)], secrets : [DevFns -> Versions],
              rev : Versions, since : Versions, partial : BOOLEAN, missed : BOOLEAN]
  /\ loaded \in Opt(Module)
  /\ imported \in [Versions -> Opt(Versions)]
  /\ calls \in [DevRequests -> [pc : {"idle", "stat", "load", "import", "evaluated"}, old : Opt(Versions),
                                url : Versions, ran : Opt(Versions)]]

\* startLocalServer, with a configuration that resolves.
DevInit ==
  /\ files = [toml |-> 0, bad |-> {}, code |-> 0]
  /\ watch = [pending |-> <<>>, timer |-> FALSE, stopped |-> FALSE]
  /\ reloads = [r \in Reloads |-> IdleReload]
  /\ dev = [config |-> 0, bad |-> {}, perms |-> [f \in DevFns |-> 0], secrets |-> [f \in DevFns |-> 0],
            rev |-> 0, since |-> 0, partial |-> FALSE, missed |-> FALSE]
  /\ loaded = Unset /\ imported = [v \in Versions |-> Unset] /\ calls = [c \in DevRequests |-> DevIdle]

----------------------------------------------------------------------------
\* The watcher.

\* The newest events are kept.
Pushed(events, e) == IF Len(events) < MaxPending THEN Append(events, e) ELSE Append(Tail(events), e)

\* An event: the buffer grows and the timer starts again.
Noticed(kind, missed) ==
  IF watch.stopped THEN UNCHANGED <<watch, dev>>
  ELSE /\ watch' = [watch EXCEPT !.pending = Pushed(watch.pending, kind), !.timer = TRUE]
       /\ dev' = [dev EXCEPT !.missed = dev.missed \/ missed]

EditToml(bad) ==
  /\ files.toml < MaxEdits
  /\ files' = [files EXCEPT !.toml = files.toml + 1, !.bad = bad]
  /\ Noticed("toml", FALSE)
  /\ UNCHANGED <<reloads, loaded, imported, calls>>

EditCode ==
  /\ files.code < MaxEdits
  /\ files' = [files EXCEPT !.code = files.code + 1]
  /\ Noticed("code", Contains(watch.pending, "toml") /\ ~Contains(Pushed(watch.pending, "code"), "toml"))
  /\ UNCHANGED <<reloads, loaded, imported, calls>>

\* A function changed: the next import gets a new URL and what was loaded is dropped.
CodeReloaded(d) == [d EXCEPT !.rev = d.rev + 1, !.since = files.code]

\* Mutant of Batch: a batch with a change of railfog.toml is only that.
BatchToml(events) ==
  [toml |-> Contains(events, "toml") /\ ~Contains(events, "code"), code |-> Contains(events, "code")]

\* What a batch of events asks for.
Batch(events) == [toml |-> Contains(events, "toml"), code |-> Contains(events, "code")]

\* The quiet interval is over: the events are taken and the callback runs up to its first await.
DebounceFires(r) ==
  /\ watch.timer /\ ~watch.stopped /\ reloads[r].pc = "idle"
  /\ watch' = [watch EXCEPT !.pending = <<>>, !.timer = FALSE]
  /\ LET batch == Batch(watch.pending) IN
     IF batch.toml
     THEN /\ reloads' = [reloads EXCEPT ![r].pc = "reading", ![r].code = batch.code]
          /\ dev' = [dev EXCEPT !.missed = \E o \in Reloads : reloads[o].pc # "idle"]
          /\ UNCHANGED loaded
     ELSE /\ dev' = IF batch.code THEN CodeReloaded(dev) ELSE dev
          /\ loaded' = IF batch.code THEN Unset ELSE loaded
          /\ UNCHANGED reloads
  /\ UNCHANGED <<files, imported, calls>>

ReadToml(r) ==
  /\ reloads[r].pc = "reading"
  /\ reloads' = [reloads EXCEPT ![r].pc = "read", ![r].toml = files.toml, ![r].bad = files.bad]
  /\ UNCHANGED <<files, watch, dev, loaded, imported, calls>>

\* Mutant of Collected: the allowlists are collected at start only.
CollectedOnce(v) == dev.secrets

\* collectSecrets for every function of the new configuration.
Collected(v) == [f \in DevFns |-> v]

\* The new configuration is in place at once.  Permissions are resolved in the order of the file: the
\* first declaration that does not resolve ends the reload, before the secrets are collected.
Configured(r, done) ==
  LET v == reloads[r].toml
      bad == reloads[r].bad
  IN IF bad = {}
     THEN [dev EXCEPT !.config = v, !.bad = {}, !.perms = [f \in DevFns |-> v], !.secrets = Collected(v), !.partial = FALSE]
     ELSE [dev EXCEPT !.config = v, !.bad = bad, !.perms = [f \in DevFns |-> IF f \in done THEN v ELSE Unset], !.partial = TRUE]

\* The rest of the callback; a change of the functions in the same batch comes after it.
ApplyToml(r, done) ==
  /\ reloads[r].pc = "read" /\ done \cap reloads[r].bad = {}
  /\ dev' = IF reloads[r].code THEN CodeReloaded(Configured(r, done)) ELSE Configured(r, done)
  /\ loaded' = IF reloads[r].code THEN Unset ELSE loaded
  /\ reloads' = [reloads EXCEPT ![r] = IdleReload]
  /\ UNCHANGED <<files, watch, imported, calls>>

\* railfog.toml cannot be read or parsed: the old configuration goes on.
TomlUnreadable(r) ==
  /\ reloads[r].pc = "read" /\ reloads[r].bad # {}
  /\ dev' = IF reloads[r].code THEN CodeReloaded(dev) ELSE dev
  /\ loaded' = IF reloads[r].code THEN Unset ELSE loaded
  /\ reloads' = [reloads EXCEPT ![r] = IdleReload]
  /\ UNCHANGED <<files, watch, imported, calls>>

\* close(): the watcher stops; requests and a running callback end on their own.
StopWatching ==
  /\ ~watch.stopped
  /\ watch' = [pending |-> <<>>, timer |-> FALSE, stopped |-> TRUE]
  /\ UNCHANGED <<files, reloads, dev, loaded, imported, calls>>

----------------------------------------------------------------------------
\* A request for the function f.

\* Routing and permissions, resolved now when the last reload did not get that far; then the entry is looked for.
DevArrive(c, f) ==
  /\ calls[c].pc = "idle"
  /\ IF dev.perms[f] # Unset THEN UNCHANGED dev /\ calls' = [calls EXCEPT ![c].pc = "stat"]
     ELSE IF f \in dev.bad THEN UNCHANGED <<dev, calls>>
     ELSE /\ dev' = [dev EXCEPT !.perms[f] = dev.config, !.secrets[f] = dev.config]
          /\ calls' = [calls EXCEPT ![c].pc = "stat"]
  /\ UNCHANGED <<files, watch, reloads, loaded, imported>>

\* The handler runs with a fresh context and its answer, or its error, is sent.  The context is
\* not followed: it joins the permissions that DevArrive found, before the awaits, with the
\* allowlist and the [env] table of now, and a reload in between makes them of two configurations.
Ran(code) == [DevIdle EXCEPT !.ran = code]

\* The cached module, when it is of this revision, else the file is looked at again.
LookUp(c) ==
  /\ calls[c].pc = "stat"
  /\ calls' = [calls EXCEPT ![c] =
       IF loaded # Unset /\ loaded.rev = dev.rev THEN Ran(loaded.code)
       ELSE [DevIdle EXCEPT !.pc = "load", !.old = IF loaded = Unset THEN Unset ELSE loaded.rev]]
  /\ UNCHANGED <<files, watch, reloads, dev, loaded, imported>>

\* import(): the URL carries the revision of now.
ImportBegins(c) ==
  /\ calls[c].pc = "load"
  /\ calls' = [calls EXCEPT ![c].pc = "import", ![c].url = dev.rev]
  /\ UNCHANGED <<files, watch, reloads, dev, loaded, imported>>

\* The source is read once for each URL.
SourceRead(c) ==
  /\ calls[c].pc = "import"
  /\ calls' = [calls EXCEPT ![c].pc = "evaluated"]
  /\ imported' = [imported EXCEPT ![calls[c].url] = IF @ = Unset THEN files.code ELSE @]
  /\ UNCHANGED <<files, watch, reloads, dev, loaded>>

\* The entry is stamped with the revision of now, which may be newer than that of the URL.
Stamp(c) == dev.rev

\* A newer entry seen before the import is not replaced.
ImportEnds(c) ==
  /\ calls[c].pc = "evaluated"
  /\ LET fn == [rev |-> Stamp(c), code |-> imported[calls[c].url]] IN
     /\ loaded' = IF calls[c].old = Unset \/ calls[c].old <= dev.rev THEN fn ELSE loaded
     /\ calls' = [calls EXCEPT ![c] = Ran(fn.code)]
  /\ UNCHANGED <<files, watch, reloads, dev, imported>>

\* The module does not load or exports no handler.
ImportFails(c) ==
  /\ calls[c].pc \in {"load", "import"} /\ calls' = [calls EXCEPT ![c] = DevIdle]
  /\ UNCHANGED <<files, watch, reloads, dev, loaded, imported>>

DevNext ==
  \/ EditCode \/ StopWatching \/ \E bad \in SUBSET DevFns : EditToml(bad)
  \/ \E r \in Reloads : DebounceFires(r) \/ ReadToml(r) \/ TomlUnreadable(r) \/ \E done \in SUBSET DevFns : ApplyToml(r, done)
  \/ \E c \in DevRequests :
       \/ LookUp(c) \/ ImportBegins(c) \/ SourceRead(c) \/ ImportEnds(c) \/ ImportFails(c)
       \/ \E f \in DevFns : DevArrive(c, f)

DevSpec == DevInit /\ [][DevNext]_devVars

----------------------------------------------------------------------------
\* Nothing is pending and no reload runs.
ReloadQuiet == ~watch.stopped /\ watch.pending = <<>> /\ \A r \in Reloads : reloads[r].pc = "idle"

\* Once the watcher is quiet the server runs the railfog.toml on disk (when its declarations
\* resolve), whatever edits and reloads interleaved - unless the change was pushed out of the
\* event buffer or reloads overlapped.
ConfigCatchesUp == ReloadQuiet /\ ~dev.missed /\ files.bad = {} => dev.config = files.toml

\* "ctx.env exposes ONLY names declared": the allowlist of a function comes from the same
\* configuration as its permissions, unless the reload stopped at another function's declaration.
\* This is about the server's two maps; see Ran for the context of a request in flight.
AllowlistFollows ==
  ~dev.partial => \A f \in DevFns : dev.perms[f] # Unset => dev.secrets[f] = dev.perms[f]

\* "the loser cannot poison the cache with stale code": a loaded module that counts as current is
\* not older than the change that raised the revision.  False: the entry is stamped after the
\* await, with the revision that a reload has raised meanwhile.
LoserNeverPoisons == loaded # Unset /\ loaded.rev = dev.rev => loaded.code >= dev.since

\* The development server catches up with its files once its watcher is quiet, and
\* the permissions and the allowlist of a function come from one configuration.
DevSafe == DevTypeOK /\ ConfigCatchesUp /\ AllowlistFollows
=============================================================================
