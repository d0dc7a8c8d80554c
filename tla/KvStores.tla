----------------------------- MODULE KvStores -----------------------------
(***************************************************************************)
(* One key of the key-value providers (providers/kv): SQLite, the          *)
(* in-memory maps of the Redis and Postgres providers, Postgres, Redis and *)
(* Deno KV, used by concurrent callers of one process.  Each caller sets,  *)
(* deletes, reads, or commits a compare-and-set with a version it knows.   *)
(*                                                                         *)
(* A step is what the engine does at once.  SQLite and the maps run a      *)
(* whole operation without an await.  The databases themselves (row locks, *)
(* WATCH and EXEC on one connection, version stamps) are modelled from how *)
(* the providers use them.                                                 *)
(***************************************************************************)
EXTENDS Naturals, FiniteSetsExt

CONSTANTS KvCallers,
          Small, Big, Huge,      \* values; Deno KV keeps the last two in chunks
          NoValue,
          MaxKvVersion,            \* bound: no write beyond this version
          MaxCasRetries

ASSUME KvConstants ==
  /\ MaxKvVersion \in Nat \ {0} /\ MaxCasRetries \in Nat \ {0}
  /\ NoValue \notin KvCallers \cup {Small, Big, Huge}
  /\ Small # Big /\ Big # Huge /\ Small # Huge

Engines == {"sqlite", "memory", "postgres", "redis", "deno"}
Values == {Small, Big, Huge}
ChunkCount(v) == CASE v = Big -> 1 [] v = Huge -> 2 [] OTHER -> 0
Expiry == {"never", "pending", "over"}

VARIABLES
  engine,
  row,       \* what the key holds; version 0 for nothing
  chunks,    \* Deno KV: the chunks stored under the key
  users,     \* caller -> how far its operation is
  rowLock,   \* Postgres: the caller whose transaction holds the row
  watch,     \* Redis: the watched state of the connection
  misled     \* history: the commits whose expected version was not the stored one

kvVars == <<engine, row, chunks, users, rowLock, watch, misled>>

Rows == [version : 0..MaxKvVersion, value : Values \cup {NoValue}, expiry : Expiry]
NoRow == [version |-> 0, value |-> NoValue, expiry |-> "never"]
Ops == {"set", "setTtl", "delete", "get", "commit"}
User == [pc : {"idle", "read", "checked", "chunks", "got"}, op : Ops, value : Values,
         expected : 0..MaxKvVersion,
         seen : [version : 0..MaxKvVersion, value : Values \cup {NoValue}],   \* what it read
         fresh : BOOLEAN,                             \* no write since then
         tries : 0..MaxCasRetries - 1,
         answer : [1..2 -> Values \cup {NoValue}]]    \* the chunks it got
NoChunks == [i \in 1..2 |-> NoValue]
Nothing == [version |-> 0, value |-> NoValue]
IdleUser == [pc |-> "idle", op |-> "get", value |-> Small, expected |-> 0, seen |-> Nothing,
             fresh |-> FALSE, tries |-> 0, answer |-> NoChunks]

KvTypeOK ==
  /\ engine \in Engines /\ row \in Rows
  /\ chunks \in [1..2 -> Values \cup {NoValue}]
  /\ users \in [KvCallers -> User]
  /\ rowLock \in KvCallers \cup {NoValue}
  /\ watch \in {"none", "clean", "dirty"}
  /\ misled \subseteq (Engines \X {"create", "update"})

KvInit ==
  /\ engine \in Engines /\ row = NoRow /\ chunks = NoChunks
  /\ users = [c \in KvCallers |-> IdleUser]
  /\ rowLock = NoValue /\ watch = "none" /\ misled = {}

----------------------------------------------------------------------------
LiveVersion == IF row.expiry = "over" THEN 0 ELSE row.version
ReadRow == [version |-> row.version, value |-> row.value]
OwnExpiry(op) == IF op = "setTtl" THEN "pending" ELSE "never"

\* SQLite's commit and the maps remove what has expired before they look at versions.
Purged(op) == IF engine = "memory" \/ (engine = "sqlite" /\ op = "commit")
              THEN IF row.expiry = "over" THEN NoRow ELSE row
              ELSE row

NewRow(op, v, base) ==
  IF op = "delete" THEN NoRow
  ELSE [version |-> base + 1, value |-> v, expiry |-> OwnExpiry(op)]

\* A write outdates what others have read, and dirties what is watched.
Wrote(c) ==
  /\ users' = [x \in KvCallers |-> IF x = c THEN IdleUser ELSE [users[x] EXCEPT !.fresh = FALSE]]
  /\ watch' = IF watch = "clean" THEN "dirty" ELSE watch

\* A row may expire after its version was checked.
Judged(c) ==
  misled' = IF users[c].op = "commit" /\ users[c].expected \notin {LiveVersion, row.version}
            THEN misled \cup {<<engine, IF users[c].expected = 0 THEN "create" ELSE "update">>}
            ELSE misled

Begin(c, op, v, expected) ==
  /\ users[c].pc = "idle"
  /\ users' = [users EXCEPT ![c] = [IdleUser EXCEPT !.pc = "read", !.op = op, !.value = v, !.expected = expected]]
  /\ UNCHANGED <<engine, row, chunks, rowLock, watch, misled>>

Leave(c) == users' = [users EXCEPT ![c] = IdleUser]

----------------------------------------------------------------------------
(* SQLite, the in-memory maps, and the single statements of Postgres and Redis. *)

SqliteAtOnce(c) == engine = "sqlite" /\ users[c].op # "get"
MapAtOnce(c) == engine = "memory" /\ users[c].op # "get"
PostgresAtOnce(c) ==
  engine = "postgres" /\ users[c].op \in {"set", "setTtl", "delete"} /\ rowLock = NoValue
RedisAtOnce(c) == engine = "redis" /\ users[c].op = "delete"

AtOnce(c) == SqliteAtOnce(c) \/ MapAtOnce(c) \/ PostgresAtOnce(c) \/ RedisAtOnce(c)

\* Mutant of Apply: a version is not compared.
ApplyUnchecked(c) ==
  /\ AtOnce(c) /\ users[c].pc = "read"
  /\ row' = NewRow(users[c].op, users[c].value, Purged(users[c].op).version)
  /\ Wrote(c) /\ Judged(c)
  /\ UNCHANGED <<engine, chunks, rowLock>>

\* Mutant of Apply: a plain set starts the versions again.
ApplyRestarts(c) ==
  /\ AtOnce(c) /\ users[c].pc = "read"
  /\ users[c].op = "commit" => LiveVersion = users[c].expected
  /\ row' = NewRow(users[c].op, users[c].value, IF users[c].op = "set" THEN 0 ELSE Purged(users[c].op).version)
  /\ Wrote(c) /\ Judged(c)
  /\ UNCHANGED <<engine, chunks, rowLock>>

ApplyCommit(c) ==
  /\ AtOnce(c) /\ users[c].pc = "read"
  /\ users[c].op = "commit" => LiveVersion = users[c].expected
  /\ row' = NewRow(users[c].op, users[c].value, Purged(users[c].op).version)
  /\ Wrote(c) /\ Judged(c)
  /\ UNCHANGED <<engine, chunks, rowLock>>

\* A commit whose check fails; SQLite rolls its purge back, the maps keep it.
Mismatch(c) ==
  /\ AtOnce(c) /\ users[c].pc = "read" /\ users[c].op = "commit" /\ LiveVersion # users[c].expected
  /\ row' = IF engine = "memory" THEN Purged("commit") ELSE row
  /\ Leave(c)
  /\ UNCHANGED <<engine, chunks, rowLock, watch, misled>>

\* get: one read, unless the value is in chunks.  SQLite and the maps also remove
\* the row they find expired.
Get(c) ==
  /\ users[c].pc = "read" /\ users[c].op = "get"
  /\ row' = IF engine \in {"sqlite", "memory"} /\ row.expiry = "over" THEN NoRow ELSE row
  /\ users' = [users EXCEPT ![c] =
       [users[c] EXCEPT !.pc = IF engine = "deno" /\ LiveVersion > 0 /\ ChunkCount(row.value) > 0 THEN "chunks" ELSE "got",
                        !.seen = IF LiveVersion = 0 THEN Nothing ELSE ReadRow,
                        !.fresh = TRUE]]
  /\ UNCHANGED <<engine, chunks, rowLock, watch, misled>>

Got(c) ==
  /\ users[c].pc = "got"
  /\ Leave(c)
  /\ UNCHANGED <<engine, row, chunks, rowLock, watch, misled>>

----------------------------------------------------------------------------
(* Postgres: commit is a transaction.  The check locks the row, if there is one. *)

PostgresCheck(c) ==
  /\ engine = "postgres" /\ users[c].pc = "read" /\ users[c].op = "commit" /\ rowLock = NoValue
  /\ IF LiveVersion = users[c].expected
       THEN /\ users' = [users EXCEPT ![c].pc = "checked"]
            /\ rowLock' = IF row.version > 0 THEN c ELSE NoValue
       ELSE Leave(c) /\ UNCHANGED rowLock
  /\ UNCHANGED <<engine, row, chunks, watch, misled>>

\* The upsert takes the row as it is then.
PostgresCommit(c) ==
  /\ engine = "postgres" /\ users[c].pc = "checked" /\ rowLock \in {c, NoValue}
  /\ row' = NewRow("commit", users[c].value, row.version)
  /\ rowLock' = NoValue
  /\ Wrote(c) /\ Judged(c)
  /\ UNCHANGED <<engine, chunks>>

----------------------------------------------------------------------------
(* Redis: a plain set reads the version and writes later; a commit watches the   *)
(* key on the one connection of the provider.                                    *)

\* GET of the version that is written: of a set, and of a commit once it is checked.
RedisRead(c) ==
  /\ engine = "redis"
  /\ \/ users[c].pc = "read" /\ users[c].op \in {"set", "setTtl"}
     \/ users[c].pc = "checked" /\ users[c].op = "commit"
  /\ users' = [users EXCEPT ![c].pc = "checked", ![c].seen = ReadRow]
  /\ UNCHANGED <<engine, row, chunks, rowLock, watch, misled>>

RedisSet(c) ==
  /\ engine = "redis" /\ users[c].pc = "checked" /\ users[c].op \in {"set", "setTtl"}
  /\ row' = NewRow(users[c].op, users[c].value, users[c].seen.version)
  /\ Wrote(c)
  /\ UNCHANGED <<engine, chunks, rowLock, misled>>

RedisWatch(c) ==
  /\ engine = "redis" /\ users[c].pc = "read" /\ users[c].op = "commit"
  /\ watch' = IF watch = "none" THEN "clean" ELSE watch
  /\ users' = [users EXCEPT ![c].pc = "chunks"]
  /\ UNCHANGED <<engine, row, chunks, rowLock, misled>>

\* WATCH has returned; the version is read and compared.
RedisCheck(c) ==
  /\ engine = "redis" /\ users[c].pc = "chunks"
  /\ IF LiveVersion = users[c].expected
       THEN users' = [users EXCEPT ![c].pc = "checked", ![c].seen = ReadRow] /\ UNCHANGED watch
       ELSE Leave(c) /\ watch' = "none"
  /\ UNCHANGED <<engine, row, chunks, rowLock, misled>>

\* EXEC ends every watch of the connection, another commit's too.
RedisExec(c) ==
  /\ engine = "redis" /\ users[c].pc = "checked" /\ users[c].op = "commit"
  /\ IF watch = "dirty"
       THEN Leave(c) /\ UNCHANGED <<row, misled>>
       ELSE /\ row' = NewRow("commit", users[c].value, users[c].seen.version)
            /\ users' = [x \in KvCallers |-> IF x = c THEN IdleUser ELSE [users[x] EXCEPT !.fresh = FALSE]]
            /\ Judged(c)
  /\ watch' = "none"
  /\ UNCHANGED <<engine, chunks, rowLock>>

----------------------------------------------------------------------------
(* Deno KV: set and commit read the entry and write with a check of its stamp.   *)

DenoRead(c) ==
  /\ engine = "deno" /\ users[c].pc = "read" /\ users[c].op # "get"
  /\ users' = [users EXCEPT ![c] =
       IF users[c].op = "commit" /\ LiveVersion # users[c].expected THEN IdleUser
       ELSE [users[c] EXCEPT !.pc = "checked", !.seen = ReadRow, !.fresh = TRUE]]
  /\ UNCHANGED <<engine, row, chunks, rowLock, watch, misled>>

\* Mutant of DenoChunks: the chunks of the value that is replaced stay.
DenoChunksKept(c, v) ==
  [i \in 1..2 |-> IF i <= ChunkCount(v) /\ chunks[i] = NoValue THEN v ELSE chunks[i]]

\* The chunks of the value read go, those of the value written come.
DenoChunks(c, v) ==
  [i \in 1..2 |-> IF i <= ChunkCount(v) THEN v
                  ELSE IF i <= ChunkCount(users[c].seen.value) THEN NoValue
                  ELSE chunks[i]]

\* A commit starts from version 0 on an expired entry; a set goes on counting.
DenoCommit(c) ==
  /\ engine = "deno" /\ users[c].pc = "checked" /\ users[c].op \in {"set", "setTtl", "commit"}
  /\ users[c].fresh
  /\ row' = NewRow(users[c].op, users[c].value,
                   IF users[c].op = "commit" THEN LiveVersion ELSE users[c].seen.version)
  /\ chunks' = DenoChunks(c, users[c].value)
  /\ Wrote(c) /\ Judged(c)
  /\ UNCHANGED <<engine, rowLock>>

\* The stamp has changed: a commit reports a conflict, a set tries again.
DenoConflict(c) ==
  /\ engine = "deno" /\ users[c].pc = "checked" /\ users[c].op \in {"set", "setTtl", "commit"}
  /\ ~users[c].fresh
  /\ users' = [users EXCEPT ![c] =
       IF users[c].op = "commit" \/ users[c].tries = MaxCasRetries - 1 THEN IdleUser
       ELSE [users[c] EXCEPT !.pc = "read", !.tries = users[c].tries + 1]]
  /\ UNCHANGED <<engine, row, chunks, rowLock, watch, misled>>

\* delete removes the key and the chunks of the value it read, without a check.
DenoDelete(c) ==
  /\ engine = "deno" /\ users[c].pc = "checked" /\ users[c].op = "delete"
  /\ row' = NoRow
  /\ chunks' = [i \in 1..2 |-> IF i <= ChunkCount(users[c].seen.value) THEN NoValue ELSE chunks[i]]
  /\ Wrote(c)
  /\ UNCHANGED <<engine, rowLock, misled>>

\* The chunks of a value are read one by one.
DenoGetChunk(c) ==
  LET i == Cardinality({j \in 1..2 : users[c].answer[j] # NoValue}) + 1
  IN  /\ engine = "deno" /\ users[c].pc = "chunks"
      /\ users' = [users EXCEPT ![c] =
           [users[c] EXCEPT !.answer[i] = chunks[i],
                            !.pc = IF i = ChunkCount(users[c].seen.value) \/ chunks[i] = NoValue THEN "got" ELSE "chunks"]]
      /\ UNCHANGED <<engine, row, chunks, rowLock, watch, misled>>

----------------------------------------------------------------------------
\* A time to live passes.  Redis removes the key, the others keep the row.
Expire ==
  /\ row.expiry = "pending"
  /\ row' = IF engine = "redis" THEN NoRow ELSE [row EXCEPT !.expiry = "over"]
  /\ UNCHANGED <<engine, chunks, users, rowLock, watch, misled>>

\* Which value is written matters where it is stored in chunks.
Written == IF engine = "deno" THEN Values ELSE {Small}

KvNext ==
  /\ \/ Expire
     \/ \E c \in KvCallers :
          \/ \E op \in {"get", "delete"} : Begin(c, op, Small, 0)
          \/ \E v \in Written : Begin(c, "set", v, 0)
          \/ Begin(c, "setTtl", Small, 0)
          \/ Begin(c, "commit", Big, LiveVersion)
          \/ ApplyCommit(c) \/ Mismatch(c) \/ Get(c) \/ Got(c)
          \/ PostgresCheck(c) \/ PostgresCommit(c)
          \/ RedisRead(c) \/ RedisSet(c) \/ RedisWatch(c) \/ RedisCheck(c) \/ RedisExec(c)
          \/ DenoRead(c) \/ DenoCommit(c) \/ DenoConflict(c) \/ DenoDelete(c) \/ DenoGetChunk(c)
  /\ row'.version <= MaxKvVersion

KvSpec == KvInit /\ [][KvNext]_kvVars

----------------------------------------------------------------------------
\* A commit succeeds only if the stored version is the expected one, in whatever order
\* callers interleave: of SQLite, the maps, Deno KV, and Postgres for a key that exists.
\* (FOR UPDATE locks no row that is not there, and WATCH belongs to a connection that
\* all callers of the Redis provider share.)
CommitsCheckedMostly == misled \subseteq {<<"postgres", "create">>, <<"redis", "create">>, <<"redis", "update">>}

\* A write of a stored key moves its version on by one or starts it anew, so that a
\* caller who knows a version knows the value (not with Redis, whose set writes
\* the version it read before).
VersionsStep ==
  engine # "redis" /\ row'.version > 0 /\ row' # [row EXCEPT !.expiry = row'.expiry]
    => row'.version \in {1, row.version + 1} /\ (row'.version = 1 => LiveVersion = 0)

\* A read during which nobody wrote returns the value stored: its chunks are those
\* of that value, whatever sets and deletes came before.
QuietGetWhole ==
  \A c \in KvCallers :
    users[c].pc = "got" /\ users[c].fresh /\ engine = "deno" =>
      \A i \in 1..ChunkCount(users[c].seen.value) : users[c].answer[i] = users[c].seen.value
=============================================================================
