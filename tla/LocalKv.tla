------------------------------- MODULE LocalKv -------------------------------
(***************************************************************************)
(* The kv binding that LocalIsolationProvider gives a handler, for one key *)
(* of one project.  The map of values is shared by all invocations of the  *)
(* project; the map of versions belongs to one binding, so every           *)
(* invocation counts from 0.  The optional Redis replica, written behind   *)
(* the map and read only where the map has no value, is left out.          *)
(***************************************************************************)
EXTENDS Naturals

CONSTANTS Invocations, LocalValues, NoEntry, NoWrite,
          MaxWrites          \* bound on the version of the key

ASSUME LocalKvAssumption == NoEntry \notin LocalValues /\ NoWrite \notin LocalValues \cup {NoEntry} /\ MaxWrites \in Nat

VARIABLES
  store,       \* the value in the project's map, or NoEntry
  bindings     \* the binding and the transaction of each invocation

localKvVars == <<store, bindings>>

\* version: versionOf; write: the value the open transaction sets, NoEntry for a delete,
\* or NoWrite; expected: the version its check names; since: history, what the binding
\* itself did since that one was read ("restart": a delete set the count back).
Binding == [open : BOOLEAN, version : 0..MaxWrites, write : LocalValues \cup {NoEntry, NoWrite},
            expected : 0..MaxWrites, since : {"nothing", "write", "restart"}]
Fresh == [open |-> FALSE, version |-> 0, write |-> NoWrite, expected |-> 0, since |-> "nothing"]

LocalKvTypeOK ==
  /\ store \in LocalValues \cup {NoEntry}
  /\ bindings \in [Invocations -> Binding]

LocalKvInit ==
  /\ store = NoEntry /\ bindings = [i \in Invocations |-> Fresh]

----------------------------------------------------------------------------
\* An invocation gets a binding of its own, with no versions.
NewBinding(i) ==
  /\ ~bindings[i].open
  /\ bindings' = [bindings EXCEPT ![i] = [Fresh EXCEPT !.open = TRUE]]
  /\ UNCHANGED store

InvocationEnds(i) ==
  /\ bindings[i].open /\ bindings' = [bindings EXCEPT ![i] = Fresh]
  /\ UNCHANGED store

\* list: the version it returns is the binding's own.
ReadVersion(i) ==
  /\ bindings[i].open
  /\ bindings' = [bindings EXCEPT ![i].expected = bindings[i].version, ![i].since = "nothing"]
  /\ UNCHANGED store

\* The binding wrote the key and raised its version.
Raised(b) == IF b.since = "restart" THEN "restart" ELSE "write"

\* Mutant of Versioned: a plain set leaves the version alone.
VersionedSame(b, v) == IF v = NoEntry THEN 0 ELSE b.version

Versioned(b, v) == IF v = NoEntry THEN 0 ELSE b.version + 1

\* set and, with v = NoEntry, delete, which forgets the version.
LocalSet(i, v) ==
  /\ bindings[i].open /\ (v # NoEntry => bindings[i].version < MaxWrites)
  /\ store' = v
  /\ bindings' = [bindings EXCEPT ![i].version = Versioned(bindings[i], v),
                                     ![i].since = IF v = NoEntry THEN "restart" ELSE Raised(bindings[i])]

\* atomic().check(key, expected) with set(key, v) or delete(key): nothing changes until the
\* commit.
LocalBuffer(i, v) ==
  /\ bindings[i].open /\ bindings[i].write = NoWrite
  /\ bindings' = [bindings EXCEPT ![i].write = v]
  /\ UNCHANGED store

\* commit: the check compares with the binding's own version; a delete raises it like a set.
CommitSucceeds(i) ==
  LET b == bindings[i] IN
  /\ b.open /\ b.write # NoWrite /\ b.version = b.expected
  /\ b.version < MaxWrites
  /\ store' = b.write
  /\ bindings' = [bindings EXCEPT ![i] = [b EXCEPT !.write = NoWrite, !.version = b.version + 1, !.since = Raised(b)]]

CommitConflicts(i) ==
  LET b == bindings[i] IN
  /\ b.open /\ b.write # NoWrite /\ b.version # b.expected
  /\ bindings' = [bindings EXCEPT ![i].write = NoWrite]
  /\ UNCHANGED store

LocalKvNext == \E i \in Invocations :
  \/ NewBinding(i) \/ InvocationEnds(i) \/ ReadVersion(i) \/ CommitSucceeds(i) \/ CommitConflicts(i)
  \/ \E v \in LocalValues \cup {NoEntry} : LocalBuffer(i, v) \/ LocalSet(i, v)

LocalKvSpec == LocalKvInit /\ [][LocalKvNext]_localKvVars

----------------------------------------------------------------------------
\* A checked commit never succeeds over a set, or a commit, of the invocation's own since it
\* read the version, unless a plain delete in between started the count again.  (Over one of another
\* invocation it does succeed: that one counts in its own binding.)
OwnWritesSeen == \A i \in Invocations : CommitSucceeds(i) => bindings[i].since # "write"
=============================================================================
