----------------------------- MODULE SecretStore -----------------------------
(***************************************************************************)
(* The file-backed SecretStore of one project and the resolution of its    *)
(* secrets for an invocation.  A set encrypts, truncates the file of the   *)
(* secret and writes the record; nothing makes the two steps one.  A       *)
(* record is as long as its secret, 1 or 2 blocks, and every encryption    *)
(* has a salt of its own, so a record is identified by the number of the   *)
(* set that made it.                                                       *)
(***************************************************************************)
EXTENDS Naturals, Sequences, FiniteSets

CONSTANTS SecretNames, Setters, Resolvers,
          MaxSets        \* bound on the set calls of a behaviour

ASSUME SecretAssumption == MaxSets \in Nat

VARIABLES
  records,     \* name -> the blocks of its file, each the number of the set that wrote it, or NoFile
  sets,        \* the set calls so far: [name, length]
  setters,     \* what each setter is doing
  resolvers,   \* the resolution of the secrets of an invocation
  undisturbed  \* history: name -> the number of the set that ended last, if none overlapped it

secretVars == <<records, sets, setters, resolvers, undisturbed>>

NoFile == <<0>>
NotSetting == [pc |-> "idle", set |-> 0, solo |-> TRUE]
NotResolving == [pc |-> "idle", left |-> {}, env |-> <<>>]

\* A resolver's environment holds at most one record for a name.
SecretTypeOK ==
  /\ \A n \in SecretNames : records[n] = NoFile \/ records[n] \in Seq(DOMAIN sets)
  /\ \A s \in Setters : setters[s].pc \in {"idle", "encrypted", "truncated", "unlinked"} /\ setters[s].set \in 0..Len(sets)
  /\ \A r \in Resolvers : \A i, j \in DOMAIN resolvers[r].env : resolvers[r].env[i].name = resolvers[r].env[j].name => i = j

SecretInit ==
  /\ records = [n \in SecretNames |-> NoFile] /\ sets = <<>>
  /\ setters = [s \in Setters |-> NotSetting] /\ resolvers = [r \in Resolvers |-> NotResolving]
  /\ undisturbed = [n \in SecretNames |-> 0]

----------------------------------------------------------------------------
Record(k) == [i \in 1..sets[k].length |-> k]

\* Mutant of Decrypts: the tag is not looked at.
DecryptsAny(file) == file # <<>>

\* AES-GCM: exactly one record, whole.
Decrypts(file) == file # <<>> /\ file = Record(file[1])

Setting(n) == {s \in Setters : setters[s].pc # "idle" /\ sets[setters[s].set].name = n}

\* set: the new record is there, the directory exists.
BeginSet(s, n, length) ==
  /\ setters[s].pc = "idle" /\ Len(sets) < MaxSets
  /\ sets' = Append(sets, [name |-> n, length |-> length])
  /\ setters' = [t \in Setters |->
       IF t = s THEN [pc |-> "encrypted", set |-> Len(sets) + 1, solo |-> Setting(n) = {}]
       ELSE IF t \in Setting(n) THEN [setters[t] EXCEPT !.solo = FALSE] ELSE setters[t]]
  /\ undisturbed' = [undisturbed EXCEPT ![n] = 0]
  /\ UNCHANGED <<records, resolvers>>

\* Mutant of Truncated: the file is opened without being truncated.
TruncatedKeeping(file) == IF file = NoFile THEN <<>> ELSE file

\* writeFile opens the file and truncates it, whatever is in it.
Truncated(file) == <<>>

Truncate(s) ==
  LET n == sets[setters[s].set].name IN
  /\ setters[s].pc = "encrypted"
  /\ records' = [records EXCEPT ![n] = Truncated(records[n])]
  /\ setters' = [setters EXCEPT ![s].pc = "truncated"]
  /\ UNCHANGED <<sets, resolvers, undisturbed>>

\* The record is written from the start of the file; what is behind it stays.
WriteRecord(s) ==
  LET k == setters[s].set
      n == sets[k].name
  IN
  /\ setters[s].pc = "truncated"
  /\ records' = [records EXCEPT ![n] = Record(k) \o SubSeq(records[n], sets[k].length + 1, Len(records[n]))]
  /\ undisturbed' = IF setters[s].solo THEN [undisturbed EXCEPT ![n] = k] ELSE undisturbed
  /\ setters' = [setters EXCEPT ![s] = NotSetting]
  /\ UNCHANGED <<sets, resolvers>>

\* The process ends, or the write fails, when the first block of a longer record is written.
BreakOff(s) ==
  LET k == setters[s].set
      n == sets[k].name
  IN
  /\ setters[s].pc = "truncated" /\ sets[k].length > 1
  /\ records' = [records EXCEPT ![n] = <<k>> \o SubSeq(records[n], 2, Len(records[n]))]
  /\ setters' = [setters EXCEPT ![s] = NotSetting]
  /\ UNCHANGED <<sets, resolvers, undisturbed>>

\* The same before anything is written, or the file has been removed.
SetFails(s) ==
  /\ setters[s].pc \in {"truncated", "unlinked"}
  /\ setters' = [setters EXCEPT ![s] = NotSetting]
  /\ UNCHANGED <<records, sets, resolvers, undisturbed>>

\* delete of a secret that is there; a set that has opened the file writes to it unseen.
DeleteSecret(n) ==
  /\ records[n] # NoFile
  /\ records' = [records EXCEPT ![n] = NoFile] /\ undisturbed' = [undisturbed EXCEPT ![n] = 0]
  /\ setters' = [s \in Setters |->
       IF s \in Setting(n) /\ setters[s].pc = "truncated" THEN [setters[s] EXCEPT !.pc = "unlinked"] ELSE setters[s]]
  /\ UNCHANGED <<sets, resolvers>>

\* resolveSecrets: the names of the directory that the function declares.
BeginResolve(r, declared) ==
  /\ resolvers[r].pc = "idle"
  /\ resolvers' = [resolvers EXCEPT ![r] = [pc |-> "reading", left |-> {n \in declared : records[n] # NoFile}, env |-> <<>>]]
  /\ UNCHANGED <<records, sets, setters, undisturbed>>

\* One secret after the other is read and decrypted; one that is gone is left out, and one that
\* does not decrypt ends the resolution with what was found before it.
ReadSecret(r, n) ==
  LET file == records[n] IN
  /\ n \in resolvers[r].left
  /\ resolvers' = [resolvers EXCEPT ![r] =
       IF file = NoFile THEN [resolvers[r] EXCEPT !.left = resolvers[r].left \ {n}]
       ELSE IF Decrypts(file)
       THEN [resolvers[r] EXCEPT !.left = resolvers[r].left \ {n}, !.env = Append(resolvers[r].env, [name |-> n, file |-> file])]
       ELSE [resolvers[r] EXCEPT !.left = {}]]
  /\ UNCHANGED <<records, sets, setters, undisturbed>>

\* The invocation has run and its environment is wiped.
EndResolve(r) ==
  /\ resolvers[r].pc = "reading" /\ resolvers[r].left = {}
  /\ resolvers' = [resolvers EXCEPT ![r] = NotResolving]
  /\ UNCHANGED <<records, sets, setters, undisturbed>>

SecretNext ==
  \/ \E s \in Setters : (\E n \in SecretNames, length \in 1..2 : BeginSet(s, n, length)) \/ Truncate(s) \/ WriteRecord(s)
                           \/ BreakOff(s) \/ SetFails(s)
  \/ \E n \in SecretNames : DeleteSecret(n)
  \/ \E r \in Resolvers : (\E d \in SUBSET SecretNames : BeginResolve(r, d)) \/ (\E n \in SecretNames : ReadSecret(r, n)) \/ EndResolve(r)

SecretSpec == SecretInit /\ [][SecretNext]_secretVars

----------------------------------------------------------------------------
\* An invocation is given a secret only as some set wrote it, under the name it was set for: a
\* file that two sets wrote, or one wrote half, never passes for a secret.
SecretsGenuine == \A r \in Resolvers : \A i \in DOMAIN resolvers[r].env :
  LET e == resolvers[r].env[i] IN \E k \in DOMAIN sets : sets[k].name = e.name /\ e.file = Record(k)

\* A set that no other set or delete of the secret overlapped can be read back.
SoloSetReadable == \A n \in SecretNames :
  undisturbed[n] # 0 => records[n] = Record(undisturbed[n])

\* What an invocation is given of the secret store is what some set wrote, though
\* sets crash, overlap and are read half way, and a set on its own can be read back.
SecretsSafe == SecretTypeOK /\ SecretsGenuine /\ SoloSetReadable
=============================================================================
