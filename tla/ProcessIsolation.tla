-------------------------- MODULE ProcessIsolation --------------------------
(***************************************************************************)
(* ProcessIsolationProvider: invocations run in child processes that are   *)
(* kept warm, one per (organisation, project, function, revision).  The    *)
(* calls on one process wait for each other; a message goes down stdin and *)
(* one line is read back, raced against the deadline.  A call is [key,     *)
(* code]: the bytes sent under a key need not always be the same.          *)
(***************************************************************************)
EXTENDS Naturals, Sequences, FiniteSets, SequencesExt

CONSTANTS ProcCallers, PoolKeys, Codes, MaxIdleProcesses,
          MaxSpawns      \* bound on the processes of a behaviour

ASSUME ProcAssumption ==
  /\ MaxIdleProcesses \in Nat \ {0} /\ MaxSpawns \in Nat
  /\ PoolKeys # {} /\ Codes # {} /\ ProcCallers # {}

VARIABLES
  pool,        \* key -> process, 0 when there is none
  recency,     \* the keys of the pool in the order of lastUsed
  processes,   \* the spawned processes, in order
  procCalls,   \* what run() is doing for each caller
  answers      \* the answers given so far: the call, the code that ran, whether it was for this call

procVars == <<pool, recency, processes, procCalls, answers>>

\* waiting: the promise chain of execute(), its head is running; stdin and stdout: the pipes;
\* module: the code of the moduleCache entry; killed: a signal is on its way to the child.
Process == [key : PoolKeys, state : {"live", "killed", "exited"}, waiting : Seq(ProcCallers),
            stdin : Seq(ProcCallers), stdout : Seq([for : ProcCallers, ran : Codes]),
            module : Codes \cup {"none"}]
IdleCall == [pc |-> "idle", process |-> 0, key |-> "none", code |-> "none"]

\* The pool names processes of their key, and every running call is on the chain of its process.
ProcTypeOK ==
  /\ pool \in [PoolKeys -> 0..Len(processes)]
  /\ \A k \in PoolKeys : pool[k] > 0 => processes[pool[k]].key = k
  /\ \A p \in DOMAIN processes : processes[p] \in Process
  /\ \A c \in ProcCallers : procCalls[c].pc # "idle" =>
       \E i \in DOMAIN processes[procCalls[c].process].waiting : processes[procCalls[c].process].waiting[i] = c

ProcInit ==
  /\ pool = [k \in PoolKeys |-> 0] /\ recency = <<>> /\ processes = <<>>
  /\ procCalls = [c \in ProcCallers |-> IdleCall] /\ answers = {}

----------------------------------------------------------------------------
IsDead(p) == processes[p].state # "live"
Pooled == {k \in PoolKeys : pool[k] > 0}

Oldest(keys) == recency[CHOOSE i \in DOMAIN recency :
                          recency[i] \in keys /\ \A j \in DOMAIN recency : recency[j] \in keys => i <= j]
Touched(k) == Append(RemoveFirst(recency, k), k)

\* kill(): closes stdin and signals the child.
Ended(q, state) == [q EXCEPT !.state = state, !.stdin = <<>>]
Signalled(q) == Ended(q, IF q.state = "exited" THEN "exited" ELSE "killed")
Killed(ps, p) == [ps EXCEPT ![p] = Signalled(@)]

\* Mutant of Evicted: the evicted process is dropped from the pool and left running.
EvictedAlive(k) ==
  LET full == Pooled \ {k}
  IN  IF Cardinality(full) < MaxIdleProcesses
      THEN [pool |-> pool, processes |-> processes]
      ELSE [pool |-> [pool EXCEPT ![Oldest(full)] = 0], processes |-> processes]

\* evictIfFull for the key k, whose own dead process has been dropped: the process used
\* longest ago is killed, whatever it is doing.
Evicted(k) ==
  LET full == Pooled \ {k}
  IN  IF Cardinality(full) < MaxIdleProcesses
      THEN [pool |-> pool, processes |-> processes]
      ELSE [pool |-> [pool EXCEPT ![Oldest(full)] = 0], processes |-> Killed(processes, pool[Oldest(full)])]

NewProcess(k) == [key |-> k, state |-> "live", waiting |-> <<>>, stdin |-> <<>>,
                  stdout |-> <<>>, module |-> "none"]

\* run(): the live process of the key, or a fresh one, gets the call at the end of its chain.
RunCall(c, k, code) ==
  /\ procCalls[c].pc = "idle"
  /\ LET reuse == pool[k] > 0 /\ ~IsDead(pool[k])
         room == Evicted(k)
         spawned == Append(room.processes, NewProcess(k))
         p == IF reuse THEN pool[k] ELSE Len(spawned)
         ps == IF reuse THEN processes ELSE spawned
     IN  /\ reuse \/ Len(processes) < MaxSpawns
         /\ pool' = IF reuse THEN pool ELSE [room.pool EXCEPT ![k] = p]
         /\ recency' = IF reuse THEN recency ELSE Touched(k)
         /\ processes' = [ps EXCEPT ![p].waiting = Append(@, c)]
         /\ procCalls' = [procCalls EXCEPT ![c] = [pc |-> "waiting", process |-> p, key |-> k, code |-> code]]
  /\ UNCHANGED answers

HeadOf(c) == procCalls[c].process > 0 /\ Head(processes[procCalls[c].process].waiting) = c

\* The call returns and the next one on the chain runs.
Settled(ps, c) == [ps EXCEPT ![procCalls[c].process].waiting = Tail(@)]

\* The message is written; a closed pipe ends the call with INTERNAL and kills the process.
WriteMessage(c) ==
  LET p == procCalls[c].process IN
  /\ procCalls[c].pc = "waiting" /\ HeadOf(c)
  /\ IF IsDead(p)
     THEN /\ processes' = Settled(Killed(processes, p), c)
          /\ procCalls' = [procCalls EXCEPT ![c] = IdleCall]
     ELSE /\ processes' = [processes EXCEPT ![p].stdin = Append(@, c)]
          /\ procCalls' = [procCalls EXCEPT ![c].pc = "reading"]
  /\ recency' = IF pool[procCalls[c].key] = p THEN Touched(procCalls[c].key) ELSE recency
  /\ UNCHANGED <<pool, answers>>

\* Mutant of ModuleFor: a cached module is used whatever bytes the message carries.
ModuleForCached(p, code) == IF processes[p].module = "none" THEN code ELSE processes[p].module

\* The module cache of the worker: other bytes under the same key are imported anew.
ModuleFor(p, code) == IF processes[p].module = code THEN processes[p].module ELSE code

Answered(q, c, ran) == [q EXCEPT !.stdin = Tail(@), !.module = ran,
                                 !.stdout = Append(@, [for |-> c, ran |-> ran])]

\* process-worker: takes one message, runs the handler, and writes one line, the response,
\* an error, or TIMEOUT when the CPU limit was passed.  A handler may also never answer.
WorkerAnswers(p) ==
  /\ ~IsDead(p) /\ processes[p].stdin # <<>>
  /\ LET c == Head(processes[p].stdin)
     IN  processes' = [processes EXCEPT ![p] = Answered(@, c, ModuleFor(p, procCalls[c].code))]
  /\ UNCHANGED <<pool, recency, procCalls, answers>>

\* The child ends: by itself, or on a signal, or on the end of stdin.
WorkerExits(p) ==
  /\ processes[p].state # "exited"
  /\ processes' = [processes EXCEPT ![p] = Ended(@, "exited")]
  /\ UNCHANGED <<pool, recency, procCalls, answers>>

\* A line is read: the answer when it names this message, else the process is killed.
ReadAnswer(c) ==
  LET p == procCalls[c].process IN
  /\ procCalls[c].pc = "reading" /\ processes[p].stdout # <<>>
  /\ LET line == Head(processes[p].stdout)
         read == [processes EXCEPT ![p].stdout = Tail(@)]
     IN  /\ answers' = answers \cup {[sent |-> procCalls[c].code, ran |-> line.ran, matched |-> line.for = c]}
         /\ processes' = Settled(IF line.for = c THEN read ELSE Killed(read, p), c)
  /\ procCalls' = [procCalls EXCEPT ![c] = IdleCall]
  /\ UNCHANGED <<pool, recency>>

\* The pipe of an ended child has nothing left: INTERNAL.
ReadEnd(c) ==
  LET p == procCalls[c].process IN
  /\ procCalls[c].pc = "reading" /\ processes[p].state = "exited" /\ processes[p].stdout = <<>>
  /\ processes' = Settled(Killed(processes, p), c)
  /\ procCalls' = [procCalls EXCEPT ![c] = IdleCall]
  /\ UNCHANGED <<pool, recency, answers>>

\* Mutant of ProcTimeout: the call is given up and the process kept for the next one.
ProcTimeoutKeeps(c) ==
  /\ procCalls[c].pc = "reading"
  /\ processes' = Settled(processes, c)
  /\ procCalls' = [procCalls EXCEPT ![c] = IdleCall]
  /\ UNCHANGED <<pool, recency, answers>>

\* The deadline wins the race: the process is killed.  The time limit of a call starts when
\* its message is written.
ProcTimeout(c) ==
  /\ procCalls[c].pc = "reading"
  /\ processes' = Settled(Killed(processes, procCalls[c].process), c)
  /\ procCalls' = [procCalls EXCEPT ![c] = IdleCall]
  /\ UNCHANGED <<pool, recency, answers>>

\* shutdown(): every pooled process is killed; a later run() may start others.
ShutdownPool ==
  /\ Pooled # {}
  /\ pool' = [k \in PoolKeys |-> 0]
  /\ processes' = [p \in DOMAIN processes |->
       IF \E k \in Pooled : pool[k] = p THEN Signalled(processes[p]) ELSE processes[p]]
  /\ UNCHANGED <<recency, procCalls, answers>>

ProcNext ==
  \/ \E c \in ProcCallers :
       \/ \E k \in PoolKeys, code \in Codes : RunCall(c, k, code)
       \/ WriteMessage(c) \/ ReadAnswer(c) \/ ReadEnd(c) \/ ProcTimeout(c)
  \/ \E p \in DOMAIN processes : WorkerAnswers(p) \/ WorkerExits(p)
  \/ ShutdownPool

ProcSpec == ProcInit /\ [][ProcNext]_procVars

----------------------------------------------------------------------------
Live == {p \in DOMAIN processes : ~IsDead(p)}

\* A live process is one of the pool, so there are never more of them than maxIdleProcesses:
\* a process that was evicted, replaced or timed out is not left behind.
ProcessesAccounted == \A p \in Live : \E k \in PoolKeys : pool[k] = p

\* A call never reads the answer to another call: the late answer of a call that timed out
\* dies with its process, so the mismatched message id of execute() never happens.
AnswersMatch == \A a \in answers : a.matched

\* The code that ran is the code that was sent (process-worker.ts: "re-imports instead of
\* silently running stale code").
RunsSentCode == \A a \in answers : a.ran = a.sent

\* A call to a pooled process gets its own answer, from the code it sent, and no
\* process lives outside the pool, though calls time out and processes are evicted.
ProcessSafe == ProcTypeOK /\ ProcessesAccounted /\ AnswersMatch /\ RunsSentCode
=============================================================================
