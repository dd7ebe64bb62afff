------------------------------ MODULE WorkerPool ------------------------------
(***************************************************************************)
(* MultiprocessWorkerPool: the queries it holds, the worker tasks it       *)
(* supervises, the queues between them, and what happens when a worker     *)
(* exits, the process pool breaks, or stop() is called in the middle.      *)
(*                                                                         *)
(* Four kinds of actor interleave: coroutines of the master's event loop   *)
(* (process_query, the supervisor, stop()), the result reader thread, the  *)
(* worker processes, and the executor, which declares every future broken  *)
(* when one process dies.  A coroutine's step runs from one suspension to  *)
(* the next.  A worker task is named by its generation, which the pool     *)
(* never reuses.                                                           *)
(*                                                                         *)
(* Worker-ready, query-log and nested-resolve messages share the queues;   *)
(* they touch none of this state and are left out.                         *)
(***************************************************************************)
EXTENDS Naturals, Sequences, FiniteSets

CONSTANTS
  Requests,    \* queries, named by their request_id
  WorkerCount, \* runtime.multiprocess.workers
  QueueSize,   \* runtime.multiprocess.queue_size
  MaxGen,      \* bound on the worker tasks ever submitted
  MaxCrashes,  \* bound on the times the process pool breaks
  MaxExits,    \* bound on the worker tasks that exit by an exception
  StopMsg      \* the MSG_STOP message

ASSUME WorkerPoolAssumption ==
  /\ WorkerCount \in Nat \ {0}
  /\ QueueSize \in Nat \ {0}
  /\ MaxGen \in Nat /\ MaxGen >= WorkerCount
  /\ MaxCrashes \in Nat /\ MaxExits \in Nat
  /\ StopMsg \notin Requests

VARIABLES
  qpc,       \* where each process_query call is
  pending,   \* the keys of _pending
  fired,     \* the queries whose event is set
  holder,    \* holder["wire"] / holder["error"] of each query
  turn,      \* _worker_counter, modulo the number of workers
  reqQ,      \* the request queue of each worker
  resQ,      \* the result queue (its order does not matter here)
  calls,     \* _handle_result callbacks the reader has scheduled
  handles,   \* _workers: the generation of each handle, 0 in an empty list
  task,      \* what has become of each submitted worker task
  busy,      \* the queries a worker task is working on
  nextGen,   \* _generation_counter
  poolNo,    \* which ProcessPoolExecutor the pool holds, 0 for None
  broken,    \* the executors that have declared themselves broken
  sup,       \* where the supervisor task is
  reader,    \* the result reader thread
  stopPc,    \* how far stop() has come
  stopSaw,   \* stop()'s locals: the executor it stops, and ghost nextGen
  crashes, exits  \* how often the environment has struck

queryVars == <<qpc, pending, fired, holder, turn>>
ipcVars == <<reqQ, resQ, calls>>
taskVars == <<handles, task, busy, nextGen, poolNo, broken>>
ctlVars == <<sup, reader, stopPc, stopSaw>>
envVars == <<crashes, exits>>
vars == <<queryVars, ipcVars, taskVars, ctlVars, envVars>>

Workers == 0 .. WorkerCount - 1
Gens == 1 .. MaxGen
Pools == 0 .. MaxCrashes + 1

\* The outcome a worker reports; "none" is a query its plugins dropped.
Outcomes == {"wire", "none", "error"}
Message == [query: Requests, gen: Gens, outcome: Outcomes]

NoTask == [worker |-> 0, pool |-> 0, state |-> "unused"]
Task == [worker: Workers, pool: Pools,
         state: {"unused", "running", "exited", "broken"}]

TypeOK ==
  /\ qpc \in [Requests -> {"new", "waiting", "returned", "raised"}]
  /\ pending \subseteq Requests /\ fired \subseteq Requests
  /\ holder \in [Requests -> Outcomes]
  /\ turn \in Workers
  /\ reqQ \in [Workers -> Seq(Requests \cup {StopMsg})]
  /\ \A w \in Workers : Len(reqQ[w]) <= QueueSize
  /\ resQ \subseteq Message /\ Cardinality(resQ) <= QueueSize
  /\ calls \subseteq Message
  /\ handles \in [Workers -> Gens \cup {0}]
  /\ task \in [Gens -> Task]
  /\ busy \in [Gens -> SUBSET Requests]
  /\ nextGen \in 1 .. MaxGen + 1
  /\ poolNo \in Pools /\ broken \subseteq Pools
  /\ sup \in {"watching", "joining", "killing", "ended", "dead"}
  /\ reader \in {"on", "told", "off"}
  /\ stopPc \in {"no", "waiting", "joining", "stopped"}
  /\ stopSaw \in [pool: Pools, gen: 0 .. MaxGen + 1]
  /\ crashes \in 0 .. MaxCrashes /\ exits \in 0 .. MaxExits

Running(g) == g \in Gens /\ task[g].state = "running"
Done(g) == g \in Gens /\ task[g].state \in {"exited", "broken"}
Listed == {w \in Workers : handles[w] # 0}
Stopping == stopPc # "no"

\* The tasks _start_workers submits to a fresh executor, first of them gen.
Submitted(gen, pool) ==
  [g \in Gens |-> IF g \in gen .. gen + WorkerCount - 1
                  THEN [worker |-> g - gen, pool |-> pool, state |-> "running"]
                  ELSE task[g]]

\* The pool as start() leaves it.
Init ==
  /\ qpc = [r \in Requests |-> "new"]
  /\ pending = {} /\ fired = {}
  /\ holder = [r \in Requests |-> "none"]
  /\ turn = 0
  /\ reqQ = [w \in Workers |-> <<>>]
  /\ resQ = {} /\ calls = {}
  /\ handles = [w \in Workers |-> w + 1]
  /\ task = [g \in Gens |-> IF g <= WorkerCount
                            THEN [worker |-> g - 1, pool |-> 1, state |-> "running"]
                            ELSE NoTask]
  /\ busy = [g \in Gens |-> {}]
  /\ nextGen = WorkerCount + 1
  /\ poolNo = 1 /\ broken = {}
  /\ sup = "watching" /\ reader = "on"
  /\ stopPc = "no" /\ stopSaw = [pool |-> 0, gen |-> 0]
  /\ crashes = 0 /\ exits = 0
-----------------------------------------------------------------------------
(***************************************************************************)
(* process_query                                                           *)
(***************************************************************************)
\* _next_worker: the offsets of the workers whose future is not done.
Alive == {offset \in 0 .. WorkerCount - 1 :
            LET w == (turn + offset) % WorkerCount IN
            handles[w] # 0 /\ ~Done(handles[w])}

\* The query is entered in _pending before a worker is chosen.  If there is no
\* worker the entry stays behind; if its queue is full the entry is removed.
Submit(r) ==
  /\ qpc[r] = "new" /\ stopPc # "stopped"
  /\ turn' = IF Listed = {} THEN turn ELSE (turn + 1) % WorkerCount
  /\ IF Alive = {}
     THEN /\ pending' = pending \cup {r}
          /\ qpc' = [qpc EXCEPT ![r] = "raised"]
          /\ UNCHANGED reqQ
     ELSE LET first == CHOOSE o \in Alive : \A p \in Alive : o <= p
              w == (turn + first) % WorkerCount
          IN  IF Len(reqQ[w]) < QueueSize
              THEN /\ pending' = pending \cup {r}
                   /\ qpc' = [qpc EXCEPT ![r] = "waiting"]
                   /\ reqQ' = [reqQ EXCEPT ![w] = Append(@, r)]
              ELSE /\ qpc' = [qpc EXCEPT ![r] = "raised"]
                   /\ UNCHANGED <<pending, reqQ>>
  /\ UNCHANGED <<fired, holder, resQ, calls, taskVars, ctlVars, envVars>>

\* The event is set: the entry is popped and the holder decides.
Resume(r) ==
  /\ qpc[r] = "waiting" /\ r \in fired
  /\ pending' = pending \ {r}
  /\ qpc' = [qpc EXCEPT ![r] = IF holder[r] = "error" THEN "raised" ELSE "returned"]
  /\ UNCHANGED <<fired, holder, turn, ipcVars, taskVars, ctlVars, envVars>>

\* response_timeout passes, or the task group is cancelled because the
\* supervisor raised; the finally clause pops the entry.
GiveUp(r) ==
  /\ qpc[r] = "waiting"
  /\ pending' = pending \ {r}
  /\ qpc' = [qpc EXCEPT ![r] = "raised"]
  /\ UNCHANGED <<fired, holder, turn, ipcVars, taskVars, ctlVars, envVars>>
-----------------------------------------------------------------------------
(***************************************************************************)
(* A worker task, the reader thread and _handle_result                     *)
(***************************************************************************)
EndTasks(gens, state) ==
  /\ task' = [g \in Gens |-> IF g \in gens THEN [task[g] EXCEPT !.state = state]
                             ELSE task[g]]
  /\ busy' = [g \in Gens |-> IF g \in gens THEN {} ELSE busy[g]]

\* The worker takes the next message: a query starts a task, MSG_STOP cancels
\* the running ones and ends the worker.
Take(g) ==
  LET w == task[g].worker IN
  /\ Running(g) /\ reqQ[w] # <<>>
  /\ reqQ' = [reqQ EXCEPT ![w] = Tail(@)]
  /\ IF Head(reqQ[w]) = StopMsg
     THEN EndTasks({g}, "exited")
     ELSE /\ busy' = [busy EXCEPT ![g] = @ \cup {Head(reqQ[w])}]
          /\ UNCHANGED task
  /\ UNCHANGED <<queryVars, resQ, calls, handles, nextGen, poolNo, broken, ctlVars, envVars>>

\* A query is worked out; putting the result waits while the queue is full.
Finish(g, r) ==
  /\ Running(g) /\ r \in busy[g]
  /\ Cardinality(resQ) < QueueSize
  /\ \E outcome \in Outcomes :
       resQ' = resQ \cup {[query |-> r, gen |-> g, outcome |-> outcome]}
  /\ busy' = [busy EXCEPT ![g] = @ \ {r}]
  /\ UNCHANGED <<queryVars, reqQ, calls, handles, task, nextGen, poolNo, broken, ctlVars, envVars>>

\* An exception leaves worker_entry (say load_config refuses the file): the
\* future is done, the process lives on and keeps the queue.
Exit(g) ==
  /\ Running(g) /\ exits < MaxExits
  /\ exits' = exits + 1
  /\ EndTasks({g}, "exited")
  /\ UNCHANGED <<queryVars, ipcVars, handles, nextGen, poolNo, broken, ctlVars, crashes>>

\* A worker process dies: the executor breaks every future that is not done
\* and terminates the other processes.
Break(p) ==
  /\ crashes < MaxCrashes
  /\ p # 0 /\ p \notin broken
  /\ p = poolNo \/ \E g \in Gens : Running(g) /\ task[g].pool = p
  /\ crashes' = crashes + 1
  /\ broken' = broken \cup {p}
  /\ EndTasks({g \in Gens : Running(g) /\ task[g].pool = p}, "broken")
  /\ UNCHANGED <<queryVars, ipcVars, handles, nextGen, poolNo, ctlVars, exits>>

\* The reader hands a message to the event loop.
Read ==
  /\ reader = "on"
  /\ \E m \in resQ : resQ' = resQ \ {m} /\ calls' = calls \cup {m}
  /\ UNCHANGED <<queryVars, reqQ, taskVars, ctlVars, envVars>>

\* MSG_STOP_READER, or _stop_reader after one more message, ends the thread.
ReaderExit ==
  /\ reader = "told"
  /\ reader' = "off"
  /\ UNCHANGED <<queryVars, ipcVars, taskVars, sup, stopPc, stopSaw, envVars>>

Accepted(m) == handles[task[m.gen].worker] = m.gen /\ m.query \in pending

\* _handle_result and _handle_query_response.
Handle(m) ==
  /\ m \in calls
  /\ calls' = calls \ {m}
  /\ IF Accepted(m)
     THEN /\ fired' = fired \cup {m.query}
          /\ holder' = [holder EXCEPT ![m.query] = m.outcome]
     ELSE UNCHANGED <<fired, holder>>
  /\ UNCHANGED <<qpc, pending, turn, reqQ, resQ, taskVars, ctlVars, envVars>>
-----------------------------------------------------------------------------
(***************************************************************************)
(* _fail_pending, the supervisor and stop()                                *)
(***************************************************************************)
\* Mutant: the entries are dropped and their events never set.
FailPendingSilently ==
  /\ holder' = [r \in Requests |-> IF r \in pending THEN "error" ELSE holder[r]]
  /\ pending' = {}
  /\ UNCHANGED fired

FailPending ==
  /\ holder' = [r \in Requests |-> IF r \in pending THEN "error" ELSE holder[r]]
  /\ fired' = fired \cup pending
  /\ pending' = {}

\* _stop_result_reader up to its join: the flag is set and a message sent.
TellReader == reader' = IF reader = "on" THEN "told" ELSE reader

\* The finished worker _restart_finished_workers_once meets first.
FirstDone(w) ==
  /\ w \in Listed /\ Done(handles[w])
  /\ \A v \in Listed : Done(handles[v]) => w <= v

\* Mutant: a worker is submitted again without asking whether it is done.
ResubmitUnasked(w) ==
  /\ sup = "watching" /\ ~Stopping /\ nextGen <= MaxGen
  /\ nextGen' = nextGen + 1
  /\ task' = [task EXCEPT ![nextGen] =
                [worker |-> w, pool |-> poolNo, state |-> "running"]]
  /\ handles' = [handles EXCEPT ![w] = nextGen]
  /\ UNCHANGED <<queryVars, ipcVars, busy, poolNo, broken, ctlVars, envVars>>

\* Its task exited: it is submitted again, with the same queue and a new
\* generation.  submit() raises if the executor has broken meanwhile, which
\* ends the supervisor and cancels the task group.
Resubmit(w) ==
  /\ sup = "watching" /\ ~Stopping
  /\ FirstDone(w) /\ task[handles[w]].state = "exited"
  /\ nextGen <= MaxGen
  /\ nextGen' = nextGen + 1
  /\ IF poolNo \in broken
     THEN /\ sup' = "dead"
          /\ UNCHANGED <<handles, task>>
     ELSE /\ task' = [task EXCEPT ![nextGen] =
                        [worker |-> w, pool |-> poolNo, state |-> "running"]]
          /\ handles' = [handles EXCEPT ![w] = nextGen]
          /\ UNCHANGED sup
  /\ UNCHANGED <<queryVars, ipcVars, busy, poolNo, broken, reader, stopPc, stopSaw, envVars>>

\* Its future is broken: _restart_broken_pool up to the join of the reader.
BeginRestart(w) ==
  /\ sup = "watching" /\ ~Stopping
  /\ FirstDone(w) /\ task[handles[w]].state = "broken"
  /\ sup' = "joining"
  /\ FailPending
  /\ TellReader
  /\ UNCHANGED <<qpc, turn, ipcVars, taskVars, stopPc, stopSaw, envVars>>

JoinReader ==
  /\ sup = "joining" /\ reader = "off"
  /\ sup' = "killing"
  /\ UNCHANGED <<queryVars, ipcVars, taskVars, reader, stopPc, stopSaw, envVars>>

\* Mutant: _restarting is not reset.
RebuildForGood ==
  /\ sup = "killing"
  /\ nextGen + WorkerCount <= MaxGen + 1
  /\ poolNo' = crashes + 1
  /\ task' = Submitted(nextGen, crashes + 1)
  /\ handles' = [w \in Workers |-> nextGen + w]
  /\ nextGen' = nextGen + WorkerCount
  /\ reqQ' = [w \in Workers |-> <<>>]
  /\ resQ' = {}
  /\ reader' = "on"
  /\ sup' = "joining"
  /\ UNCHANGED <<queryVars, calls, busy, broken, stopPc, stopSaw, envVars>>

\* The executor is terminated; then, without another suspension, new queues,
\* a new executor, new workers and a new reader.  _stopping is not looked at.
Rebuild ==
  /\ sup = "killing"
  /\ nextGen + WorkerCount <= MaxGen + 1
  /\ sup' = "watching"
  /\ LET pool == crashes + 1 IN
       /\ poolNo' = pool
       /\ task' = Submitted(nextGen, pool)
  /\ handles' = [w \in Workers |-> nextGen + w]
  /\ nextGen' = nextGen + WorkerCount
  /\ reqQ' = [w \in Workers |-> <<>>]
  /\ resQ' = {}
  /\ reader' = "on"
  /\ UNCHANGED <<queryVars, calls, busy, broken, stopPc, stopSaw, envVars>>

EndSupervision ==
  /\ sup = "watching" /\ Stopping
  /\ sup' = "ended"
  /\ UNCHANGED <<queryVars, ipcVars, taskVars, reader, stopPc, stopSaw, envVars>>

\* stop(): MSG_STOP to every listed worker, lost where the queue is full.
BeginStop ==
  /\ stopPc = "no"
  /\ stopPc' = "waiting"
  /\ stopSaw' = [pool |-> poolNo, gen |-> nextGen]
  /\ reqQ' = [w \in Workers |-> IF w \in Listed /\ Len(reqQ[w]) < QueueSize
                                THEN Append(reqQ[w], StopMsg) ELSE reqQ[w]]
  /\ UNCHANGED <<queryVars, resQ, calls, taskVars, sup, reader, envVars>>

\* Mutant: only workers without a query are terminated.
KillIdleWorkers ==
  LET left == {g \in Gens : Running(g) /\ task[g].pool = stopSaw.pool /\ busy[g] = {}} IN
  /\ stopPc = "waiting" /\ left # {}
  /\ EndTasks(left, "broken")
  /\ UNCHANGED <<queryVars, ipcVars, handles, nextGen, poolNo, broken, ctlVars, envVars>>

\* STOP_TIMEOUT_SECONDS pass: terminate_workers, and kill_workers if need be.
KillWorkers ==
  LET left == {g \in Gens : Running(g) /\ task[g].pool = stopSaw.pool} IN
  /\ stopPc = "waiting" /\ left # {}
  /\ EndTasks(left, "broken")
  /\ UNCHANGED <<queryVars, ipcVars, handles, nextGen, poolNo, broken, ctlVars, envVars>>

\* Mutant: the executor is forgotten while its workers run.
StopExecutorAtOnce ==
  /\ stopPc = "waiting"
  /\ stopPc' = "joining"
  /\ poolNo' = 0
  /\ handles' = [w \in Workers |-> 0]
  /\ FailPending
  /\ TellReader
  /\ UNCHANGED <<qpc, turn, ipcVars, task, busy, nextGen, broken, sup, stopSaw, envVars>>

\* Its executor's workers are gone: forget executor and workers, fail what is
\* pending, tell the reader.
StopExecutor ==
  /\ stopPc = "waiting"
  /\ \A g \in Gens : task[g].pool = stopSaw.pool => ~Running(g)
  /\ stopPc' = "joining"
  /\ poolNo' = 0
  /\ handles' = [w \in Workers |-> 0]
  /\ FailPending
  /\ TellReader
  /\ UNCHANGED <<qpc, turn, ipcVars, task, busy, nextGen, broken, sup, stopSaw, envVars>>

\* The thread it joined has ended (a reader that is "on" was started by Rebuild
\* since): close the queues, which ends any reader, and return.
CloseQueues ==
  /\ stopPc = "joining" /\ reader # "told"
  /\ stopPc' = "stopped"
  /\ reader' = "off"
  /\ reqQ' = [w \in Workers |-> <<>>]
  /\ resQ' = {}
  /\ UNCHANGED <<queryVars, calls, taskVars, sup, stopSaw, envVars>>
-----------------------------------------------------------------------------
Query(r) == Submit(r) \/ Resume(r) \/ GiveUp(r)
Worker(g) == Take(g) \/ Exit(g) \/ \E r \in Requests : Finish(g, r)
Restart == (\E w \in Workers : BeginRestart(w)) \/ JoinReader \/ Rebuild
Stop == BeginStop \/ KillWorkers \/ StopExecutor \/ CloseQueues

Next ==
  \/ \E r \in Requests : Query(r)
  \/ \E g \in Gens : Worker(g)
  \/ \E p \in Pools : Break(p)
  \/ Read \/ ReaderExit
  \/ \E m \in calls : Handle(m)
  \/ \E w \in Workers : Resubmit(w)
  \/ Restart \/ EndSupervision
  \/ Stop

Spec == Init /\ [][Next]_vars

\* The event loop and the threads get on; response_timeout and the stop timeout
\* pass.  Workers may hang, and nothing obliges them to exit, to crash or
\* anyone to call stop().
Fairness ==
  /\ \A r \in Requests : WF_vars(Resume(r)) /\ WF_vars(GiveUp(r))
  /\ WF_vars(Read) /\ WF_vars(ReaderExit) /\ WF_vars(\E m \in calls : Handle(m))
  /\ \A w \in Workers : WF_vars(Resubmit(w)) /\ WF_vars(BeginRestart(w))
  /\ WF_vars(JoinReader) /\ WF_vars(Rebuild) /\ WF_vars(EndSupervision)
  /\ WF_vars(KillWorkers) /\ WF_vars(StopExecutor) /\ WF_vars(CloseQueues)

FairSpec == Spec /\ Fairness
-----------------------------------------------------------------------------
(***************************************************************************)
(* Properties                                                              *)
(***************************************************************************)
\* A query that waits for its event can still be told: it is in _pending, where
\* _handle_query_response and _fail_pending look, or its event is already set.
WaitersAreReachable ==
  \A r \in Requests : qpc[r] = "waiting" => r \in pending \/ r \in fired

\* Where a query is: in a request queue, with a worker, in a result or in a
\* callback that carries one.
Places(r) ==
  LET queued(w) == {<<"queue", w, i>> : i \in {j \in 1 .. Len(reqQ[w]) : reqQ[w][j] = r}}
  IN (UNION {queued(w) : w \in Workers})
       \cup {<<"worker", g>> : g \in {h \in Gens : r \in busy[h]}}
       \cup {<<"result", m>> : m \in {n \in resQ : n.query = r}}
       \cup {<<"callback", m>> : m \in {n \in calls : n.query = r}}

\* A query is executed at most once: it is in one queue, or with one worker, or
\* in one result, whatever is restarted or rebuilt in between.
ExecutedAtMostOnce == \A r \in Requests : \A x, y \in Places(r) : x = y

\* Until stop() is called every running worker task is the one its handle
\* names, so that its results are not taken for those of a predecessor, and
\* no two tasks read one request queue.
RunningIsListed ==
  ~Stopping => \A g \in Gens : Running(g) => handles[task[g].worker] = g

\* The queues keep their bounds; every query is executed at most once, and only
\* by a worker whose results _handle_result accepts.
ExecutionInv == TypeOK /\ ExecutedAtMostOnce /\ RunningIsListed

\* stop() leaves no worker behind that it knew of: one that runs on was
\* submitted after stop() began, by a restart of the broken pool.
LeaksAreLate ==
  stopPc = "stopped" => \A g \in Gens : Running(g) => g >= stopSaw.gen

\* When stop() has returned, a query that is neither answered nor failed is one
\* such a restart let in.
SettledByStop ==
  stopPc = "stopped" =>
    \A r \in Requests :
      qpc[r] = "waiting" /\ r \notin fired => nextGen > stopSaw.gen

\* After stop() nothing of the pool is left, no worker and no waiting query,
\* except what a restart of the broken pool, racing with stop(), brought in.
StopLeavesNothing == LeaksAreLate /\ SettledByStop

\* stop() returns, also while the supervisor is restarting the pool.
PoolStopReturns == stopPc = "waiting" ~> stopPc = "stopped"

\* A worker that has ended is replaced, unless stop() is called or the
\* supervisor has died.
ReplacedUnlessSupervisorDied ==
  \A w \in Workers :
    Done(handles[w]) ~> Running(handles[w]) \/ Stopping \/ sup = "dead"
=============================================================================
