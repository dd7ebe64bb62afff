--------------------------- MODULE WorkerPoolProofs ---------------------------
(***************************************************************************)
(* Proofs about WorkerPool, for every set of queries, every number of      *)
(* workers and size of queue, and every bound on restarts and crashes.     *)
(***************************************************************************)
EXTENDS WorkerPool, FiniteSetTheorems, SequenceTheorems, TLAPS

(***************************************************************************)
(* The inductive invariant: the worker tasks                               *)
(***************************************************************************)
\* Generations are handed out in order.
Unstarted == \A g \in Gens : g >= nextGen => task[g].state = "unused"

\* The executor that the next rebuild makes is a new one.
PoolNumbers ==
  /\ poolNo <= crashes + 1
  /\ \A p \in broken : p <= crashes
  /\ \A g \in Gens : task[g].pool <= crashes + 1

\* Until stop() is called the pool holds the executor of its workers.
OneExecutor ==
  ~Stopping =>
    /\ \A g \in Gens : Running(g) => task[g].pool = poolNo
    /\ \A w \in Workers : handles[w] # 0 => task[handles[w]].pool = poolNo

\* A broken executor runs nothing, and it alone breaks futures until stop() does.
BrokenRunsNothing ==
  /\ \A g \in Gens : Running(g) => task[g].pool \notin broken
  /\ ~Stopping =>
       \A g \in Gens : task[g].state = "broken" => task[g].pool \in broken

\* While the pool is being rebuilt nothing runs.
RebuiltFromNothing ==
  sup \in {"joining", "killing"} /\ ~Stopping => \A g \in Gens : ~Running(g)

\* Workers that stop() has met are in the executor it stops, and gone once that is.
StopKnowsWorkers ==
  Stopping =>
    /\ stopSaw.gen <= nextGen
    /\ \A g \in Gens : Running(g) /\ g < stopSaw.gen => task[g].pool = stopSaw.pool
    /\ stopPc # "waiting" => \A g \in Gens : Running(g) => g >= stopSaw.gen

\* Past StopExecutor no worker can be chosen and every waiting query was told,
\* unless workers were submitted since stop() began.
StopSettles ==
  stopPc \in {"joining", "stopped"} /\ nextGen = stopSaw.gen =>
    /\ \A w \in Workers : handles[w] = 0
    /\ \A r \in Requests : qpc[r] = "waiting" => r \in fired

SupervisionInv ==
  /\ Unstarted /\ PoolNumbers /\ OneExecutor /\ BrokenRunsNothing
  /\ RebuiltFromNothing /\ RunningIsListed /\ StopKnowsWorkers

WaitingInv == WaitersAreReachable /\ StopSettles

(***************************************************************************)
(* The inductive invariant: the queries                                    *)
(***************************************************************************)
Messages == resQ \cup calls
InQueue(r) == \E w \in Workers : \E i \in 1 .. Len(reqQ[w]) : reqQ[w][i] = r
InWorker(r) == \E g \in Gens : r \in busy[g]
InMessage(r) == \E m \in Messages : m.query = r

\* No query is twice in the queues, with two workers or in two results ...
OnceInQueues ==
  \A w, v \in Workers : \A i \in 1 .. Len(reqQ[w]), j \in 1 .. Len(reqQ[v]) :
    reqQ[w][i] = reqQ[v][j] /\ reqQ[w][i] \in Requests => w = v /\ i = j
OnceInWorkers == \A g, h \in Gens : \A r \in busy[g] : r \in busy[h] => g = h
OnceInMessages ==
  /\ \A m, n \in Messages : m.query = n.query => m = n
  /\ resQ \cap calls = {}

\* ... nor in two kinds of place, and before it is submitted it is nowhere.
OnePlace ==
  \A r \in Requests :
    /\ ~(InQueue(r) /\ InWorker(r)) /\ ~(InQueue(r) /\ InMessage(r))
    /\ ~(InWorker(r) /\ InMessage(r))
    /\ qpc[r] = "new" => ~InQueue(r) /\ ~InWorker(r) /\ ~InMessage(r)

QueryInv == OnceInQueues /\ OnceInWorkers /\ OnceInMessages /\ OnePlace
-----------------------------------------------------------------------------
(***************************************************************************)
(* The worker tasks                                                        *)
(***************************************************************************)
USE DEF vars, queryVars, ipcVars, taskVars, ctlVars, envVars, Workers, Gens, Pools

TasksTyped == task \in [Gens -> Task] /\ handles \in [Workers -> Gens \cup {0}]

\* Tasks end and nothing else happens to them.
TasksOnlyEnd ==
  \A g \in Gens :
    /\ task'[g].worker = task[g].worker /\ task'[g].pool = task[g].pool
    /\ Running(g)' => Running(g)
    /\ task[g].state = "unused" => task'[g].state = "unused"

LEMMA TasksUntouched ==
  ASSUME SupervisionInv, UNCHANGED <<handles, task, nextGen, poolNo, broken, sup, stopPc, stopSaw, crashes>>
  PROVE  SupervisionInv'
BY DEF SupervisionInv, Unstarted, PoolNumbers, OneExecutor, BrokenRunsNothing,
       RebuiltFromNothing, RunningIsListed, StopKnowsWorkers, Running, Stopping

LEMMA EndTasksEnds ==
  ASSUME TasksTyped, NEW gens, \A g \in gens : Running(g),
         NEW st \in {"exited", "broken"}, EndTasks(gens, st)
  PROVE  /\ TasksOnlyEnd /\ task' \in [Gens -> Task]
         /\ \A g \in Gens : task'[g].state = IF g \in gens THEN st ELSE task[g].state
<1>1. \A g \in Gens : /\ task'[g] \in Task
                      /\ task'[g].worker = task[g].worker /\ task'[g].pool = task[g].pool
                      /\ task'[g].state = IF g \in gens THEN st ELSE task[g].state
  BY DEF EndTasks, TasksTyped, Task
<1>2. task' \in [Gens -> Task] BY <1>1 DEF EndTasks
<1> QED BY <1>1, <1>2 DEF TasksOnlyEnd, Running

\* Tasks that end, of an executor that broke if it was the executor's doing.
LEMMA EndingKeeps ==
  ASSUME TasksTyped, SupervisionInv, TasksOnlyEnd, crashes \in Nat, crashes' \in Nat,
         poolNo \in Nat, \A g \in Gens : task[g].pool \in Nat,
         UNCHANGED <<handles, nextGen, poolNo, sup, stopPc, stopSaw>>,
         crashes' >= crashes, broken \subseteq broken',
         \A p \in broken' : p \in Nat /\ p <= crashes',
         \A g \in Gens : Running(g)' => task[g].pool \notin broken',
         ~Stopping => \A g \in Gens :
           task'[g].state = "broken" => task[g].state = "broken" \/ task[g].pool \in broken'
  PROVE  SupervisionInv'
<1>1. Unstarted' BY DEF SupervisionInv, Unstarted, TasksOnlyEnd
<1>2. PoolNumbers'
  <2>1. poolNo' <= crashes' + 1
    <3>1. poolNo <= crashes + 1 BY DEF SupervisionInv, PoolNumbers
    <3>2. \A a, b, c \in Nat : a <= b + 1 /\ c >= b => a <= c + 1 OBVIOUS
    <3>3. poolNo <= crashes' + 1 BY <3>1, <3>2
    <3> QED BY <3>3
  <2>2. \A g \in Gens : task'[g].pool <= crashes' + 1
    BY DEF SupervisionInv, PoolNumbers, TasksOnlyEnd
  <2> QED BY <2>1, <2>2 DEF PoolNumbers
<1>3. OneExecutor'
  BY DEF SupervisionInv, OneExecutor, TasksOnlyEnd, TasksTyped, Stopping
<1>4. BrokenRunsNothing'
  BY DEF SupervisionInv, BrokenRunsNothing, TasksOnlyEnd, Stopping
<1>5. RebuiltFromNothing'
  BY DEF SupervisionInv, RebuiltFromNothing, TasksOnlyEnd, Stopping
<1>6. RunningIsListed'
  BY DEF SupervisionInv, RunningIsListed, TasksOnlyEnd, Stopping
<1>7. StopKnowsWorkers'
  BY DEF SupervisionInv, StopKnowsWorkers, TasksOnlyEnd, Stopping
<1> QED BY <1>1, <1>2, <1>3, <1>4, <1>5, <1>6, <1>7 DEF SupervisionInv

LEMMA NumbersTyped ==
  ASSUME TypeOK
  PROVE  /\ TasksTyped /\ crashes \in Nat /\ poolNo \in Nat /\ nextGen \in Nat
         /\ broken \subseteq Nat /\ stopSaw.gen \in Nat
         /\ \A g \in Gens : task[g].pool \in Nat /\ task[g].worker \in Workers
<1> USE WorkerPoolAssumption
<1>1. TasksTyped BY DEF TypeOK, TasksTyped
<1>2. \A g \in Gens : task[g].pool \in Nat /\ task[g].worker \in Workers
  BY <1>1 DEF TasksTyped, Task
<1>3. crashes \in Nat /\ poolNo \in Nat /\ nextGen \in Nat BY DEF TypeOK
<1>4. broken \subseteq Nat /\ stopSaw.gen \in Nat BY DEF TypeOK
<1> QED BY <1>1, <1>2, <1>3, <1>4

LEMMA TakeTask ==
  ASSUME TypeOK, SupervisionInv, NEW g \in Gens, Take(g)
  PROVE  SupervisionInv'
<1>1. CASE UNCHANGED task BY <1>1, TasksUntouched DEF Take
<1>2. CASE EndTasks({g}, "exited")
  <2>1. Running(g) BY DEF Take
  <2>2. TasksOnlyEnd /\ \A h \in Gens : task'[h].state = "broken" => task[h].state = "broken"
    BY <1>2, <2>1, NumbersTyped, EndTasksEnds
  <2> QED
    BY <2>2, EndingKeeps, NumbersTyped
    DEF Take, SupervisionInv, PoolNumbers, BrokenRunsNothing, TasksOnlyEnd
<1> QED BY <1>1, <1>2 DEF Take

LEMMA ExitTask ==
  ASSUME TypeOK, SupervisionInv, NEW g \in Gens, Exit(g)
  PROVE  SupervisionInv'
<1>1. Running(g) /\ EndTasks({g}, "exited") BY DEF Exit
<1>2. TasksOnlyEnd /\ \A h \in Gens : task'[h].state = "broken" => task[h].state = "broken"
  BY <1>1, NumbersTyped, EndTasksEnds
<1> QED
  BY <1>2, EndingKeeps, NumbersTyped
  DEF Exit, SupervisionInv, PoolNumbers, BrokenRunsNothing, TasksOnlyEnd

LEMMA BreakTask ==
  ASSUME TypeOK, SupervisionInv, NEW p \in Pools, Break(p)
  PROVE  SupervisionInv'
<1> DEFINE gone == {g \in Gens : Running(g) /\ task[g].pool = p}
<1>1. EndTasks(gone, "broken") BY DEF Break
<1>2. /\ TasksOnlyEnd
      /\ \A g \in Gens : task'[g].state = IF g \in gone THEN "broken" ELSE task[g].state
  <2> HIDE DEF gone
  <2>1. \A g \in gone : Running(g) BY DEF gone
  <2> QED BY <1>1, <2>1, NumbersTyped, EndTasksEnds
<1>3. crashes' = crashes + 1 /\ broken' = broken \cup {p} BY DEF Break
<1>4. p <= crashes'
  <2>1. p = poolNo \/ \E g \in Gens : task[g].pool = p BY DEF Break
  <2> QED BY <1>3, <2>1, NumbersTyped DEF SupervisionInv, PoolNumbers
<1>5. \A g \in Gens : Running(g)' => task[g].pool \notin broken'
  BY <1>2, <1>3 DEF SupervisionInv, BrokenRunsNothing, TasksOnlyEnd, Running
<1>6. \A q \in broken' : q \in Nat /\ q <= crashes'
  BY <1>3, <1>4, NumbersTyped, WorkerPoolAssumption DEF SupervisionInv, PoolNumbers
<1>7. \A g \in Gens :
        task'[g].state = "broken" => task[g].state = "broken" \/ task[g].pool \in broken'
  BY <1>2, <1>3
<1>8. UNCHANGED <<handles, nextGen, poolNo, sup, stopPc, stopSaw>> BY DEF Break
<1> HIDE DEF gone
<1> QED BY <1>2, <1>3, <1>5, <1>6, <1>7, <1>8, EndingKeeps, NumbersTyped

LEMMA KillWorkersTask ==
  ASSUME TypeOK, SupervisionInv, KillWorkers
  PROVE  SupervisionInv'
<1> DEFINE left == {g \in Gens : Running(g) /\ task[g].pool = stopSaw.pool}
<1>1. EndTasks(left, "broken") /\ Stopping BY DEF KillWorkers, Stopping
<1>2. TasksOnlyEnd
  <2> HIDE DEF left
  <2>1. \A g \in left : Running(g) BY DEF left
  <2> QED BY <1>1, <2>1, NumbersTyped, EndTasksEnds
<1> QED
  BY <1>1, <1>2, EndingKeeps, NumbersTyped
  DEF KillWorkers, SupervisionInv, PoolNumbers, BrokenRunsNothing, TasksOnlyEnd

LEMMA ResubmitTask ==
  ASSUME TypeOK, SupervisionInv, NEW w \in Workers, Resubmit(w)
  PROVE  SupervisionInv'
<1> USE DEF Stopping
<1>1. ~Stopping /\ nextGen \in Gens /\ nextGen' = nextGen + 1
  BY WorkerPoolAssumption DEF Resubmit, TypeOK
<1>2. CASE poolNo \in broken
  BY <1>1, <1>2, NumbersTyped
  DEF Resubmit, SupervisionInv, Unstarted, PoolNumbers, OneExecutor, BrokenRunsNothing,
      RebuiltFromNothing, RunningIsListed, StopKnowsWorkers, Running
<1>3. CASE poolNo \notin broken
  <2>1. /\ task' = [task EXCEPT ![nextGen] = [worker |-> w, pool |-> poolNo, state |-> "running"]]
        /\ handles' = [handles EXCEPT ![w] = nextGen]
        /\ UNCHANGED <<poolNo, broken, sup, stopPc, stopSaw, crashes>>
    BY <1>3 DEF Resubmit
  <2>2. \A g \in Gens : g # nextGen => task'[g] = task[g] /\ (Running(g)' <=> Running(g))
    BY <2>1, NumbersTyped DEF TasksTyped, Running
  <2>3. /\ task'[nextGen].worker = w /\ task'[nextGen].pool = poolNo
        /\ task'[nextGen].state = "running"
    BY <1>1, <2>1, NumbersTyped DEF TasksTyped
  <2>4. Unstarted' BY <1>1, <2>2, NumbersTyped DEF SupervisionInv, Unstarted
  <2>5. PoolNumbers' BY <2>1, <2>2, <2>3 DEF SupervisionInv, PoolNumbers
  <2>6. OneExecutor'
    <3>1. \A v \in Workers : handles'[v] # 0 => task'[handles'[v]].pool = poolNo
      BY <1>1, <2>1, <2>2, <2>3, NumbersTyped DEF SupervisionInv, OneExecutor, TasksTyped
    <3>2. \A g \in Gens : Running(g)' => task'[g].pool = poolNo
      BY <1>1, <2>2, <2>3 DEF SupervisionInv, OneExecutor
    <3> QED BY <2>1, <3>1, <3>2 DEF OneExecutor
  <2>7. BrokenRunsNothing'
    BY <1>1, <1>3, <2>1, <2>2, <2>3 DEF SupervisionInv, BrokenRunsNothing
  <2>8. RebuiltFromNothing' BY <2>1 DEF Resubmit, RebuiltFromNothing
  <2>9. RunningIsListed'
    <3>1. \A g \in Gens : Running(g) => task[g].worker # w
      BY <1>1 DEF SupervisionInv, RunningIsListed, Resubmit, FirstDone, Done, Running
    <3> QED BY <1>1, <2>1, <2>2, <2>3, <3>1, NumbersTyped
            DEF SupervisionInv, RunningIsListed, TasksTyped
  <2>10. StopKnowsWorkers' BY <1>1, <2>1 DEF StopKnowsWorkers
  <2> QED BY <2>4, <2>5, <2>6, <2>7, <2>8, <2>9, <2>10 DEF SupervisionInv
<1> QED BY <1>2, <1>3

LEMMA BeginRestartTask ==
  ASSUME TypeOK, SupervisionInv, NEW w \in Workers, BeginRestart(w)
  PROVE  SupervisionInv'
<1> USE DEF Stopping
<1>1. /\ ~Stopping /\ handles[w] \in Gens /\ task[handles[w]].state = "broken"
      /\ handles[w] # 0
  BY WorkerPoolAssumption DEF BeginRestart, FirstDone, Done
<1>2. poolNo \in broken
  BY <1>1 DEF SupervisionInv, OneExecutor, BrokenRunsNothing
<1>3. \A g \in Gens : ~Running(g)
  BY <1>1, <1>2 DEF SupervisionInv, OneExecutor, BrokenRunsNothing
<1> QED
  BY <1>1, <1>3
  DEF BeginRestart, SupervisionInv, Unstarted, PoolNumbers, OneExecutor, BrokenRunsNothing,
      RebuiltFromNothing, RunningIsListed, StopKnowsWorkers, Running

LEMMA RebuildTask ==
  ASSUME TypeOK, SupervisionInv, Rebuild
  PROVE  SupervisionInv'
<1> USE WorkerPoolAssumption DEF Stopping
<1> DEFINE new == nextGen .. nextGen + WorkerCount - 1
<1>1. /\ poolNo' = crashes + 1 /\ nextGen' = nextGen + WorkerCount
      /\ handles' = [w \in Workers |-> nextGen + w]
      /\ sup' = "watching" /\ UNCHANGED <<broken, stopPc, stopSaw, crashes>>
  BY DEF Rebuild
<1>2. new \subseteq Gens BY NumbersTyped DEF Rebuild, TypeOK
<1>3. \A g \in new : /\ task'[g].worker = g - nextGen /\ task'[g].pool = crashes + 1
                     /\ task'[g].state = "running"
  BY <1>2 DEF Rebuild, Submitted
<1>4. \A g \in Gens \ new : task'[g] = task[g] BY DEF Rebuild, Submitted
<1>5. ~Stopping => \A g \in Gens : ~Running(g)
  BY DEF Rebuild, SupervisionInv, RebuiltFromNothing
<1>6. \A g \in Gens : g \in new \/ (g \notin new /\ (Running(g)' <=> Running(g)))
  BY <1>4 DEF Running
<1> HIDE DEF new
<1>7. \A w \in Workers : nextGen + w \in new /\ nextGen + w # 0
  <2>1. nextGen \in Nat /\ nextGen > 0 BY DEF TypeOK
  <2> QED BY <2>1 DEF new
<1>8. Unstarted'
  <2>1. \A g \in Gens : g >= nextGen + WorkerCount => g \notin new /\ g >= nextGen
    BY <1>2, NumbersTyped DEF new
  <2> QED BY <1>1, <1>4, <2>1 DEF SupervisionInv, Unstarted
<1>9. PoolNumbers'
  <2>1. \A g \in Gens : task'[g].pool <= crashes + 1
    BY <1>3, <1>4, NumbersTyped DEF SupervisionInv, PoolNumbers
  <2> QED BY <1>1, <2>1, NumbersTyped DEF SupervisionInv, PoolNumbers
<1>10. OneExecutor' BY <1>1, <1>3, <1>5, <1>6, <1>7 DEF OneExecutor
<1>11. BrokenRunsNothing'
  <2>1. crashes + 1 \notin broken BY NumbersTyped DEF SupervisionInv, PoolNumbers
  <2> QED BY <1>1, <1>3, <1>4, <1>6, <2>1 DEF SupervisionInv, BrokenRunsNothing
<1>12. RebuiltFromNothing' BY <1>1 DEF RebuiltFromNothing
<1>13. RunningIsListed'
  <2>1. \A g \in new : g - nextGen \in Workers /\ nextGen + (g - nextGen) = g
    BY NumbersTyped DEF new
  <2> QED BY <1>1, <1>3, <1>5, <1>6, <2>1 DEF RunningIsListed
<1>14. StopKnowsWorkers'
  <2>1. \A g \in new : g >= nextGen BY DEF new
  <2>2. Stopping => stopSaw.gen <= nextGen BY DEF SupervisionInv, StopKnowsWorkers
  <2>3. Stopping => \A g \in new : g >= stopSaw.gen /\ ~(g < stopSaw.gen)
    BY <1>2, <2>1, <2>2, NumbersTyped
  <2>4. Stopping => stopSaw.gen <= nextGen'
    BY <1>1, <2>2, NumbersTyped
  <2> QED BY <1>1, <1>4, <1>6, <2>3, <2>4 DEF SupervisionInv, StopKnowsWorkers
<1> QED BY <1>8, <1>9, <1>10, <1>11, <1>12, <1>13, <1>14 DEF SupervisionInv

LEMMA BeginStopTask ==
  ASSUME TypeOK, SupervisionInv, BeginStop
  PROVE  SupervisionInv'
<1>1. ~Stopping /\ Stopping' /\ stopPc' = "waiting" /\ stopSaw' = [pool |-> poolNo, gen |-> nextGen]
  BY DEF BeginStop, Stopping
<1>2. UNCHANGED <<handles, task, nextGen, poolNo, broken, sup, crashes>> BY DEF BeginStop
<1>3. \A g \in Gens : Running(g)' <=> Running(g) BY <1>2 DEF Running
<1>4. StopKnowsWorkers'
  BY <1>1, <1>2, <1>3, NumbersTyped DEF SupervisionInv, StopKnowsWorkers, OneExecutor
<1> QED
  BY <1>1, <1>2, <1>3, <1>4
  DEF SupervisionInv, Unstarted, PoolNumbers, OneExecutor, BrokenRunsNothing,
      RebuiltFromNothing, RunningIsListed

LEMMA StopExecutorTask ==
  ASSUME TypeOK, SupervisionInv, StopExecutor
  PROVE  SupervisionInv'
<1>1. Stopping /\ Stopping' BY DEF StopExecutor, Stopping
<1>2. UNCHANGED <<task, nextGen, broken, sup, crashes, stopSaw>> /\ poolNo' = 0
  BY DEF StopExecutor
<1>3. \A g \in Gens : Running(g)' <=> Running(g) BY <1>2 DEF Running
<1>4. StopKnowsWorkers'
  <2>1. \A g \in Gens : Running(g) => ~(g < stopSaw.gen)
    BY <1>1 DEF StopExecutor, SupervisionInv, StopKnowsWorkers
  <2>2. \A g \in Gens : Running(g) => g >= stopSaw.gen
    BY <2>1, NumbersTyped
  <2> QED BY <1>1, <1>2, <1>3, <2>2 DEF SupervisionInv, StopKnowsWorkers
<1> QED
  BY <1>1, <1>2, <1>3, <1>4, NumbersTyped
  DEF SupervisionInv, Unstarted, PoolNumbers, OneExecutor, BrokenRunsNothing,
      RebuiltFromNothing, RunningIsListed

\* The steps that leave tasks and handles alone.
LEMMA ControlTask ==
  ASSUME TypeOK, SupervisionInv, JoinReader \/ EndSupervision \/ CloseQueues
  PROVE  SupervisionInv'
BY DEF JoinReader, EndSupervision, CloseQueues, SupervisionInv, Unstarted, PoolNumbers,
       OneExecutor, BrokenRunsNothing, RebuiltFromNothing, RunningIsListed,
       StopKnowsWorkers, Running, Stopping

LEMMA NextTask ==
  ASSUME TypeOK, SupervisionInv, [Next]_vars
  PROVE  SupervisionInv'
<1>1. CASE UNCHANGED vars BY <1>1, TasksUntouched
<1>2. ASSUME NEW r \in Requests, Query(r) PROVE SupervisionInv'
  BY <1>2, TasksUntouched DEF Query, Submit, Resume, GiveUp
<1>3. ASSUME NEW g \in Gens, Worker(g) PROVE SupervisionInv'
  <2>1. CASE \E r \in Requests : Finish(g, r) BY <2>1, TasksUntouched DEF Finish
  <2> QED BY <1>3, <2>1, TakeTask, ExitTask DEF Worker
<1>4. CASE Read \/ ReaderExit \/ \E m \in calls : Handle(m)
  BY <1>4, TasksUntouched DEF Read, ReaderExit, Handle
<1>5. CASE Restart BY <1>5, BeginRestartTask, ControlTask, RebuildTask DEF Restart
<1>6. CASE Stop BY <1>6, BeginStopTask, KillWorkersTask, StopExecutorTask, ControlTask DEF Stop
<1> QED
  BY <1>1, <1>2, <1>3, <1>4, <1>5, <1>6, BreakTask, ResubmitTask, ControlTask DEF Next

-----------------------------------------------------------------------------
(***************************************************************************)
(* Types                                                                   *)
(***************************************************************************)
QueryTypes ==
  /\ qpc \in [Requests -> {"new", "waiting", "returned", "raised"}]
  /\ pending \subseteq Requests /\ fired \subseteq Requests
  /\ holder \in [Requests -> Outcomes]
  /\ turn \in Workers

QueueTypes ==
  /\ reqQ \in [Workers -> Seq(Requests \cup {StopMsg})]
  /\ \A w \in Workers : Len(reqQ[w]) <= QueueSize

MessageTypes ==
  /\ resQ \subseteq Message /\ Cardinality(resQ) <= QueueSize /\ IsFiniteSet(resQ)
  /\ calls \subseteq Message

TaskTypes ==
  /\ handles \in [Workers -> Gens \cup {0}]
  /\ task \in [Gens -> Task]
  /\ busy \in [Gens -> SUBSET Requests]
  /\ nextGen \in 1 .. MaxGen + 1
  /\ poolNo \in Pools /\ broken \subseteq Pools

ControlTypes ==
  /\ sup \in {"watching", "joining", "killing", "ended", "dead"}
  /\ reader \in {"on", "told", "off"}
  /\ stopPc \in {"no", "waiting", "joining", "stopped"}
  /\ stopSaw \in [pool: Pools, gen: 0 .. MaxGen + 1]
  /\ crashes \in 0 .. MaxCrashes /\ exits \in 0 .. MaxExits

Types == QueryTypes /\ QueueTypes /\ MessageTypes /\ TaskTypes /\ ControlTypes

LEMMA TypesSplit == Types <=> TypeOK /\ IsFiniteSet(resQ)
BY DEF Types, TypeOK, QueryTypes, QueueTypes, MessageTypes, TaskTypes, ControlTypes

LEMMA ModIsWorker == \A n \in Nat : n % WorkerCount \in Workers
BY WorkerPoolAssumption

\* A set of naturals that is not empty has a least element.
LEMMA LeastNat ==
  ASSUME NEW S, S \subseteq Nat, S # {}
  PROVE  \E n \in S : \A m \in S : n <= m
<1> DEFINE Less == {ss \in Nat \X Nat : ss[1] < ss[2]}
<1>1. IsWellFoundedOn(Less, Nat) BY NatLessThanWellFounded DEF OpToRel
<1>2. \A x, y \in Nat : <<x, y>> \in Less <=> x < y OBVIOUS
<1> HIDE DEF Less
<1>3. \E n \in S : \A m \in S : ~(<<m, n>> \in Less) BY <1>1, WFMin
<1>4. \A x, y \in S : <<x, y>> \in Less \/ y <= x
  <2>1. \A x, y \in Nat : x < y \/ y <= x OBVIOUS
  <2> QED BY <1>2, <2>1
<1> QED BY <1>3, <1>4

LEMMA ChosenWorker ==
  ASSUME QueryTypes, Alive # {}, NEW first, first = CHOOSE o \in Alive : \A q \in Alive : o <= q
  PROVE  first \in Alive /\ (turn + first) % WorkerCount \in Workers
<1>1. first \in Alive
  <2>1. Alive \subseteq Nat BY WorkerPoolAssumption DEF Alive
  <2>2. \E o \in Alive : \A q \in Alive : o <= q BY <2>1, LeastNat
  <2> QED BY <2>2
<1>2. turn + first \in Nat
  <2>1. turn \in Nat /\ first \in Nat
    BY <1>1, WorkerPoolAssumption DEF Alive, QueryTypes
  <2> QED BY <2>1
<1> QED BY <1>1, <1>2, ModIsWorker


LEMMA SubmitTypes ==
  ASSUME Types, NEW r \in Requests, Submit(r)
  PROVE  Types'
<1> USE WorkerPoolAssumption DEF Types
<1>1. turn' \in Workers
  <2>1. turn \in Workers /\ turn + 1 \in Nat BY DEF QueryTypes
  <2> QED BY <2>1, ModIsWorker DEF Submit
<1>2. QueryTypes' BY <1>1 DEF QueryTypes, Submit
<1>3. QueueTypes'
  <2>1. CASE UNCHANGED reqQ BY <2>1 DEF QueueTypes
  <2>2. CASE ~UNCHANGED reqQ
    <3>1. PICK w \in Workers : /\ Len(reqQ[w]) < QueueSize
                               /\ reqQ' = [reqQ EXCEPT ![w] = Append(@, r)]
      BY <2>2, ChosenWorker DEF Submit
    <3>2. /\ Append(reqQ[w], r) \in Seq(Requests \cup {StopMsg})
          /\ Len(Append(reqQ[w], r)) = Len(reqQ[w]) + 1
      BY AppendProperties DEF QueueTypes
    <3>3. Len(reqQ[w]) \in Nat BY LenProperties DEF QueueTypes
    <3> QED BY <3>1, <3>2, <3>3 DEF QueueTypes
  <2> QED BY <2>1, <2>2
<1>4. UNCHANGED <<resQ, calls, taskVars, ctlVars, envVars>> BY DEF Submit
<1>5. MessageTypes' /\ TaskTypes' /\ ControlTypes'
  BY <1>4 DEF MessageTypes, TaskTypes, ControlTypes
<1> QED BY <1>2, <1>3, <1>5

LEMMA TakeTypes ==
  ASSUME Types, NEW g \in Gens, Take(g)
  PROVE  Types'
<1> USE WorkerPoolAssumption DEF Types
<1> DEFINE w == task[g].worker
<1>1. w \in Workers BY DEF TaskTypes, Task
<1>2. /\ Head(reqQ[w]) \in Requests \cup {StopMsg}
      /\ Tail(reqQ[w]) \in Seq(Requests \cup {StopMsg})
      /\ Len(Tail(reqQ[w])) = Len(reqQ[w]) - 1 /\ Len(reqQ[w]) \in Nat
  BY <1>1, HeadTailProperties, LenProperties DEF QueueTypes, Take
<1>3. reqQ' = [reqQ EXCEPT ![w] = Tail(@)] BY DEF Take
<1> HIDE DEF w
<1>4. QueueTypes' BY <1>1, <1>2, <1>3 DEF QueueTypes
<1>5. task' \in [Gens -> Task] /\ busy' \in [Gens -> SUBSET Requests]
  <2>1. TasksTyped BY DEF TaskTypes, TasksTyped
  <2>2. CASE Head(reqQ[w]) = StopMsg
    <3>1. EndTasks({g}, "exited") /\ Running(g) BY <2>2 DEF Take, w
    <3>2. task' \in [Gens -> Task] BY <2>1, <3>1, EndTasksEnds
    <3>3. busy' \in [Gens -> SUBSET Requests] BY <3>1 DEF EndTasks, TaskTypes
    <3> QED BY <3>2, <3>3
  <2>3. CASE Head(reqQ[w]) # StopMsg
    <3>1. UNCHANGED task /\ busy' = [busy EXCEPT ![g] = @ \cup {Head(reqQ[w])}]
      BY <2>3 DEF Take, w
    <3> QED BY <1>2, <2>3, <3>1 DEF TaskTypes
  <2> QED BY <2>2, <2>3
<1>6. QueryTypes' /\ ControlTypes' /\ MessageTypes'
  BY DEF Take, QueryTypes, ControlTypes, MessageTypes
<1>7. TaskTypes' BY <1>5 DEF Take, TaskTypes
<1> QED BY <1>4, <1>6, <1>7

\* Steps that end tasks.
LEMMA EndTypes ==
  ASSUME TaskTypes, NEW gens, \A g \in gens : Running(g), NEW st \in {"exited", "broken"},
         EndTasks(gens, st)
  PROVE  task' \in [Gens -> Task] /\ busy' \in [Gens -> SUBSET Requests]
<1>1. TasksTyped BY DEF TaskTypes, TasksTyped
<1>2. task' \in [Gens -> Task] BY <1>1, EndTasksEnds
<1>3. busy' \in [Gens -> SUBSET Requests] BY DEF EndTasks, TaskTypes
<1> QED BY <1>2, <1>3

LEMMA EndingTypes ==
  ASSUME Types,
         \/ \E g \in Gens : Exit(g)
         \/ \E p \in Pools : Break(p)
         \/ KillWorkers
  PROVE  Types'
<1> USE WorkerPoolAssumption DEF Types
<1>1. ASSUME NEW g \in Gens, Exit(g)
      PROVE  task' \in [Gens -> Task] /\ busy' \in [Gens -> SUBSET Requests]
  BY <1>1, EndTypes DEF Exit
<1>2. ASSUME NEW p \in Pools, Break(p)
      PROVE  task' \in [Gens -> Task] /\ busy' \in [Gens -> SUBSET Requests]
  <2> DEFINE gone == {g \in Gens : Running(g) /\ task[g].pool = p}
  <2>1. EndTasks(gone, "broken") /\ \A g \in gone : Running(g) BY <1>2 DEF Break
  <2> HIDE DEF gone
  <2> QED BY <2>1, EndTypes
<1>3. ASSUME KillWorkers
      PROVE  task' \in [Gens -> Task] /\ busy' \in [Gens -> SUBSET Requests]
  <2> DEFINE left == {g \in Gens : Running(g) /\ task[g].pool = stopSaw.pool}
  <2>1. EndTasks(left, "broken") /\ \A g \in left : Running(g) BY <1>3 DEF KillWorkers
  <2> HIDE DEF left
  <2> QED BY <2>1, EndTypes
<1>4. TaskTypes'
  <2>1. UNCHANGED <<handles, nextGen, poolNo>> /\ broken' \subseteq Pools
    BY DEF Exit, Break, KillWorkers, TaskTypes
  <2> QED BY <1>1, <1>2, <1>3, <2>1 DEF TaskTypes
<1>5. ControlTypes'
  <2>1. crashes' \in 0 .. MaxCrashes /\ exits' \in 0 .. MaxExits
    <3>1. crashes \in 0 .. MaxCrashes /\ exits \in 0 .. MaxExits BY DEF ControlTypes
    <3>2. ASSUME NEW g \in Gens, Exit(g)
          PROVE  crashes' = crashes /\ exits' = exits + 1 /\ exits < MaxExits
      BY <3>2 DEF Exit
    <3>3. ASSUME NEW q \in Pools, Break(q)
          PROVE  crashes' = crashes + 1 /\ exits' = exits /\ crashes < MaxCrashes
      BY <3>3 DEF Break
    <3>4. ASSUME KillWorkers PROVE crashes' = crashes /\ exits' = exits
      BY <3>4 DEF KillWorkers
    <3> QED BY <3>1, <3>2, <3>3, <3>4
  <2>2. UNCHANGED ctlVars BY DEF Exit, Break, KillWorkers
  <2> QED BY <2>1, <2>2 DEF ControlTypes
<1>6. UNCHANGED <<queryVars, ipcVars>> BY DEF Exit, Break, KillWorkers
<1>7. QueryTypes' /\ QueueTypes' /\ MessageTypes'
  BY <1>6 DEF QueryTypes, QueueTypes, MessageTypes
<1> QED BY <1>4, <1>5, <1>7

LEMMA FinishTypes ==
  ASSUME Types, NEW g \in Gens, NEW r \in Requests, Finish(g, r)
  PROVE  Types'
<1> USE WorkerPoolAssumption DEF Types
<1>1. PICK outcome \in Outcomes : resQ' = resQ \cup {[query |-> r, gen |-> g, outcome |-> outcome]}
  BY DEF Finish
<1> DEFINE m == [query |-> r, gen |-> g, outcome |-> outcome]
<1>2. m \in Message BY DEF Message
<1>3. resQ' = resQ \cup {m} BY <1>1
<1> HIDE DEF m
<1>4. IsFiniteSet(resQ') /\ Cardinality(resQ') <= QueueSize
  <2>1. IsFiniteSet(resQ) /\ Cardinality(resQ) < QueueSize BY DEF Finish, MessageTypes
  <2>2. Cardinality(resQ) \in Nat BY <2>1, FS_CardinalityType
  <2>3. /\ IsFiniteSet(resQ \cup {m})
        /\ Cardinality(resQ \cup {m}) = IF m \in resQ THEN Cardinality(resQ)
                                        ELSE Cardinality(resQ) + 1
    BY <2>1, FS_AddElement
  <2> QED BY <1>3, <2>1, <2>2, <2>3
<1>5. MessageTypes' BY <1>2, <1>3, <1>4 DEF MessageTypes, Finish
<1>6. TaskTypes' BY DEF TaskTypes, Finish
<1>7. UNCHANGED <<queryVars, reqQ, ctlVars, envVars>> BY DEF Finish
<1>8. QueryTypes' /\ QueueTypes' /\ ControlTypes'
  BY <1>7 DEF QueryTypes, QueueTypes, ControlTypes
<1> QED BY <1>5, <1>6, <1>8

LEMMA ReadTypes ==
  ASSUME Types, Read
  PROVE  Types'
<1> USE WorkerPoolAssumption DEF Types
<1>1. PICK m \in resQ : resQ' = resQ \ {m} /\ calls' = calls \cup {m} BY DEF Read
<1>2. IsFiniteSet(resQ') /\ Cardinality(resQ') <= QueueSize
  <2>1. IsFiniteSet(resQ) /\ Cardinality(resQ) <= QueueSize BY DEF MessageTypes
  <2>2. resQ' \in SUBSET resQ BY <1>1
  <2>3. /\ IsFiniteSet(resQ') /\ Cardinality(resQ') <= Cardinality(resQ)
        /\ Cardinality(resQ) \in Nat /\ Cardinality(resQ') \in Nat
    BY <2>1, <2>2, FS_Subset, FS_CardinalityType
  <2> QED BY <2>1, <2>3
<1>3. MessageTypes' BY <1>1, <1>2 DEF MessageTypes
<1>4. UNCHANGED <<queryVars, reqQ, taskVars, ctlVars, envVars>> BY DEF Read
<1>5. QueryTypes' /\ QueueTypes' /\ TaskTypes' /\ ControlTypes'
  BY <1>4 DEF QueryTypes, QueueTypes, TaskTypes, ControlTypes
<1> QED BY <1>3, <1>5

LEMMA HandleTypes ==
  ASSUME Types, NEW m \in calls, Handle(m)
  PROVE  Types'
<1> USE WorkerPoolAssumption DEF Types
<1>1. m.query \in Requests /\ m.outcome \in Outcomes BY DEF MessageTypes, Message
<1>2. QueryTypes' BY <1>1 DEF QueryTypes, Handle
<1>3. MessageTypes' BY DEF MessageTypes, Handle
<1>4. UNCHANGED <<reqQ, taskVars, ctlVars, envVars>> BY DEF Handle
<1>5. QueueTypes' /\ TaskTypes' /\ ControlTypes'
  BY <1>4 DEF QueueTypes, TaskTypes, ControlTypes
<1> QED BY <1>2, <1>3, <1>5

LEMMA ResubmitTypes ==
  ASSUME Types, NEW w \in Workers, Resubmit(w)
  PROVE  Types'
<1> USE WorkerPoolAssumption DEF Types
<1>1. nextGen \in Gens /\ nextGen' \in 1 .. MaxGen + 1 BY DEF Resubmit, TaskTypes
<1>2. [worker |-> w, pool |-> poolNo, state |-> "running"] \in Task BY DEF Task, TaskTypes
<1>3. TaskTypes' BY <1>1, <1>2 DEF Resubmit, TaskTypes
<1>4. ControlTypes' BY DEF Resubmit, ControlTypes
<1>5. UNCHANGED <<queryVars, ipcVars>> BY DEF Resubmit
<1>6. QueryTypes' /\ QueueTypes' /\ MessageTypes'
  BY <1>5 DEF QueryTypes, QueueTypes, MessageTypes
<1> QED BY <1>3, <1>4, <1>6

LEMMA EmptyQueues ==
  ASSUME reqQ' = [w \in Workers |-> <<>>], resQ' = {}, UNCHANGED calls, Types
  PROVE  QueueTypes' /\ MessageTypes'
<1> USE WorkerPoolAssumption DEF Types
<1>1. \A w \in Workers : reqQ'[w] \in Seq(Requests \cup {StopMsg}) /\ Len(reqQ'[w]) = 0
  BY EmptySeq
<1>2. QueueTypes' BY <1>1 DEF QueueTypes
<1>3. MessageTypes' BY FS_EmptySet DEF MessageTypes
<1> QED BY <1>2, <1>3

LEMMA RebuildTypes ==
  ASSUME Types, Rebuild
  PROVE  Types'
<1> USE WorkerPoolAssumption DEF Types
<1>1. QueueTypes' /\ MessageTypes' BY EmptyQueues DEF Rebuild
<1>2. /\ nextGen \in 1 .. MaxGen + 1 /\ crashes \in 0 .. MaxCrashes
      /\ nextGen + WorkerCount <= MaxGen + 1
  BY DEF TaskTypes, ControlTypes, Rebuild
<1>3. handles' \in [Workers -> Gens \cup {0}] BY <1>2 DEF Rebuild
<1>4. task' \in [Gens -> Task]
  <2>1. crashes + 1 \in Pools BY <1>2
  <2>2. \A g \in nextGen .. nextGen + WorkerCount - 1 : g - nextGen \in Workers BY <1>2
  <2>3. \A g \in Gens : Submitted(nextGen, crashes + 1)[g] \in Task
    BY <2>1, <2>2 DEF Submitted, Task, TaskTypes
  <2>4. task' = Submitted(nextGen, crashes + 1) BY DEF Rebuild
  <2>5. task' = [g \in Gens |-> task'[g]] BY <2>4 DEF Submitted
  <2> QED BY <2>3, <2>4, <2>5
<1>5. TaskTypes' BY <1>2, <1>3, <1>4 DEF Rebuild, TaskTypes
<1>6. QueryTypes' /\ ControlTypes' BY DEF Rebuild, QueryTypes, ControlTypes
<1> QED BY <1>1, <1>5, <1>6

LEMMA BeginStopTypes ==
  ASSUME Types, BeginStop
  PROVE  Types'
<1> USE WorkerPoolAssumption DEF Types
<1>1. \A w \in Workers :
        /\ Append(reqQ[w], StopMsg) \in Seq(Requests \cup {StopMsg})
        /\ Len(Append(reqQ[w], StopMsg)) = Len(reqQ[w]) + 1 /\ Len(reqQ[w]) \in Nat
  BY AppendProperties, LenProperties DEF QueueTypes
<1>2. QueueTypes' BY <1>1 DEF QueueTypes, BeginStop
<1>3. stopSaw' \in [pool: Pools, gen: 0 .. MaxGen + 1] BY DEF BeginStop, TaskTypes
<1>4. ControlTypes' BY <1>3 DEF BeginStop, ControlTypes
<1>5. UNCHANGED <<queryVars, resQ, calls, taskVars>> BY DEF BeginStop
<1>6. QueryTypes' /\ MessageTypes' /\ TaskTypes'
  BY <1>5 DEF QueryTypes, MessageTypes, TaskTypes
<1> QED BY <1>2, <1>4, <1>6

LEMMA FailPendingTypes ==
  ASSUME QueryTypes, FailPending, UNCHANGED <<qpc, turn>>
  PROVE  QueryTypes'
BY DEF QueryTypes, FailPending, Outcomes

LEMMA NextTypes ==
  ASSUME Types, [Next]_vars
  PROVE  Types'
<1> USE WorkerPoolAssumption DEF Types
<1>1. CASE UNCHANGED vars
  BY <1>1 DEF QueryTypes, QueueTypes, MessageTypes, TaskTypes, ControlTypes
<1>2. ASSUME NEW r \in Requests, Query(r) PROVE Types'
  <2>1. CASE Resume(r) \/ GiveUp(r)
    <3>1. QueryTypes' BY <2>1 DEF Resume, GiveUp, QueryTypes
    <3>2. UNCHANGED <<ipcVars, taskVars, ctlVars, envVars>> BY <2>1 DEF Resume, GiveUp
    <3> QED BY <3>1, <3>2 DEF QueueTypes, MessageTypes, TaskTypes, ControlTypes
  <2> QED BY <1>2, <2>1, SubmitTypes DEF Query
<1>3. ASSUME NEW g \in Gens, Worker(g) PROVE Types'
  BY <1>3, TakeTypes, EndingTypes, FinishTypes DEF Worker
<1>4. CASE ReaderExit \/ JoinReader \/ EndSupervision
  <2>1. ControlTypes' BY <1>4 DEF ReaderExit, JoinReader, EndSupervision, ControlTypes
  <2>2. UNCHANGED <<queryVars, ipcVars, taskVars>>
    BY <1>4 DEF ReaderExit, JoinReader, EndSupervision
  <2> QED BY <2>1, <2>2 DEF QueryTypes, QueueTypes, MessageTypes, TaskTypes
<1>5. ASSUME NEW w \in Workers, BeginRestart(w) PROVE Types'
  <2>1. QueryTypes' BY <1>5, FailPendingTypes DEF BeginRestart
  <2>2. ControlTypes' BY <1>5 DEF BeginRestart, TellReader, ControlTypes
  <2>3. UNCHANGED <<ipcVars, taskVars>> BY <1>5 DEF BeginRestart
  <2> QED BY <2>1, <2>2, <2>3 DEF QueueTypes, MessageTypes, TaskTypes
<1>6. CASE StopExecutor
  <2>1. QueryTypes' BY <1>6, FailPendingTypes DEF StopExecutor
  <2>2. ControlTypes' BY <1>6 DEF StopExecutor, TellReader, ControlTypes
  <2>3. TaskTypes' BY <1>6 DEF StopExecutor, TaskTypes
  <2>4. UNCHANGED ipcVars BY <1>6 DEF StopExecutor
  <2> QED BY <2>1, <2>2, <2>3, <2>4 DEF QueueTypes, MessageTypes
<1>7. CASE CloseQueues
  <2>1. QueueTypes' /\ MessageTypes' BY <1>7, EmptyQueues DEF CloseQueues
  <2>2. ControlTypes' BY <1>7 DEF CloseQueues, ControlTypes
  <2>3. UNCHANGED <<queryVars, taskVars>> BY <1>7 DEF CloseQueues
  <2> QED BY <2>1, <2>2, <2>3 DEF QueryTypes, TaskTypes
<1>8. CASE Restart BY <1>4, <1>5, <1>8, RebuildTypes DEF Restart
<1>9. CASE Stop BY <1>6, <1>7, <1>9, BeginStopTypes, EndingTypes DEF Stop
<1> QED
  BY <1>1, <1>2, <1>3, <1>4, <1>8, <1>9, EndingTypes, ReadTypes, HandleTypes, ResubmitTypes
  DEF Next
-----------------------------------------------------------------------------
(***************************************************************************)
(* The waiting queries                                                     *)
(***************************************************************************)
LEMMA NoWorkerChosen ==
  ASSUME QueryTypes, \A w \in Workers : handles[w] = 0
  PROVE  Alive = {}
<1> SUFFICES ASSUME NEW offset \in 0 .. WorkerCount - 1
             PROVE  handles[(turn + offset) % WorkerCount] = 0
  BY DEF Alive
<1>1. turn + offset \in Nat BY WorkerPoolAssumption DEF QueryTypes
<1> QED BY <1>1, ModIsWorker

LEMMA SubmitWaiting ==
  ASSUME Types, WaitingInv, NEW r \in Requests, Submit(r)
  PROVE  WaitingInv'
<1> USE DEF Types
<1>1. WaitersAreReachable'
  BY DEF Submit, QueryTypes, WaitingInv, WaitersAreReachable
<1>2. StopSettles'
  <2> SUFFICES ASSUME stopPc \in {"joining", "stopped"}, nextGen = stopSaw.gen
               PROVE  /\ \A w \in Workers : handles'[w] = 0
                      /\ \A q \in Requests : qpc'[q] = "waiting" => q \in fired'
    BY DEF Submit, StopSettles
  <2>1. \A w \in Workers : handles[w] = 0 BY DEF WaitingInv, StopSettles
  <2>2. Alive = {} BY <2>1, NoWorkerChosen
  <2>3. qpc' = [qpc EXCEPT ![r] = "raised"] BY <2>2 DEF Submit
  <2> QED BY <2>1, <2>3 DEF Submit, QueryTypes, WaitingInv, StopSettles
<1> QED BY <1>1, <1>2 DEF WaitingInv

LEMMA NextWaiting ==
  ASSUME Types, WaitingInv, SupervisionInv, [Next]_vars
  PROVE  WaitingInv'
<1> USE DEF WaitingInv, WaitersAreReachable, StopSettles, Types, QueryTypes
<1>1. ASSUME NEW r \in Requests, Query(r) PROVE WaitingInv'
  <2>1. CASE Resume(r) \/ GiveUp(r) BY <2>1 DEF Resume, GiveUp
  <2> QED BY <1>1, <2>1, SubmitWaiting DEF Query
<1>2. ASSUME UNCHANGED <<qpc, pending, fired, handles, nextGen, stopPc, stopSaw>>
      PROVE  WaitingInv'
  BY <1>2
<1>3. ASSUME NEW g \in Gens, Worker(g) PROVE WaitingInv'
  BY <1>2, <1>3 DEF Worker, Take, Exit, Finish
<1>4. ASSUME NEW m \in calls, Handle(m) PROVE WaitingInv' BY <1>4 DEF Handle
<1>5. ASSUME NEW w \in Workers, Resubmit(w) PROVE WaitingInv'
  BY <1>5 DEF Resubmit, Stopping
<1>6. ASSUME NEW w \in Workers, BeginRestart(w) PROVE WaitingInv'
  BY <1>6 DEF BeginRestart, FailPending, Stopping
<1>7. CASE Rebuild
  <2>1. nextGen' = nextGen + WorkerCount /\ UNCHANGED <<qpc, pending, fired, stopPc, stopSaw>>
    BY <1>7 DEF Rebuild
  <2>2. stopPc \in {"joining", "stopped"} => stopSaw.gen <= nextGen
    BY DEF SupervisionInv, StopKnowsWorkers, Stopping
  <2>3. stopSaw.gen \in Nat /\ nextGen \in Nat BY WorkerPoolAssumption DEF TaskTypes, ControlTypes
  <2>4. stopPc \in {"joining", "stopped"} => nextGen' # stopSaw.gen
    BY <2>1, <2>2, <2>3, WorkerPoolAssumption
  <2> QED BY <2>1, <2>4
<1>8. CASE BeginStop BY <1>8 DEF BeginStop
<1>9. CASE StopExecutor BY <1>9 DEF StopExecutor, FailPending
<1>10. CASE CloseQueues BY <1>10 DEF CloseQueues
<1>11. CASE Stop BY <1>2, <1>8, <1>9, <1>10, <1>11 DEF Stop, KillWorkers
<1>12. CASE Restart BY <1>2, <1>6, <1>7, <1>12 DEF Restart, JoinReader
<1>13. CASE UNCHANGED vars \/ Read \/ ReaderExit \/ EndSupervision \/ \E p \in Pools : Break(p)
  BY <1>2, <1>13 DEF Read, ReaderExit, EndSupervision, Break
<1> QED BY <1>1, <1>3, <1>4, <1>5, <1>11, <1>12, <1>13 DEF Next
-----------------------------------------------------------------------------
(***************************************************************************)
(* Where the queries are                                                   *)
(***************************************************************************)
\* Queues lose queries at most, and keep the places of the others.
QueuesKeepPlaces ==
  \A w \in Workers : \A i \in 1 .. Len(reqQ'[w]) :
    reqQ'[w][i] \in Requests =>
      i \in 1 .. Len(reqQ[w]) /\ reqQ'[w][i] = reqQ[w][i]

LEMMA KeptQueues ==
  ASSUME OnceInQueues, QueuesKeepPlaces
  PROVE  OnceInQueues' /\ \A r \in Requests : InQueue(r)' => InQueue(r)
<1>1. OnceInQueues'
  <2> SUFFICES ASSUME NEW x \in Workers, NEW y \in Workers,
                    NEW i \in 1 .. Len(reqQ'[x]), NEW j \in 1 .. Len(reqQ'[y]),
                    reqQ'[x][i] = reqQ'[y][j], reqQ'[x][i] \in Requests
             PROVE  x = y /\ i = j
    BY DEF OnceInQueues
  <2>1. i \in 1 .. Len(reqQ[x]) /\ reqQ'[x][i] = reqQ[x][i] BY DEF QueuesKeepPlaces
  <2>2. j \in 1 .. Len(reqQ[y]) /\ reqQ'[y][j] = reqQ[y][j] BY DEF QueuesKeepPlaces
  <2> QED BY <2>1, <2>2 DEF OnceInQueues
<1>2. \A r \in Requests : InQueue(r)' => InQueue(r) BY DEF QueuesKeepPlaces, InQueue
<1> QED BY <1>1, <1>2

\* Steps after which no query is anywhere it was not before.
LEMMA NothingMoves ==
  ASSUME QueryInv, QueuesKeepPlaces, \A g \in Gens : busy'[g] \subseteq busy[g],
         resQ' \subseteq resQ, calls' \subseteq calls,
         \A r \in Requests : qpc'[r] = "new" => qpc[r] = "new"
  PROVE  QueryInv'
<1>1. OnceInQueues' /\ \A r \in Requests : InQueue(r)' => InQueue(r)
  BY KeptQueues DEF QueryInv
<1>2. OnceInWorkers' /\ \A r \in Requests : InWorker(r)' => InWorker(r)
  BY DEF QueryInv, OnceInWorkers, InWorker
<1>3. OnceInMessages' /\ \A r \in Requests : InMessage(r)' => InMessage(r)
  BY DEF QueryInv, OnceInMessages, InMessage, Messages
<1>4. OnePlace' BY <1>1, <1>2, <1>3 DEF QueryInv, OnePlace
<1> QED BY <1>1, <1>2, <1>3, <1>4 DEF QueryInv

LEMMA SameQueues == ASSUME Types, UNCHANGED reqQ PROVE QueuesKeepPlaces
BY DEF QueuesKeepPlaces

LEMMA EmptiedQueues ==
  ASSUME reqQ' = [w \in Workers |-> <<>>] PROVE QueuesKeepPlaces
BY EmptySeq DEF QueuesKeepPlaces

LEMMA StopMessageQueued ==
  ASSUME Types, BeginStop PROVE QueuesKeepPlaces
<1> SUFFICES ASSUME NEW w \in Workers, NEW i \in 1 .. Len(reqQ'[w]), reqQ'[w][i] \in Requests
             PROVE  i \in 1 .. Len(reqQ[w]) /\ reqQ'[w][i] = reqQ[w][i]
  BY DEF QueuesKeepPlaces
<1>1. /\ Len(Append(reqQ[w], StopMsg)) = Len(reqQ[w]) + 1 /\ Len(reqQ[w]) \in Nat
      /\ \A j \in 1 .. Len(reqQ[w]) : Append(reqQ[w], StopMsg)[j] = reqQ[w][j]
      /\ Append(reqQ[w], StopMsg)[Len(reqQ[w]) + 1] = StopMsg
  BY AppendProperties, LenProperties DEF Types, QueueTypes
<1>2. reqQ'[w] = reqQ[w] \/ reqQ'[w] = Append(reqQ[w], StopMsg) BY DEF BeginStop
<1> QED BY <1>1, <1>2, WorkerPoolAssumption

LEMMA SubmitOnce ==
  ASSUME Types, QueryInv, NEW r \in Requests, Submit(r)
  PROVE  QueryInv'
<1> USE DEF Types
<1>1. /\ UNCHANGED <<busy, resQ, calls>> /\ qpc[r] = "new" /\ qpc'[r] # "new"
      /\ \A q \in Requests : qpc'[q] = "new" => qpc[q] = "new"
  BY DEF Submit, QueryTypes
<1>2. CASE UNCHANGED reqQ BY <1>1, <1>2, NothingMoves, SameQueues
<1>3. CASE ~UNCHANGED reqQ
  <2>1. PICK w \in Workers : reqQ' = [reqQ EXCEPT ![w] = Append(@, r)]
    BY <1>3, ChosenWorker DEF Submit
  <2>2. /\ Len(Append(reqQ[w], r)) = Len(reqQ[w]) + 1
        /\ \A j \in 1 .. Len(reqQ[w]) : Append(reqQ[w], r)[j] = reqQ[w][j]
        /\ Append(reqQ[w], r)[Len(reqQ[w]) + 1] = r
    BY AppendProperties DEF QueueTypes
  <2>3. \A v \in Workers : Len(reqQ[v]) \in Nat BY LenProperties DEF QueueTypes
  <2>4. \A v \in Workers : \A i \in 1 .. Len(reqQ'[v]) :
          \/ v = w /\ i = Len(reqQ[w]) + 1 /\ reqQ'[v][i] = r
          \/ i \in 1 .. Len(reqQ[v]) /\ reqQ'[v][i] = reqQ[v][i]
    BY <2>1, <2>2, <2>3 DEF QueueTypes
  <2>5. ~InQueue(r) /\ ~InWorker(r) /\ ~InMessage(r) BY <1>1 DEF QueryInv, OnePlace
  <2>6. OnceInQueues'
    <3> SUFFICES ASSUME NEW x \in Workers, NEW y \in Workers,
                      NEW i \in 1 .. Len(reqQ'[x]), NEW j \in 1 .. Len(reqQ'[y]),
                      reqQ'[x][i] = reqQ'[y][j], reqQ'[x][i] \in Requests
               PROVE  x = y /\ i = j
      BY DEF OnceInQueues
    <3>1. CASE reqQ'[x][i] = r
      <4>1. x = w /\ i = Len(reqQ[w]) + 1 BY <2>4, <2>5, <3>1 DEF InQueue
      <4>2. y = w /\ j = Len(reqQ[w]) + 1 BY <2>4, <2>5, <3>1 DEF InQueue
      <4> QED BY <4>1, <4>2
    <3>2. CASE reqQ'[x][i] # r
      <4>1. i \in 1 .. Len(reqQ[x]) /\ reqQ'[x][i] = reqQ[x][i] BY <2>4, <3>2
      <4>2. j \in 1 .. Len(reqQ[y]) /\ reqQ'[y][j] = reqQ[y][j] BY <2>4, <3>2
      <4>3. OnceInQueues BY DEF QueryInv
      <4>4. reqQ[x][i] = reqQ[y][j] /\ reqQ[x][i] \in Requests BY <4>1, <4>2
      <4> HIDE DEF Types
      <4> QED BY <4>1, <4>2, <4>3, <4>4 DEF OnceInQueues
    <3> QED BY <3>1, <3>2
  <2>7. \A q \in Requests : q # r /\ InQueue(q)' => InQueue(q) BY <2>4 DEF InQueue
  <2>8. OnceInWorkers' /\ OnceInMessages' /\ \A q \in Requests :
          (InWorker(q)' <=> InWorker(q)) /\ (InMessage(q)' <=> InMessage(q))
    BY <1>1 DEF QueryInv, OnceInWorkers, OnceInMessages, InWorker, InMessage, Messages
  <2>9. OnePlace' BY <1>1, <2>5, <2>7, <2>8 DEF QueryInv, OnePlace
  <2> QED BY <2>6, <2>8, <2>9 DEF QueryInv
<1> QED BY <1>2, <1>3

LEMMA TakeOnce ==
  ASSUME Types, QueryInv, NEW g \in Gens, Take(g)
  PROVE  QueryInv'
<1> USE DEF Types
<1> DEFINE w == task[g].worker
<1>1. w \in Workers BY DEF TaskTypes, Task
<1>2. /\ Len(Tail(reqQ[w])) = Len(reqQ[w]) - 1
      /\ \A i \in 1 .. Len(Tail(reqQ[w])) : Tail(reqQ[w])[i] = reqQ[w][i + 1]
  BY <1>1, HeadTailProperties DEF QueueTypes, Take
<1>3. Head(reqQ[w]) = reqQ[w][1] /\ Len(reqQ[w]) \in Nat \ {0}
  BY <1>1, EmptySeq DEF QueueTypes, Take
<1>4. reqQ' = [reqQ EXCEPT ![w] = Tail(@)] BY DEF Take
<1>5. /\ Head(reqQ[w]) = StopMsg => EndTasks({g}, "exited")
      /\ Head(reqQ[w]) # StopMsg => busy' = [busy EXCEPT ![g] = @ \cup {Head(reqQ[w])}]
      /\ UNCHANGED <<qpc, resQ, calls>>
  BY DEF Take
<1> HIDE DEF w
<1> DEFINE h == reqQ[w][1]
           At(v, i) == IF v = w THEN i + 1 ELSE i
<1>6. \A v \in Workers : Len(reqQ[v]) \in Nat BY LenProperties DEF QueueTypes
<1>7. \A v \in Workers : \A i \in 1 .. Len(reqQ'[v]) :
        /\ At(v, i) \in 1 .. Len(reqQ[v]) /\ reqQ'[v][i] = reqQ[v][At(v, i)]
        /\ v = w => At(v, i) # 1
  <2> SUFFICES ASSUME NEW v \in Workers, NEW i \in 1 .. Len(reqQ'[v])
               PROVE  /\ At(v, i) \in 1 .. Len(reqQ[v]) /\ reqQ'[v][i] = reqQ[v][At(v, i)]
                      /\ v = w => At(v, i) # 1
    OBVIOUS
  <2>1. CASE v = w
    <3>1. reqQ'[v] = Tail(reqQ[w]) BY <1>1, <1>4, <2>1 DEF QueueTypes
    <3> QED BY <1>2, <1>3, <2>1, <3>1
  <2>2. CASE v # w
    <3>1. reqQ'[v] = reqQ[v] BY <1>1, <1>4, <2>2 DEF QueueTypes
    <3> QED BY <2>2, <3>1
  <2> QED BY <2>1, <2>2
<1>8. \A v \in Workers : \A i, j \in 1 .. Len(reqQ'[v]) : At(v, i) = At(v, j) => i = j
  OBVIOUS
<1>9. 1 \in 1 .. Len(reqQ[w]) BY <1>3
<1> HIDE DEF At
<1>10. OnceInQueues'
  <2> SUFFICES ASSUME NEW x \in Workers, NEW y \in Workers,
                    NEW i \in 1 .. Len(reqQ'[x]), NEW j \in 1 .. Len(reqQ'[y]),
                    reqQ'[x][i] = reqQ'[y][j], reqQ'[x][i] \in Requests
             PROVE  x = y /\ i = j
    BY DEF OnceInQueues
  <2>1. /\ At(x, i) \in 1 .. Len(reqQ[x]) /\ At(y, j) \in 1 .. Len(reqQ[y])
        /\ reqQ[x][At(x, i)] = reqQ[y][At(y, j)] /\ reqQ[x][At(x, i)] \in Requests
    BY <1>7
  <2>2. OnceInQueues BY DEF QueryInv
  <2>3. x = y /\ At(x, i) = At(y, j) BY <2>1, <2>2 DEF OnceInQueues
  <2> QED BY <1>8, <2>3
<1>11. \A r \in Requests : InQueue(r)' => InQueue(r) /\ r # h
  <2> SUFFICES ASSUME NEW r \in Requests, NEW v \in Workers,
                      NEW i \in 1 .. Len(reqQ'[v]), reqQ'[v][i] = r
               PROVE  InQueue(r) /\ r # h
    BY DEF InQueue
  <2>1. At(v, i) \in 1 .. Len(reqQ[v]) /\ r = reqQ[v][At(v, i)] BY <1>7
  <2>2. ASSUME r = h PROVE v = w /\ At(v, i) = 1
    <3>1. OnceInQueues BY DEF QueryInv
    <3>2. reqQ[v][At(v, i)] = reqQ[w][1] /\ reqQ[v][At(v, i)] \in Requests BY <2>1, <2>2
    <3> QED BY <1>1, <1>9, <2>1, <3>1, <3>2 DEF OnceInQueues
  <2> QED BY <1>7, <2>1, <2>2 DEF InQueue
<1>12. OnceInMessages' /\ \A r \in Requests : InMessage(r)' <=> InMessage(r)
  BY <1>5 DEF QueryInv, OnceInMessages, InMessage, Messages
<1>13. CASE h = StopMsg
  <2>1. \A f \in Gens : busy'[f] \subseteq busy[f] BY <1>3, <1>5, <1>13 DEF EndTasks, TaskTypes
  <2>2. OnceInWorkers' /\ \A r \in Requests : InWorker(r)' => InWorker(r)
    BY <2>1 DEF QueryInv, OnceInWorkers, InWorker
  <2>3. OnePlace' BY <1>5, <1>11, <1>12, <2>2 DEF QueryInv, OnePlace
  <2> QED BY <1>10, <1>12, <2>2, <2>3 DEF QueryInv
<1>14. CASE h # StopMsg
  <2>1. h \in Requests BY <1>1, <1>9, <1>14, ElementOfSeq DEF QueueTypes
  <2>2. InQueue(h) /\ ~InWorker(h) /\ ~InMessage(h) /\ qpc[h] # "new"
    BY <1>1, <1>9, <2>1 DEF InQueue, QueryInv, OnePlace
  <2>3. \A f \in Gens : busy'[f] = IF f = g THEN busy[f] \cup {h} ELSE busy[f]
    BY <1>3, <1>5, <1>14 DEF TaskTypes
  <2>4. OnceInWorkers'
    <3>1. \A f \in Gens : h \notin busy[f] BY <2>2 DEF InWorker
    <3> HIDE DEF h
    <3> QED BY <2>3, <3>1 DEF QueryInv, OnceInWorkers
  <2>5. \A r \in Requests : r # h /\ InWorker(r)' => InWorker(r) BY <2>3 DEF InWorker
  <2> HIDE DEF h
  <2>6. OnePlace' BY <1>5, <1>11, <1>12, <2>1, <2>2, <2>5 DEF QueryInv, OnePlace
  <2> QED BY <1>10, <1>12, <2>4, <2>6 DEF QueryInv
<1> QED BY <1>13, <1>14

LEMMA FinishOnce ==
  ASSUME Types, QueryInv, NEW g \in Gens, NEW r \in Requests, Finish(g, r)
  PROVE  QueryInv'
<1> USE DEF Types
<1>1. PICK outcome \in Outcomes : resQ' = resQ \cup {[query |-> r, gen |-> g, outcome |-> outcome]}
  BY DEF Finish
<1> DEFINE m == [query |-> r, gen |-> g, outcome |-> outcome]
<1>2. resQ' = resQ \cup {m} /\ m.query = r BY <1>1
<1> HIDE DEF m
<1>3. UNCHANGED <<reqQ, calls, qpc>> /\ busy' = [busy EXCEPT ![g] = @ \ {r}] /\ r \in busy[g]
  BY DEF Finish
<1>4. InWorker(r) /\ ~InQueue(r) /\ ~InMessage(r) /\ qpc[r] # "new"
  BY <1>3 DEF InWorker, QueryInv, OnePlace
<1>5. OnceInMessages' BY <1>2, <1>3, <1>4 DEF QueryInv, OnceInMessages, InMessage, Messages
<1>6. \A q \in Requests : q # r /\ InMessage(q)' => InMessage(q)
  BY <1>2, <1>3 DEF InMessage, Messages
<1>7. OnceInWorkers' /\ \A q \in Requests : InWorker(q)' => InWorker(q) /\ q # r
  BY <1>3 DEF QueryInv, OnceInWorkers, InWorker, TaskTypes
<1>8. OnceInQueues' /\ \A q \in Requests : InQueue(q)' => InQueue(q)
  BY <1>3, KeptQueues, SameQueues DEF QueryInv
<1>9. OnePlace' BY <1>3, <1>4, <1>6, <1>7, <1>8 DEF QueryInv, OnePlace
<1> QED BY <1>5, <1>7, <1>8, <1>9 DEF QueryInv

LEMMA ReadOnce ==
  ASSUME Types, QueryInv, Read
  PROVE  QueryInv'
<1>1. PICK m \in resQ : resQ' = resQ \ {m} /\ calls' = calls \cup {m} BY DEF Read
<1>2. UNCHANGED <<reqQ, busy, qpc>> BY DEF Read
<1>3. Messages' = Messages BY <1>1 DEF Messages
<1>4. OnceInMessages' BY <1>1, <1>3 DEF QueryInv, OnceInMessages
<1>5. OnceInQueues' /\ \A r \in Requests : InQueue(r)' => InQueue(r)
  BY <1>2, KeptQueues, SameQueues DEF QueryInv
<1>6. OnceInWorkers' BY <1>2 DEF QueryInv, OnceInWorkers
<1>7. \A r \in Requests : (InWorker(r)' <=> InWorker(r)) /\ (InMessage(r)' <=> InMessage(r))
  BY <1>2, <1>3 DEF InWorker, InMessage
<1>8. OnePlace' BY <1>2, <1>5, <1>7 DEF QueryInv, OnePlace
<1> QED BY <1>4, <1>5, <1>6, <1>8 DEF QueryInv

LEMMA NextOnce ==
  ASSUME Types, QueryInv, [Next]_vars
  PROVE  QueryInv'
<1>1. ASSUME UNCHANGED <<reqQ, qpc, resQ>>, calls' \subseteq calls,
             \A g \in Gens : busy'[g] \subseteq busy[g]
      PROVE  QueryInv'
  BY <1>1, NothingMoves, SameQueues
<1>2. ASSUME NEW r \in Requests, Query(r) PROVE QueryInv'
  <2>1. CASE Resume(r) \/ GiveUp(r)
    <3>1. /\ UNCHANGED <<reqQ, resQ, calls, busy>>
          /\ \A q \in Requests : qpc'[q] = "new" => qpc[q] = "new"
      BY <2>1 DEF Resume, GiveUp, Types, QueryTypes
    <3> QED BY <3>1, NothingMoves, SameQueues
  <2> QED BY <1>2, <2>1, SubmitOnce DEF Query
<1>3. ASSUME NEW gens, NEW st, EndTasks(gens, st)
      PROVE  \A g \in Gens : busy'[g] \subseteq busy[g]
  BY <1>3 DEF EndTasks
<1>4. ASSUME NEW g \in Gens, Worker(g) PROVE QueryInv'
  <2>1. CASE Exit(g) BY <1>1, <1>3, <2>1 DEF Exit
  <2> QED BY <1>4, <2>1, TakeOnce, FinishOnce DEF Worker
<1>5. ASSUME NEW p \in Pools, Break(p) PROVE QueryInv' BY <1>1, <1>3, <1>5 DEF Break
<1>6. ASSUME NEW m \in calls, Handle(m) PROVE QueryInv' BY <1>1, <1>6 DEF Handle
<1>7. CASE Rebuild \/ CloseQueues
  <2>1. /\ QueuesKeepPlaces /\ resQ' \subseteq resQ /\ UNCHANGED <<busy, calls, qpc>>
    BY <1>7, EmptiedQueues DEF Rebuild, CloseQueues
  <2> QED BY <2>1, NothingMoves
<1>8. CASE BeginStop
  <2>1. UNCHANGED <<busy, resQ, calls, qpc>> BY <1>8 DEF BeginStop
  <2> QED BY <1>8, <2>1, NothingMoves, StopMessageQueued
<1>9. CASE KillWorkers BY <1>1, <1>3, <1>9 DEF KillWorkers
<1>10. CASE Stop BY <1>1, <1>7, <1>8, <1>9, <1>10 DEF Stop, StopExecutor
<1>11. CASE Restart BY <1>1, <1>7, <1>11 DEF Restart, BeginRestart, JoinReader
<1>12. CASE UNCHANGED vars \/ ReaderExit \/ EndSupervision \/ \E w \in Workers : Resubmit(w)
  BY <1>1, <1>12 DEF ReaderExit, EndSupervision, Resubmit
<1> QED BY <1>2, <1>4, <1>5, <1>6, <1>10, <1>11, <1>12, ReadOnce DEF Next
-----------------------------------------------------------------------------
(***************************************************************************)
(* The theorems                                                            *)
(***************************************************************************)
IInv == Types /\ SupervisionInv /\ WaitingInv /\ QueryInv

LEMMA InitIInv == Init => IInv
<1> SUFFICES ASSUME Init PROVE IInv OBVIOUS
<1> USE WorkerPoolAssumption DEF Init
<1>1. \A w \in Workers : reqQ[w] = <<>> /\ Len(reqQ[w]) = 0 BY EmptySeq
<1>2. QueueTypes BY <1>1, EmptySeq DEF QueueTypes
<1>3. task \in [Gens -> Task]
  <2>1. \A g \in Gens : g <= WorkerCount => g - 1 \in Workers OBVIOUS
  <2>2. 0 \in Workers /\ 1 \in Pools /\ 0 \in Pools OBVIOUS
  <2>3. \A g \in Gens : task[g] \in Task BY <2>1, <2>2 DEF Task, NoTask
  <2> QED BY <2>3
<1>4. handles \in [Workers -> Gens \cup {0}] OBVIOUS
<1>5. TaskTypes BY <1>3, <1>4 DEF TaskTypes
<1>6. QueryTypes /\ ControlTypes BY DEF QueryTypes, ControlTypes, Outcomes
<1>7. MessageTypes BY FS_EmptySet DEF MessageTypes
<1>8. Types BY <1>2, <1>5, <1>6, <1>7 DEF Types
<1>9. ~Stopping BY DEF Stopping
<1>10. \A g \in Gens : /\ g <= WorkerCount => /\ task[g].worker = g - 1 /\ task[g].pool = 1
                                              /\ task[g].state = "running"
                       /\ ~(g <= WorkerCount) => task[g].pool = 0 /\ task[g].state = "unused"
  BY DEF NoTask
<1>11. /\ handles = [w \in Workers |-> w + 1] /\ nextGen = WorkerCount + 1
       /\ poolNo = 1 /\ broken = {} /\ crashes = 0 /\ sup = "watching"
  OBVIOUS
<1>12. WaitingInv BY DEF WaitingInv, WaitersAreReachable, StopSettles
<1>13. QueryInv
  BY <1>1 DEF QueryInv, OnceInQueues, OnceInWorkers, OnceInMessages, OnePlace, Messages,
              InQueue, InWorker, InMessage
<1> HIDE DEF Init
<1>14. Unstarted
  <2>1. \A g \in Gens : g >= nextGen => ~(g <= WorkerCount) BY <1>11
  <2> QED BY <1>10, <2>1 DEF Unstarted
<1>15. PoolNumbers
  <2>1. \A g \in Gens : task[g].pool \in {0, 1} BY <1>10
  <2>2. \A g \in Gens : task[g].pool <= 1 BY <2>1
  <2> QED BY <1>11, <2>2 DEF PoolNumbers
<1>16. OneExecutor
  <2>1. \A w \in Workers : handles[w] \in Gens /\ handles[w] <= WorkerCount BY <1>11
  <2> QED BY <1>10, <1>11, <2>1 DEF OneExecutor, Running
<1>17. BrokenRunsNothing BY <1>10, <1>11 DEF BrokenRunsNothing
<1>18. RebuiltFromNothing BY <1>11 DEF RebuiltFromNothing
<1>19. RunningIsListed
  <2>1. \A g \in Gens : g <= WorkerCount => g - 1 \in Workers /\ handles[g - 1] = g
    BY <1>11
  <2> QED BY <1>10, <2>1 DEF RunningIsListed, Running
<1>20. StopKnowsWorkers BY <1>9 DEF StopKnowsWorkers
<1> QED
  BY <1>8, <1>12, <1>13, <1>14, <1>15, <1>16, <1>17, <1>18, <1>19, <1>20
  DEF IInv, SupervisionInv

LEMMA NextIInv == IInv /\ [Next]_vars => IInv'
<1> SUFFICES ASSUME IInv, [Next]_vars PROVE IInv' OBVIOUS
<1>1. Types /\ TypeOK BY TypesSplit DEF IInv
<1>2. Types' BY <1>1, NextTypes
<1>3. SupervisionInv' BY <1>1, NextTask DEF IInv
<1>4. WaitingInv' BY NextWaiting DEF IInv
<1>5. QueryInv' BY <1>1, NextOnce DEF IInv
<1> QED BY <1>2, <1>3, <1>4, <1>5 DEF IInv

\* Every reachable state satisfies the inductive invariant.
THEOREM PoolInvariant == Spec => []IInv
BY InitIInv, NextIInv, PTL DEF Spec

\* A query that waits in process_query is in _pending or its event is set: no
\* restart, stop() or late result makes it unreachable.
THEOREM NoWaiterIsLost == Spec => []WaitersAreReachable
<1>1. IInv => WaitersAreReachable BY DEF IInv, WaitingInv
<1> QED BY <1>1, PoolInvariant, PTL

LEMMA OnceFromPlaces ==
  ASSUME IInv, NEW r \in Requests, NEW x \in Places(r), NEW y \in Places(r)
  PROVE  x = y
<1> DEFINE Queued(p) == \E w \in Workers : \E i \in 1 .. Len(reqQ[w]) :
                          p = <<"queue", w, i>> /\ reqQ[w][i] = r
           Worked(p) == \E g \in Gens : p = <<"worker", g>> /\ r \in busy[g]
           Result(p) == \E m \in resQ : p = <<"result", m>> /\ m.query = r
           Call(p) == \E m \in calls : p = <<"callback", m>> /\ m.query = r
<1>1. \A p \in Places(r) : Queued(p) \/ Worked(p) \/ Result(p) \/ Call(p)
  <2> DEFINE
        Q == UNION {{<<"queue", w, i>> : i \in {j \in 1 .. Len(reqQ[w]) : reqQ[w][j] = r}} : w \in Workers}
        W == {<<"worker", g>> : g \in {h \in Gens : r \in busy[h]}}
        R == {<<"result", m>> : m \in {n \in resQ : n.query = r}}
        C == {<<"callback", m>> : m \in {n \in calls : n.query = r}}
  <2>1. \A p \in Q : Queued(p) OBVIOUS
  <2>2. \A p \in W : Worked(p) OBVIOUS
  <2>3. \A p \in R : Result(p) OBVIOUS
  <2>4. \A p \in C : Call(p) OBVIOUS
  <2>5. Places(r) = Q \cup W \cup R \cup C BY DEF Places
  <2> HIDE DEF Q, W, R, C, Queued, Worked, Result, Call
  <2> QED BY <2>1, <2>2, <2>3, <2>4, <2>5
<1>2. \A p : /\ Queued(p) => InQueue(r)
             /\ Worked(p) => InWorker(r)
             /\ Result(p) \/ Call(p) => InMessage(r)
  BY DEF InQueue, InWorker, InMessage, Messages
<1>3. /\ ~(InQueue(r) /\ InWorker(r)) /\ ~(InQueue(r) /\ InMessage(r))
      /\ ~(InWorker(r) /\ InMessage(r))
  BY DEF IInv, QueryInv, OnePlace
<1>4. CASE Queued(x) /\ Queued(y)
  <2>1. OnceInQueues BY DEF IInv, QueryInv
  <2>2. PICK w \in Workers : \E i \in 1 .. Len(reqQ[w]) :
          x = <<"queue", w, i>> /\ reqQ[w][i] = r
    BY <1>4
  <2>3. PICK v \in Workers : \E j \in 1 .. Len(reqQ[v]) :
          y = <<"queue", v, j>> /\ reqQ[v][j] = r
    BY <1>4
  <2> QED BY <2>1, <2>2, <2>3 DEF OnceInQueues
<1>5. CASE Worked(x) /\ Worked(y) BY <1>5 DEF IInv, QueryInv, OnceInWorkers
<1>6. CASE (Result(x) \/ Call(x)) /\ (Result(y) \/ Call(y))
  BY <1>6 DEF IInv, QueryInv, OnceInMessages, Messages
<1> HIDE DEF Queued, Worked, Result, Call
<1> QED BY <1>1, <1>2, <1>3, <1>4, <1>5, <1>6

\* The queues keep their bounds, a query is executed at most once whatever is
\* restarted or rebuilt, and until stop() every running worker is the one whose
\* results are accepted.
THEOREM ExecutedOnce == Spec => []ExecutionInv
<1>1. IInv => TypeOK BY TypesSplit DEF IInv
<1>2. IInv => ExecutedAtMostOnce BY OnceFromPlaces DEF ExecutedAtMostOnce
<1>3. IInv => RunningIsListed BY DEF IInv, SupervisionInv
<1>4. IInv => ExecutionInv BY <1>1, <1>2, <1>3 DEF ExecutionInv
<1> QED BY <1>4, PoolInvariant, PTL

\* What is left of the pool when stop() has returned came in with a restart of
\* the broken pool that raced with stop().
THEOREM StopLeavesOnlyLateWorkers == Spec => []StopLeavesNothing
<1>1. IInv => LeaksAreLate
  BY DEF IInv, SupervisionInv, StopKnowsWorkers, LeaksAreLate, Stopping
<1>2. IInv => SettledByStop
  <2> SUFFICES ASSUME IInv, stopPc = "stopped", NEW r \in Requests,
                      qpc[r] = "waiting", r \notin fired
               PROVE  nextGen > stopSaw.gen
    BY DEF SettledByStop
  <2>1. nextGen # stopSaw.gen BY DEF IInv, WaitingInv, StopSettles
  <2>2. stopSaw.gen <= nextGen BY DEF IInv, SupervisionInv, StopKnowsWorkers, Stopping
  <2>3. stopSaw.gen \in Nat /\ nextGen \in Nat BY NumbersTyped, TypesSplit DEF IInv
  <2> QED BY <2>1, <2>2, <2>3
<1>3. IInv => StopLeavesNothing BY <1>1, <1>2 DEF StopLeavesNothing
<1> QED BY <1>3, PoolInvariant, PTL
===============================================================================
