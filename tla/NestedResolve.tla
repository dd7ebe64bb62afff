----------------------------- MODULE NestedResolve -----------------------------
(***************************************************************************)
(* context.resolve() in multi-process mode.  A plugin in a worker asks for *)
(* a name; the question goes to the master through the result queue, the   *)
(* master resolves it, asking further names if the upstream is a plugin's  *)
(* resolver that calls context.resolve() itself, and puts the answer into  *)
(* the worker's request queue, which queries share.  The master never      *)
(* waits for room there.  Query log lines travel the same way.             *)
(*                                                                         *)
(* One worker slot is modelled: the worker in it may exit and be started   *)
(* again with the same queues, or the whole pool may break and be rebuilt  *)
(* with new ones.  The reader thread and the callbacks it posts keep the   *)
(* order of the result queue and are one step with it.  Each process feeds *)
(* the queue by a thread of its own: what a worker sent keeps its order,   *)
(* but what its successor sends may arrive earlier.                        *)
(***************************************************************************)
EXTENDS Naturals, FiniteSets, Sequences, SequencesExt

CONSTANTS
  Calls,      \* the calls of resolve made in workers, each with a fresh resolve_id
  Sigs,       \* pairs of name and type
  Asks,       \* the signature a call asks for
  Leads,      \* what the upstream of a signature does: a kind of result, or the
              \* signature its resolver asks for in turn
  MaxDepth,   \* MAX_NESTED_RESOLVE_DEPTH
  QueueSize,
  MaxGen,     \* bound on the workers ever started
  MaxQueries, \* bound on the queries put into the request queue
  MaxLogs     \* bound on the log lines sent

\* Answers with RRsets of the type asked for, with aliases only (no RRset in
\* dns.resolver.Answer) and with nothing; NXDOMAIN and the other failures.
Answers == {"rrset", "aliases", "empty"}
Kinds == Answers \cup {"nxdomain", "failure"}

ASSUME NestedAssumption ==
  /\ Asks \in [Calls -> Sigs] /\ Leads \in [Sigs -> Sigs \cup Kinds]
  /\ Sigs \cap Kinds = {}
  /\ MaxDepth \in Nat \ {0} /\ QueueSize \in Nat \ {0} /\ MaxGen \in Nat \ {0}
  /\ MaxQueries \in Nat /\ MaxLogs \in Nat

VARIABLES
  gen,      \* the generation in the master's handle of the slot
  alive,    \* whether that worker runs
  broken,   \* whether the process pool is broken
  epoch,    \* the generation the current queues were made with
  call,     \* where a call is
  pending,  \* _pending of the running worker
  holder,   \* what receive_response left for a call, then what the call returned
  results,  \* the result queue
  task,     \* _handle_resolve_request of a call
  queue,    \* the request queue
  dropped,  \* ghost: the calls whose answer found the request queue full
  lines,    \* the _handle_query_log tasks that wait for their turn
  log,      \* the master's query log
  queries, logs

worker == <<gen, alive, broken, epoch>>
vars == <<worker, call, pending, holder, results, task, queue, dropped, lines, log, queries, logs>>

Outcomes == [kind : Kinds \cup {"recursion", "error", "alias", "none"}, sig : Sigs]
InCall == {"putting", "waiting", "answered"}
Query == "query"
Response(c, o) == <<c, o>>
Responses == Calls \X Outcomes

TypeOK ==
  /\ gen \in 1 .. MaxGen /\ epoch \in 1 .. MaxGen /\ alive \in BOOLEAN /\ broken \in BOOLEAN
  /\ call \in [Calls -> InCall \cup {"idle", "returned", "timeout", "lost"}]
  /\ pending \subseteq Calls /\ dropped \subseteq Calls
  /\ \A c \in Calls : /\ holder[c] \in Outcomes
                      /\ task[c].pc \in {"none", "queued", "running", "done"}
                      /\ Range(task[c].chain) \subseteq Sigs /\ task[c].epoch \in 0 .. MaxGen
  /\ \A m \in Range(results) : m.gen \in 1 .. MaxGen /\ (m.log = 0 => m.call \subseteq Calls)
  /\ Range(queue) \subseteq Responses \cup {<<Query>>}
  /\ Len(results) <= QueueSize /\ Len(queue) <= QueueSize
  /\ queries \in 0 .. MaxQueries /\ logs \in 0 .. MaxLogs

NoTask == [pc |-> "none", chain |-> <<>>, epoch |-> 0]
Nothing(c) == [kind |-> "none", sig |-> Asks[c]]

Init ==
  /\ gen = 1 /\ alive = TRUE /\ broken = FALSE /\ epoch = 1
  /\ call = [c \in Calls |-> "idle"]
  /\ pending = {} /\ dropped = {}
  /\ holder = [c \in Calls |-> Nothing(c)]
  /\ results = <<>> /\ queue = <<>> /\ lines = <<>> /\ log = <<>>
  /\ task = [c \in Calls |-> NoTask]
  /\ queries = 0 /\ logs = 0
-----------------------------------------------------------------------------
(***************************************************************************)
(* The worker                                                              *)
(***************************************************************************)
\* The check at the head of resolve and of _resolve_nested.
Refused(chain, sig) == sig \in Range(chain) \/ Len(chain) >= MaxDepth

\* The call is entered in _pending; its context is that of a query, whose chain
\* is empty.
Resolve(c) ==
  /\ alive /\ call[c] = "idle" /\ ~Refused(<<>>, Asks[c])
  /\ call' = [call EXCEPT ![c] = "putting"] /\ pending' = pending \cup {c}
  /\ UNCHANGED <<worker, holder, results, task, queue, dropped, lines, log, queries, logs>>

\* The thread that puts the request waits for room; the time limit starts after.
Put(c) ==
  /\ call[c] = "putting" /\ Len(results) < QueueSize
  /\ results' = Append(results, [call |-> {c}, gen |-> gen, log |-> 0])
  /\ call' = [call EXCEPT ![c] = "waiting"]
  /\ UNCHANGED <<worker, pending, holder, task, queue, dropped, lines, log, queries, logs>>

\* WorkerQueryLogStore.append does not wait: a line that finds no room is lost.
SendLog ==
  /\ alive /\ logs < MaxLogs
  /\ logs' = logs + 1
  /\ results' = IF Len(results) < QueueSize
                THEN Append(results, [call |-> {}, gen |-> gen, log |-> logs + 1]) ELSE results
  /\ UNCHANGED <<worker, call, pending, holder, task, queue, dropped, lines, log, queries>>

\* Mutant of Receive: answers are taken for those of the calls that wait, in turn.
ReceiveInTurn(c, o) ==
  \E other \in {d \in pending : call[d] = "waiting"} :
    call' = [call EXCEPT ![other] = "answered"] /\ holder' = [holder EXCEPT ![other] = o]

\* receive_response: an answer to an unknown call, or a second one, is ignored.
Receive(c, o) ==
  IF c \in pending /\ call[c] = "waiting"
  THEN call' = [call EXCEPT ![c] = "answered"] /\ holder' = [holder EXCEPT ![c] = o]
  ELSE UNCHANGED <<call, holder>>

\* run() takes the next message.  What a query does is in WorkerPool.
Take ==
  /\ alive /\ queue # <<>>
  /\ queue' = Tail(queue)
  /\ IF Head(queue) = <<Query>> THEN UNCHANGED <<call, holder>>
     ELSE Receive(Head(queue)[1], Head(queue)[2])
  /\ UNCHANGED <<worker, pending, results, task, dropped, lines, log, queries, logs>>

\* build_answer_from_response: an answer section that is not empty but has no RRset
\* of the type asked for lends the answer its first one.
Rebuilt(kind) == IF kind = "aliases" THEN "alias" ELSE kind

Resume(c) ==
  /\ call[c] = "answered"
  /\ call' = [call EXCEPT ![c] = "returned"] /\ pending' = pending \ {c}
  /\ holder' = [holder EXCEPT ![c].kind = Rebuilt(@)]
  /\ UNCHANGED <<worker, results, task, queue, dropped, lines, log, queries, logs>>

\* Mutant of TimeOut: the wait has no time limit.
NoTimeOut(c) == FALSE

\* response_timeout has passed.
TimeOut(c) ==
  /\ call[c] = "waiting"
  /\ call' = [call EXCEPT ![c] = "timeout"] /\ pending' = pending \ {c}
  /\ UNCHANGED <<worker, holder, results, task, queue, dropped, lines, log, queries, logs>>

LoseCalls ==
  /\ call' = [c \in Calls |-> IF call[c] \in InCall THEN "lost" ELSE call[c]]
  /\ pending' = {}

\* The worker's task ends by an exception, or its process dies and breaks the
\* pool: what ran in it is gone.
Exit ==
  /\ alive /\ alive' = FALSE /\ broken' \in BOOLEAN /\ gen < MaxGen
  /\ LoseCalls
  /\ UNCHANGED <<gen, epoch, holder, results, task, queue, dropped, lines, log, queries, logs>>
-----------------------------------------------------------------------------
(***************************************************************************)
(* The master                                                              *)
(***************************************************************************)
\* The supervisor starts the task again, with the same queues.
Resubmit ==
  /\ ~alive /\ ~broken /\ gen < MaxGen
  /\ alive' = TRUE /\ gen' = gen + 1
  /\ UNCHANGED <<broken, epoch, call, pending, holder, results, task, queue, dropped,
                 lines, log, queries, logs>>

\* _restart_broken_pool makes new queues; what the old ones hold is gone.
Rebuild ==
  /\ broken /\ gen < MaxGen
  /\ alive' = TRUE /\ broken' = FALSE /\ gen' = gen + 1 /\ epoch' = gen + 1
  /\ results' = <<>> /\ queue' = <<>>
  /\ UNCHANGED <<call, pending, holder, task, dropped, lines, log, queries, logs>>

\* Mutant of Current: the generation is not looked at.
CurrentOrNot(m) == TRUE

\* _is_current_worker_message
Current(m) == m.gen = gen

\* What was sent first by any of the workers whose messages are in the queue.
Arrivals == {i \in DOMAIN results : \A j \in DOMAIN results : j < i => results[j].gen # results[i].gen}

\* _handle_result: a task is started for a request and for a log line, unless the
\* worker that sent it was replaced.
HandleResult ==
  \E i \in Arrivals :
    LET m == results[i] IN
    /\ results' = RemoveAt(results, i)
    /\ task' = [c \in Calls |-> IF c \in m.call /\ Current(m)
                                THEN [task[c] EXCEPT !.pc = "queued"] ELSE task[c]]
    /\ lines' = IF m.log # 0 /\ Current(m) THEN Append(lines, m) ELSE lines
    /\ UNCHANGED <<worker, call, pending, holder, queue, dropped, log, queries, logs>>

\* _handle_query_log: the event loop runs its tasks in the order they were started
\* in, and this one to its end.
WriteLog ==
  /\ lines # <<>>
  /\ log' = Append(log, Head(lines)) /\ lines' = Tail(lines)
  /\ UNCHANGED <<worker, call, pending, holder, results, task, queue, dropped, queries, logs>>

\* _handle_resolve_request looks up the worker and with it the queue its answer
\* will go to; the chain the worker sent has the signature in it.
StartTask(c) ==
  /\ task[c].pc = "queued"
  /\ task' = [task EXCEPT ![c] = [pc |-> "running", chain |-> <<Asks[c]>>, epoch |-> epoch]]
  /\ UNCHANGED <<worker, call, pending, holder, results, queue, dropped, lines, log, queries, logs>>

Asked(c) == Leads[Last(task[c].chain)]

\* A plugin's resolver calls context.resolve() in the master.
Recurse(c) ==
  /\ task[c].pc = "running" /\ Asked(c) \in Sigs /\ ~Refused(task[c].chain, Asked(c))
  /\ task' = [task EXCEPT ![c].chain = Append(@, Asked(c))]
  /\ UNCHANGED <<worker, call, pending, holder, results, queue, dropped, lines, log, queries, logs>>

\* Mutant of Serialize: every failure becomes a RuntimeError.
SerializePlainly(kind) == IF kind \in Answers THEN kind ELSE "error"

\* The wire of sync_answer_response has the sections of the answer but not its
\* RRset.  serialize_resolve_error_type and deserialize_resolve_error: NXDOMAIN and
\* the recursion error are told apart, every other error is a RuntimeError.
Serialize(kind) == IF kind \in Answers \cup {"nxdomain", "recursion"} THEN kind ELSE "error"

\* Mutant of Reply: only answers are sent back.
ReplyAnswersOnly(c, o) ==
  /\ queue' = IF task[c].epoch = epoch /\ Len(queue) < QueueSize /\ o.kind \in Answers
              THEN Append(queue, Response(c, o)) ELSE queue
  /\ dropped' = IF task[c].epoch = epoch /\ Len(queue) >= QueueSize THEN dropped \cup {c} ELSE dropped

\* put_nowait into the queue that was looked up: one that is full or closed takes
\* nothing, and nobody is told.
Reply(c, o) ==
  IF task[c].epoch = epoch /\ Len(queue) < QueueSize
  THEN queue' = Append(queue, Response(c, o)) /\ UNCHANGED dropped
  ELSE /\ UNCHANGED queue
       /\ dropped' = IF task[c].epoch = epoch THEN dropped \cup {c} ELSE dropped

\* The chain ends with a result or is refused; either way the failure or the
\* answer comes back through all its links.
EndTask(c) ==
  LET refused == Asked(c) \in Sigs /\ Refused(task[c].chain, Asked(c))
      o == [kind |-> Serialize(IF refused THEN "recursion" ELSE Asked(c)), sig |-> Asks[c]]
  IN  /\ task[c].pc = "running" /\ (refused \/ Asked(c) \in Kinds)
      /\ task' = [task EXCEPT ![c].pc = "done"]
      /\ Reply(c, o)
      /\ UNCHANGED <<worker, call, pending, holder, results, lines, log, queries, logs>>

\* process_query puts a query for the worker.
PutQuery ==
  /\ alive /\ queries < MaxQueries /\ Len(queue) < QueueSize
  /\ queue' = Append(queue, <<Query>>) /\ queries' = queries + 1
  /\ UNCHANGED <<worker, call, pending, holder, results, task, dropped, lines, log, logs>>
-----------------------------------------------------------------------------
CallStep(c) == Put(c) \/ Resume(c) \/ TimeOut(c)
TaskStep(c) == StartTask(c) \/ Recurse(c) \/ EndTask(c)

Next ==
  \/ \E c \in Calls : Resolve(c) \/ CallStep(c) \/ TaskStep(c)
  \/ Take \/ HandleResult \/ WriteLog \/ SendLog \/ PutQuery
  \/ Exit \/ Resubmit \/ Rebuild

\* The event loops run what is ready, the reader thread reads, upstreams have a
\* time limit (Recurse and EndTask), and the supervisor restarts workers.
Fairness ==
  /\ \A c \in Calls : WF_vars(CallStep(c)) /\ WF_vars(TaskStep(c))
  /\ WF_vars(HandleResult) /\ WF_vars(WriteLog)

Spec == Init /\ [][Next]_vars /\ Fairness
-----------------------------------------------------------------------------
(***************************************************************************)
(* Properties                                                              *)
(***************************************************************************)
\* The n-th thing asked for from each name on: a name as long as names lead to
\* names, then the result.
Walk[n \in 1 .. MaxDepth + 1] ==
  [sig \in Sigs |-> IF n = 1 THEN sig
                    ELSE IF Walk[n - 1][sig] \in Sigs THEN Leads[Walk[n - 1][sig]]
                    ELSE Walk[n - 1][sig]]

\* What the same call yields in one process: the result that MaxDepth names lead
\* to, if they lead to one.
LocalKind(sig) ==
  IF Walk[MaxDepth + 1][sig] \in Kinds THEN Walk[MaxDepth + 1][sig] ELSE "recursion"

\* The same through the master: the kind of error is kept for NXDOMAIN and recursion,
\* and an answer of aliases has one of them for its RRset.
KindFromMaster(local) ==
  CASE local = "aliases" -> "alias" [] local = "failure" -> "error" [] OTHER -> local

\* A call that returns has its own answer or error, the one it would have in
\* single-process mode up to these conversions, though answers arrive late, go to a
\* worker that has replaced the caller's or share the queue with other calls'.
SameAsLocal ==
  \A c \in Calls : call[c] = "returned" =>
    holder[c] = [kind |-> KindFromMaster(LocalKind(Asks[c])), sig |-> Asks[c]]

\* No name is asked twice and no more than MaxDepth in a chain that begins in
\* the worker and goes on in the master.
ChainsAreBounded ==
  \A c \in Calls : IsInjective(task[c].chain) /\ Len(task[c].chain) <= MaxDepth

\* A worker remembers a call only while it is under way.
NoEntryLeft == pending = {c \in Calls : call[c] \in InCall}

\* A call that waits will be answered, unless its answer found the request queue
\* full: its request, its task or its answer is on the way.
WaitersWillBeAnswered ==
  \A c \in Calls : call[c] = "waiting" =>
    \/ \E m \in Range(results) : c \in m.call /\ m.gen = gen
    \/ task[c].pc \in {"queued", "running"}
    \/ \E m \in Range(queue) : m[1] = c
    \/ c \in dropped

\* The log holds each line once, in the order in which they were written, also
\* across workers: no line of a worker comes after one of its successor's, though
\* it may be written when the worker is gone.
LogInOrder ==
  \A i, j \in DOMAIN log : i < j => log[i].log < log[j].log /\ log[i].gen <= log[j].gen

\* Chains stay bounded across the two processes, the worker's table holds the
\* calls under way, the queues keep their bounds and the log its order, though
\* the worker may be replaced at any time.
CallInv == TypeOK /\ ChainsAreBounded /\ NoEntryLeft /\ LogInOrder

\* Every call ends and every task of the master ends, whatever the names lead
\* to, whether or not the worker is replaced.
EveryCallEnds ==
  \A c \in Calls : /\ call[c] \in InCall ~> call[c] \notin InCall
                   /\ task[c].pc = "queued" ~> task[c].pc = "done"
=============================================================================
