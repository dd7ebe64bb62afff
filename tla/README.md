# TLA+ verification of python-smartdns

python-smartdns (`dns_forwarder` and its plugins) is a forwarding DNS server
written for one asyncio loop per process. This directory holds TLA+ modules
translated from its source, TLC configurations that model-check them, and proofs
that TLAPS checks.

## 1. The system

A query comes in by UDP, TCP or DoH. In single-process mode the `RuntimeManager`
runs it through the query pipeline. In multi-process mode the master looks it up
in a front cache, merges it with an equal query that is already under way, and
hands the rest to a pool of worker processes, each of which runs the pipeline.
The WebUI saves configurations, triggers `reload()` and streams the query log.

| component | state | operations | what is hard | what makes it correct |
|---|---|---|---|---|
| front cache and master query path (`core/front_cache.py`, `core/multiprocess/manager.py`) | the cached answers, the pending table key -> (event, holder), the current cache and pool | `process_query`, `get`, `put`, `acquire_pending`, `complete_pending`, `wait_pending`, `reload`, `stop` | the manager's fields are read again after every `await`; followers wait without a timeout; cancellation reaches a `finally` clause | one query per key at the pool, own-key answers, every follower released, `stop()` returns |
| worker pool (`multiprocess/pool.py`, `ipc.py`) | `_pending`, worker handles with generations, queues, the reader thread, the supervisor | `process_query`, `_handle_result`, `_restart_finished_workers_once`, `_restart_broken_pool`, `stop` | crashes between any two steps, results of dead generations, restart racing stop | a waiting query is reachable, a query runs at most once, lost workers are replaced, nothing survives `stop()` |
| worker runtime (`multiprocess/worker.py`) | the running tasks, nested resolves waiting for the master | `run`, `_handle_query`, `resolve`, `receive_response`, `worker_entry` | answers that arrive after a timeout | each query taken is answered once |
| shared resources (`multiprocess/shared.py`) | shared-memory blocks of the domain and IP trees | `create`, `attach`, `close` | lifetime across a reload, while pools are rebuilt | a running worker finds its blocks; no block is left behind |
| runtime manager (`core/runtime.py`, `core/services.py`) | `RuntimeState`, listeners, WebUI | `start`, `stop`, `reload` | a failure in the middle | failure keeps the old state |
| listeners (`server/*.py`) | their sockets and handler tasks | accept, close | TCP close cancels handlers, UDP and DoH do not | as above |
| query pipeline (`pipeline/*.py`) | one `RequestContext` per query | validate, request plugins, rules, dispatch, response plugins, observe, finish; nested queries | plugin exceptions, nesting | every query gets one response, `on_finish` always runs |
| dispatchers (`dispatcher/*.py`) | the tasks of one dispatch | `race`, `wait_all` | completion order, cancellation | first success wins; failure choice is fixed |
| rule engine, domain and IP sets (`rules/engine.py`, `core/domainset.py`, `core/ipset.py`) | immutable lists and tries | `select`, `lookup` | label boundaries in a byte trie, rules without a group | tags follow labels; the group selected exists |
| resolvers and transports (`resolver/**`) | sessions, DNSCrypt certificates | `resolve`, `close` | shared sessions across reloads and `stop()`; padding and certificate choice | a query never uses a session made for another configuration; the server can undo the padding |
| plugin framework (`plugin_api/*.py`) | the registry and ordered plugin lists | `build`, hook dispatch, completing the configured list | ordering, name collisions | completing a configuration keeps it valid |
| cache plugin | a TTL cache with its own pending table | `on_request`, `on_response`, `on_finish` | a leader that fails or is rejected must free its followers | no stranded follower |
| query log plugin | bounded list of entries, subscriptions | `append`, `resize`, `subscribe` | appends from any thread race with the event swap of a stream | no lost wake-up, no gap, no repeat |
| speed test plugin | addresses reserved and measured per request; measurements shared by all requests; a semaphore | the two hooks, `reserve_ips`, `measure`, the probes | concurrent hooks, shared measurements whose waiters are cancelled, permits | each duration is founded, probes and permits come back, the fastest are returned |
| rewriting plugins (tag, static answer, filter, replace, HTTPS, ECH, redirect) | none, but for the ECH key | their hooks | several plugins change one answer; message and answer must agree at the end | what they leave is what is sent, and usable |
| configuration and WebUI | the file | load, save, reload, stream | three separate reads of one file | one configuration in force, changed by reload only |

`PROJECT.json` lists each component with its status and each hazard with its line.

## 2. The modules

A step of every model is what one actor does between two suspension points: an
`await` that really yields for a coroutine, a critical section or an access to
shared memory for a thread or process. Definitions whose names end in a phrase
like `...Unchecked`, `...WithoutPop` or `...Unasked`, which follow a comment
"Mutant" and which no action uses, are
deliberate variants of a definition: each is a plausible bug that
some property has to notice (`PROJECT.json`, "mutants").

### FrontCache, SingleFlight

`FrontCache` models `MultiprocessRuntimeManager.process_query` together with the
cache object. A query's `pc` is where its coroutine is suspended: `acquire` and
`complete` at the pending lock, `waiting` on a leader's event, `asking` at the
pool. `Arrive` is everything before the first suspension (the `get` included),
`Acquire` registers or joins, `Reply` is the pool's outcome with the `put` and
the entry into `finally`, `Complete` pops the entry and sets the event, `Wake`
is a released follower, which repeats the look-up and, without an answer, asks
the pool itself. `Cancel` is a handler cancelled by a closing TCP listener.
`Swap` and `StopOldPool` are `reload()`; `StopListeners`, `StopPool`, `DropCache`
and `ExitTaskGroup` are `stop()`. Generations (`gen`, `home`, `asked`, `born`)
number the cache/pool pair, because which object a coroutine touches after a
reload is the whole difficulty. The pool is seen through its interface: a
response, nothing, or an exception.

`SingleFlight` is the promise: queries are open, flying, done or gone, no two of
one key fly together, and a query is answered for its own key. `FrontCache` ends
with the refinement mapping (`Status`, `AnsweredKey`); `ImplementsSingleFlight` is
checked and proved without reloads (with one, the promise is broken: two cache
objects do not know of each other).

### WorkerPool

One process_query per request (`qpc`), the pool's `_pending`, per-worker request
queues, one result queue, the callbacks the reader thread has scheduled, the
handles with their generation, the supervisor, the reader and `stop()`. `Exit`
is a worker task that ends by an exception, `Break` a process that dies, after
which the executor declares every future broken. `Resubmit`, `BeginRestart`,
`JoinReader` and `Rebuild` are one supervisor tick; a tick ends the supervisor
when `submit` raises. Query-log and nested-resolve messages, which touch none of
this state, are in `NestedResolve`. Left out: worker-ready messages, which are
only logged; a `terminate()`
that does not end its process; a process that dies holding the result queue's
lock, which could make the reader's join time out; `submit` failing inside
`Rebuild`.

### QueryLogStore

The class is written for callers on any thread, so each critical section and
each access to a subscription's event is a step. An append writes under the lock
(`AppendEntry`), then for each subscription it saw looks up the event
(`LookUpEvent`) and sets it (`SetEvent`). A stream checks, replaces its event
(`Rebuild`), checks again, waits (`Wake` or `Heartbeat`), and yields. `Close` may
come at any point where the generator can be closed, a superset of the points at
which the WebUI does so. That a set event wakes its waiter is assumed; with
asyncio it holds for callers on the loop's own thread, which is where the
present program calls it from.

### NestedResolve

`context.resolve()` in multi-process mode. A call in a worker is entered in
`_pending` (`Resolve`), put into the result queue by a thread that waits for room
(`Put`), and ends by an answer (`Receive`, `Resume`) or its time limit
(`TimeOut`). In the master `HandleResult` is the callback that drops messages of
replaced generations and schedules a task for each of the others. `StartTask`,
`Recurse` and `EndTask` are `_handle_resolve_request` with the nested resolutions
a plugin's own resolver makes, and `Reply` is `put_nowait` into the queue that was
looked up at the start. `WriteLog` is `_handle_query_log`: `lines` holds its tasks
between `start_soon` and their turn, which may come when the worker that sent the
line has been replaced; their order is that of the event loop, first come first
served. Queries (`PutQuery`) compete with answers for the request queue, and log
lines (`SendLog`) with requests for the result queue. `Exit`, `Resubmit` and
`Rebuild` are what `WorkerPool` has in detail; a generation (`epoch`) tells the
queues of before and after a rebuild apart. Each process feeds the result queue by
a thread of its own, so that messages of one worker keep their order while a
successor's may overtake them (`Arrivals`).

Outcomes are told apart as plugins tell them apart (`Kinds`): an answer with an
RRset of the type asked for, one with aliases only, for which dnspython's answer
has no `rrset`, an empty one, NXDOMAIN, the recursion error and other failures.
Two conversions lie on the way through the master. `Serialize` is the message: of
an answer the sections only, of an error its kind if it is NXDOMAIN or recursion
and else a `RuntimeError`. `Rebuilt` is `build_answer_from_response` in the worker,
which gives an answer without an `rrset` the first one of its answer section.
`LocalKind` is what the same call yields in single-process mode, computed from the
names alone by walking from one to the next (`Walk`, a recursive function), and
`KindFromMaster` what these conversions make of it; `SameAsLocal` compares.

### ConfigReload

Which configuration is in force and what is bound to it, in both modes.
`BeginSave`/`EndSave` are the WebUI's save: the file is torn in between, which
only the other processes can see (`LoopFree`). In multi-process mode
`BeginReload` reads the file, compares the signature and starts the new pool; the
inner `RuntimeManager.reload()` then reads the file again and either raises
(`FailReload`) or lets the pools be swapped (`SwapPools`). Either begins the
`stop()` of one of the pools, which takes its time; `AbortReload` and `FinishReload`
are its end, after which the shared resources of that pool are closed.

What a pool's `stop()` does to its workers is `BeginPoolStop`, which ends the
supervisor's interest, and `EndPoolStop`, when the executor it found has no workers
left. Tasks read the file and open the shared memory (`LoadWorker`), end and are
submitted again (`RestartWorker`) or, once `stop()` has begun, are not
(`EndWorker`). A broken executor is replaced in two steps, `BreakPool` and
`RebuildPool`, and the second does not look at `_stopping` (`pool.py:394-401`): a
pool whose `stop()` began between them is remembered in `overtaken`, since its
workers may start during that `stop()`, after it, and after the memory they open
has been closed. The supervisor of a new pool is in its first sleep of half a
second while `reload()` builds the new state, so it finds nothing broken before the
swap.

In single-process mode `reload()` has no suspension between the read and the swap
and is one step with three outcomes: `ReloadSingle`, `RejectSingle` (other
addresses, compared after the new state was built) and `FailSingle`. The query log
store outlives states and is resized while a state is built (`SetUpStore`,
`Resized`).

A resolution keeps the state it began with (`BeginResolve`) and asks for the
process-wide aiohttp session later (`AskUpstream`, `GetSession`). `stop()` is four
steps in either mode: `Stop` asks uvicorn to end and begins to stop the pool,
`CloseSessions`, `CloseResources`, and `StopReturns`, which waits for the
resolutions and rebuilds under way. Since `ManagedUvicornServer.stop` only sets
`should_exit`, DoH queries still begin resolutions at any of them, and in
multi-process mode so do the workers the master still hears (`Heard`).

### SpeedTest, SpeedChoice

`SpeedTest` has the hooks of several requests, the measurements they share and
the semaphore. An upstream's hook reserves and measures what nobody of the
request has reserved (`UpstreamHook`) or marks its addresses as not to be
measured (`ExemptHook`); the response hook (`BeginResponse`) runs when the task
group around the dispatch has ended, on the addresses of the final answer and of
`collected_results`; `EndHook` stores what `gather` returned. A measurement runs
its probes under permits (`Acquire`, `EndProbe`), is decided by the first that
answers or raises (`Decide`), cancels the rest (`CancelProbes`) and is over
(`Settle`). `Abort` is a cancelled query: `alru_cache` cancels a measurement with
its last waiter and forgets it. Requests with a skip tag do nothing and are left
out. `SpeedChoice` is what `on_response` does with the durations, with the
behaviour of infinities and NaN, and the fallback rules.

### Algorithms, TagRules, ConfigModel, AnswerRewriting, HttpsRecords, Transports, Lists

The parts that compute. They have no state, so they are operators, and
`Algorithms` makes states of their inputs: an action per algorithm chooses an
input from a set that is a constant, and an invariant compares the result with a
definition of another kind (`CoveringTags` for the trie, `AreFastest` for the
choice, `WellFounded` for the depth-first search, `Unpad` for the padding) or
with what several of them must achieve together. An assumption per constant says
which form inputs have; `MCAlgorithms` gives the sets TLC enumerates, and the
proofs hold for any sets of that form. Loops are recursive functions over
positions; those that several algorithms share are in `Lists`.

- `TagRules`: names as text, normalised, reversed and looked up in a trie of
  prefixes; networks; the tags of a result; rule selection.
- `ConfigModel`: which configurations are accepted, with the cycle search over
  groups, and how the plugin list is completed and built. The search (`Dfs`) is a
  function of the number of groups not yet being visited, which each nested call
  makes smaller; `Visit` is the body of the Python function.
- `AnswerRewriting`: an answer with its message, how the one is written back into
  the other, and the redirect, static answer, filter and replace plugins.
  Addresses are sequences of bits, so that a mask is a prefix.
- `HttpsRecords`: the ECH and HTTPS plugins on HTTPS records.
- `Transports`: DNSCrypt padding and certificate choice, the out-of-band byte of
  the custom stream transport. A certificate is its length, whether its magic and
  version are understood and its signature is right, serial and validity; `Usable`
  has the checks of `_fetch_server_key`, those of the lengths included, and
  `SelectCertificate` its loop. `ValidCertificates`, in `Algorithms`, is what the
  protocol lets a client use, extensions being optional; `NewestValidCertificate`
  says which of those are found.

### Pipeline

`PipelineEngine.handle_message` for several queries of one process with the
cache plugin. `pc` is where a query is suspended: `waiting` for another query's
future, `redirect` in the redirect plugin's nested resolve, `dispatch`, `hooks`
(the dispatcher has returned, upstream hooks still run), `response` (in a
response hook that suspends). `Arrive` is validation and the request hooks up to
the first suspension, `Wake` the continuation of the cache plugin's loop,
`EndResponse` the last response hooks, `on_observe` and `on_finish` in one step,
because nothing among them suspends: the plugin's lock is never held over a
suspension. That is not a convenience but what the code relies on, as
`on_finish` would otherwise complete the entry of the next owner. `Fail` and
`Cancel` are the two `except` clauses with the `finally` clause. What a dispatch
does is abstracted here to the results it reports and the kind of its outcome.

### Dispatcher

One dispatch over a tree of groups. Every node has a task; an upstream's reply
makes its task `ready` (`Reply`), and the task then calls `on_result` and sends
(`Resume`). A race's winner cancels its scope: `Abandon` is a suspended task that
receives the cancellation, while a task that is `ready` resumes once more, as an
anyio scope does not cancel a task whose awaited future is done. `ReceiveRace`
and `ReceiveAll` are the coordinators, `EndRace` and `EndAll` what follows the
task group. Results are the upstreams they come from, because the code passes
and changes `UpstreamResult` objects by reference: `collected` is the attribute.

## 3. The runs

A property that belongs to one question is a conjunction of named parts, each
stated and commented on its own (`RightVerdict` = `FailureMeansAllFailed`,
`FastestOfAll` and `CollectedUnlessOverwritten`). The type invariant of a module is
a part of its first invariant.

| run | properties |
|---|---|
| `fc_reloads` | `CoalescingInv` (`TypeOK`, `SingleFlight`), `OrphansHaveACause`, `StaleCrossedReload`, `HolderIsFinal`, `EndsUnlessOrphaned` (`QueriesReturned`, `StopReturned`) |
| `fc_promise` | `AnswersOwnQuestion`, `ImplementsSingleFlight` |
| `fc_reload_strands` | `RunningQueriesReturn`, violated |
| `wp` | `ExecutionInv` (`TypeOK`, `ExecutedAtMostOnce`, `RunningIsListed`), `WaitersAreReachable`, `StopLeavesNothing` (`LeaksAreLate`, `SettledByStop`), `PoolStopReturns`, `ReplacedUnlessSupervisorDied` |
| `ql_store` | `SleeperWillBeWoken`, `StreamIsFaithful` (`TypeOK`, `StoreIsASuffix`, `NothingPassedOver`, `YieldsInOrder`) |
| `cr_safety` | `ResourceInv` (`TypeOK`, `WorkersFindTheirResources`, `NothingLeftBehind`), `WorkersAgreeWithMaster`, `StoreHasCapacityInForce`, `SessionsAreRight` (`SessionMatchesConfig`, `SessionIsShared`, `RefusalHasCause`) |
| `cr_refused` | `ReloadTakesEffect`, violated |
| `pipeline` | `OwnerInv` (`TypeOK`, `OneOwner`), `FollowersAreReachable`, `SharedAsReturned` (`FollowersAgree`, `CachedAsReturned`), `EveryQueryEnds` |
| `dispatch` | `TaskInv` (`TypeOK`, `NoTaskOutlivesDispatch`), `RightVerdict`, `DispatchEnds` (`RaceNeedsOneSuccess`, `EndsWithItsUpstreams`) |
| `speedtest` | `ProbeInv` (`TypeOK`, `NoProbeOutlives`), `DurationsAreFounded` (with `MeasuredOnce`), `NoWaitOnCancelled`, `RepliedRequestsEnd` |
| `nested` | `CallInv` (`TypeOK`, `ChainsAreBounded`, `NoEntryLeft`, `LogInOrder`), `SameAsLocal`, `WaitersWillBeAnswered`, `EveryCallEnds` |
| `algos` | `TagsFollowLabels`, `FastestAreChosen`, `ConfigsWork`, `RewritesCanBeSent`, `ReplacedTwiceStaysInside`, `HttpsRecordsStayUsable`, `ServerGetsTheQuery` (`PaddingCanBeUndone`, `NewestValidCertificate`, `StreamIsTheMessage`) |

| run | instance | shows |
|---|---|---|
| `fc_reloads` | 3 queries, 1 key, one TCP, 1 reload, `stop()` | types; at most one query of a key at the pool before a reload; a stranded follower has one of the known causes, and nothing else keeps a query or `stop()` from returning; a set event's holder never changes; an old answer reaches a query born after the reload only if another query had asked for that very response before it and brought it into the new cache object |
| `fc_promise` | 4 queries, 2 keys and one keyless, no reload | no response crosses keys; the refinement of `SingleFlight` |
| `fc_reload_strands` | as `fc_reloads` | finding: a reload strands followers |
| `wp` | 1 query, 2 workers, queues of 1, 2 crashes, 1 exit | a waiting query is always reachable by a result or a failure and is not run twice; a running task of the current pool is listed; a worker that outlives `stop()` comes from a restart it overtook; `stop()` settles the query and returns; lost workers are replaced while the supervisor lives |
| `ql_store` | 2 threads, 1 stream, 4 entries, sizes 1 and 2 | the store is the newest entries; a stream skips only what was dropped, yields in order and once; no wake-up is lost |
| `cr_safety` | 5 configurations (other bootstrap, other addresses, unbuildable, without query log), both modes, 1 worker, 2 resolutions, 3 pools, 2 saves, 1 task that ends or pool that breaks | worker tasks find their resources for as long as they run, unless `stop()` overtook their pool's rebuild, and none are left behind; unless the file was saved since, workers and master agree; no resolution uses a session made for other bootstrap resolvers, the session is not replaced under those who share it until `stop()` closes it, and a refusal has a session of another configuration for its cause; the query log has the configured capacity unless a reload failed |
| `cr_refused` | as `cr_safety` | finding: what a reload changes does not take effect for the shared session |
| `pipeline` | 3 equal queries with a redirect, 1 malformed or blocked, 2 upstream results | followers are never forgotten, one owner per key, followers and cache get what the owner returned, every query ends |
| `dispatch` | 1 upstream and a group of 2, both strategies, 3 kinds of reply, 2 durations | failure means all failed and prefers NXDOMAIN; `wait_all` returns the fastest; a race ends with one success; no task outlives the dispatch; what a group has received is in `collected` of its result, unless that is also the result of the group above |
| `speedtest` | 2 requests, 3 upstreams, 2 addresses, 2 probes, 1 permit, 1 expiry, 1 cancelled query | each address is measured once per request and judged by a measurement made for it; no probe or permit is lost; nobody waits for a cancelled measurement; every request whose upstreams have replied gets its response |
| `nested` | 2 calls, one a chain of 3 names to an answer of aliases and one a cycle, depth 3, queues of 2, 2 generations, 1 query, 2 log lines | a call gets its own result, the same as in one process up to the two conversions; chains are bounded over both processes; no entry is left; a waiting call will be answered unless its answer met a full queue; log lines are written once and in order, no line of a worker after one of its successor's; every call and task ends |
| `algos` | texts of up to 4 characters, 3 groups, 2 plugins of 2 modules, 3-bit addresses, sections of up to 3 RRsets, 2 HTTPS records, blocks of 4 bytes, up to 3 certificates of 8, 123, 124 and 125 bytes | the algorithms do what they are for (section 2); the certificate chosen is the newest valid one among those with extensions |

The models also reach states that no run forbids, because nothing in the
repository promises their absence in so many words, or because a conditional
property states what does hold:

- a leader's reply from the old pool is stored in the new cache object
  (`manager.py:159`; `StaleCrossedReload` is the condition);
- a leader that `stop()` cancels is cancelled again at the pending lock, and its
  followers, and with them `stop()`, never return (`front_cache.py:78`;
  `EndsUnlessOrphaned`);
- a query that finds no live worker leaves its entry in `_pending`
  (`pool.py:198`);
- a restart that overlaps `stop()` starts workers nobody stops (`pool.py:395`;
  `LeaksAreLate`). After a reload or `stop()` the shared memory they open by name is
  gone (`manager.py:131`; `overtaken` in `WorkersFindTheirResources`), so they fail
  to start, or, if they were in time, go on with what they have read;
- a save among the separate reads of one `reload()` changes the addresses
  unchecked, or leaves master and workers on different configurations
  (`manager.py:118`; `WorkersAgreeWithMaster` is the condition);
- a single-process reload that is refused or fails has already resized the live
  query log (`runtime.py:96`; `StoreHasCapacityInForce`);
- a query under way at `stop()`, or a DoH query that begins after it, may make a
  session that nobody closes (`runtime.py:86`);
- the answer to a nested resolution is dropped when the worker's queue is full,
  and the caller waits for its time limit (`ipc.py:21`; `WaitersWillBeAnswered`).

### Disagreements with the documents

Two are runs of their own, listed as findings in `PROJECT.json`:

- `fc_reload_strands`: docs/architecture.md:632 merges equal queries, and after a
  reload the merged ones never return (`manager.py:166`).
- `cr_refused`: docs/requirements.md:372 says that a new configuration takes effect
  with the reload. The reload leaves the shared aiohttp session open, and every
  resolution of a configuration with other bootstrap resolvers or hosts is refused
  by it until the process ends (`doh_aiohttp.py:73`). The plan of 2026-07-24 under
  docs/superpowers/plans (lines 302-303) describes this and asks `reload()` to close
  the sessions; the code does not. `ReloadTakesEffect` is the promise,
  `RefusalHasCause` what holds instead.

Five others were met while modelling, and the properties state what does hold:

- docs/architecture.md:735 wants the pool to restart after damage. If a worker
  exits and another process dies before the supervisor's next tick, `submit`
  raises in the supervisor, which ends it (`pool.py:343`);
  `ReplacedUnlessSupervisorDied` has that one exception.
- docs/requirements.md:133 says that saving changes nothing without a reload. A
  restarted worker reads the file as it is (`worker.py:312`);
  `WorkersAgreeWithMaster` is conditional on no save.
- docs/architecture.md:396 says that `wait_all` keeps all results in
  `collected_results`. An outer group overwrites what an inner one stored on the
  same object (`wait_all.py:64`); `CollectedUnlessOverwritten` has that exception.
- tests/test_redirect_plugin.py:85 expects a redirect whose subquery has no RRset
  to be passed over. Through the master the answer of a name that has aliases only
  comes back rebuilt (`context.py:106`), with an alias for its RRset: the redirect is
  applied, writing it back raises (`context.py:117`), and the client gets SERVFAIL.
  `KindFromMaster` in `SameAsLocal` is that difference between the two modes, and
  `RedirectCanBeSent` is about subqueries that found addresses.
- `_fetch_server_key` raises "No valid certificate found" (`dnscrypt.py:196`) for a
  server whose certificates are valid but have no extensions: their signed data is
  exactly the 52 bytes of the fields, and the check wants more (`dnscrypt.py:181`).
  `NewestValidCertificate` is about the valid certificates with extensions, and says
  that the others are passed over even if there is nothing else.

Smaller observations from the translation, all visible in the operators: a query
for the root name makes `normalize_domain` raise; a domain line that starts with a
dot never matches; replacing twice is not idempotent for targets of different
prefix lengths; of several RRsets of the type asked for the last one is replaced
when an answer is written back; the branch of the speed choice that its comment
calls impossible is taken when no address is measurable; two enabled plugins that
register the same object pass validation and fail to build.

**Bounds.** Three queries of one key are a leader, a follower and a late comer,
which is what the coalescing protocol distinguishes; a fourth exercises the
keyless path. One reload gives two live cache objects, and a second would only
add an object no running query can distinguish from the first. Two workers let
one exit or crash while another is busy, two crashes let a rebuilt pool break again,
and a queue of one is full as soon as it holds the query or a stop message; queries
meet in `WorkerPool` only at these queues, and its invariants are proved for any
number of them. Four entries against sizes 1 and 2 make the store drop entries between
any two steps of a stream. Three queries in the pipeline are an owner, a follower
and the follower that owns next when an answer expires; an upstream beside a
group of two is the smallest dispatch in which an inner and an outer group
disagree about what came first. Two requests that share an address, with one
permit for all probes, are the least that can starve or cancel each other's
measurement. Two calls with queues of two make answers compete with a query and
requests with log lines, and leave room for messages of two generations at a time.
Two generations give late answers a successor to arrive at. The
two calls end with an answer that is converted and with an error that must not
be; that the other outcomes are kept too is part of `NestedIsLocal`. One worker suffices in
`ConfigReload`, where workers do not interact; three pools are two reloads, the
second of which meets the pool of the first, and one broken pool (`MaxExits`) is
the rebuild that a `stop()` may overtake; two saves give the three readers of a
reload different files. The inputs of `algos`
contain every boundary the algorithms distinguish: an empty label, an exactly
full block, infinite and missing durations, an empty mandatory list, prefixes of
length 0 and full length, certificates one byte short of their fields, of just the
fields and of one byte more. Every bound is a named constant used in a guard
(`MaxReloads`, `MaxGen`, `MaxCrashes`, `MaxExits`, `MaxId`, `MaxPools`,
`MaxSaves`, `MaxResults`, `MaxExpiries`, `MaxAborts`, `MaxQueries`, `MaxLogs`), so it limits how often the environment acts and nothing else.
Deadlock is not checked because each of these systems may legitimately stop:
once every query is finished and the bounds are used up nothing is left to do.

**Fairness.** Weak fairness of each coroutine's own steps: a ready callback of an
asyncio loop runs. `FrontCache` assumes that the pool answers or fails every
query, which the pool's own timeout guarantees; it assumes nothing about
arrivals, cancellations, reloads or `stop()` being called. `WorkerPool` assumes
progress of the reader thread, the supervisor's ticks, a started `stop()` and the
executor noticing a dead process, and nothing about workers finishing.
`QueryLogStore` assumes that a started append and a stream that is being read
proceed; heartbeats and appends themselves are not fair. `Pipeline` assumes that
what a query awaits in its own pipeline ends, as upstreams, nested resolves and
probes have timeouts, and nothing of another query's future. `Dispatcher`
assumes the event loop only; upstreams may never reply. `SpeedTest` assumes that
the loop runs ready tasks and that probes end, each having a timeout, and nothing
about upstreams, cancellations or expiry; one weak fairness condition over all
these steps is enough since each of them brings some measurement or hook closer
to its end. `NestedResolve` assumes that a call's thread, time limit and
resumption, the master's tasks (those that write log lines included) and the reader
proceed; workers need not take
messages or be restarted.

## 4. The proofs

All theorems hold for every value of the constants that satisfies the named
assumption of the module: any number of queries, workers, streams, upstreams,
reloads and crashes. The assumptions say that markers are distinct from real
values, that functions have their types and that bounds are natural numbers; the
two that say more are named below. Every safety property that a run checks
is the conclusion of a theorem. Each proof has the same plan: an invariant `IInv`
that implies the properties, one lemma per action or per shape that several
actions share, and `Spec => []IInv`.

`FrontCacheProofs`: `TypeCorrect`, `OwnQuestion`, `Coalescing`, `OrphanCauses`,
`HolderFinality`. None of the four properties is inductive. `IInv` = `TypeOK` and
`DataInv` (whatever is stored in a cache entry, in a holder or as a response has
the key it is stored for) and `ControlInv`: an entry is registered under its own
key and at one place (`PendingKeys`, `RegisteredOnce`), nothing lives in a cache
object that does not exist yet (`NothingAhead`), before the first reload a leading
query owns the entry of its key (`LeaderOwnsEntry`), an entry of the current cache
belongs to a leading query or to one that was cancelled or raised
(`EntryHasLeader`), and a waiting query joined an entry that is still registered
(`WaitKeys`, `WaitingIsRegistered`). `Coalescing` follows from `LeaderOwnsEntry`,
since two owners of one entry are equal; `OrphanCauses` from the last three.
- `OnlyBroughtAnswersAreStale` needs in addition where responses come from
  (`StaleInv`): a query is not younger than what it uses (`BirthInv`), a leader's
  response is of the pool it asked (`MadeHere`), and whatever is older than the
  cache object it lies in, than a follower that will read it or than the query
  that returned it was brought by some query that asked before (`OldCached`,
  `OldShared`, `OldReturned`). `Shape` lists the ten things a step can do to a query.
- `Refines` is the refinement: as long as `gen = 0`, every step is a step of
  `SingleFlight` or leaves its variables alone. Leaving `acquire` for the pool is
  `Launch`, whose guard is `LeaderOwnsEntry` read backwards: a flying query of the
  key would have its entry where this one has found none. A pool that `stop()`
  ends lands all its queries at once.

`QueryLogStoreProofs`: `TypeCorrect` and `NoLostWakeUp`. The strengthening is
`ActiveIsSubscribed`: a stream between its subscription and its close is in the
list an append copies. The argument is that of the code: an append that came
before the event swap is seen by the second check, and one that came after it sees
the new event. `StreamsAreFaithful` rests on `NewestKeepsTheEnd` (what a bounded
deque keeps) and on `StreamInv`: a fetched batch lies ahead of `last_seen_id`, and
has no gap where the store still has an entry.

`PipelineProofs`: `TypeCorrect`, `NoFollowerForgotten`, `OneOwnerPerKey`,
`SharedResponses`. The invariant relates the three places that know about
ownership: a registered entry belongs to a working query of its key
(`EntriesOwned`), a working query has the entry (`OwnersListed`), a future is set
when its query ends and not before (`FreshFutures`), and a waiter's unset future
belongs to the query that is still registered (`WaitersJoined`); for the data, that
a query holds only what it made itself (`FinalsOwn`) and has something to return
once dispatched (`AnsweredHasFinal`). Every action is first shown to have one of
six shapes (`NextShape`), and each shape to keep the invariant.

`ConfigReloadProofs`: `PoolsAndResourcesStayTogether`, `WorkersRunTheMastersConfig`,
`StoreFollowsConfig`, `SessionsFollowConfig`. `PoolsKept` says which pools exist, are
supervised and have resources at each place of `reload()` and `stop()`. `TasksKept`
is what makes the resources of a worker task last: a pool with tasks has its
resources or was overtaken, once `stop()` is past the pool's only an overtaken one
has tasks, and a pool that is being rebuilt either still has a supervisor or was
overtaken. `Unsaved` carries the agreement of the three reads through a reload:
without a save since the first of them the file is buildable, the newest pool's
workers have it, and the master has it once `SwapPools` is past. `SessionInv` adds to
`SessionsAreRight` that an open session was made by some resolution for its own
configuration (`SessionHasMaker`), which is the cause a refusal needs.

`WorkerPoolProofs`: `ExecutedOnce`, `NoWaiterIsLost`, `StopLeavesOnlyLateWorkers`.
`SupervisionInv` is about tasks and executors: generations are handed out in
order, until `stop()` all that runs or is listed belongs to the executor in use,
a broken executor runs nothing, and `stop()` knows which workers it has met.
`QueryInv` says that a query is at one place only: in one queue, with one worker or
in one result (`OnceInQueues`, `OnceInWorkers`, `OnceInMessages`, `OnePlace`).
`ExecutionInv` counts those places (`Places`); the proof goes from "any two are
equal" to a cardinality of at most one.

`NestedResolveProofs`: `CallsAreBounded`, `NestedIsLocal`, `WaitersAreServed`.
`ChainInv` identifies the chain of a running task with the walk from its call's
name, so that the outcome at which the task ends is `LocalKind`; the walk's
properties are proved by a least counterexample. `AnswersRight` carries that outcome
through its two conversions: what lies in the request queue or with a call that has
been answered is `LocalKind` as the message has it (`SentOutcome`), and what a call
returned is that rebuilt (`FinalOutcome`, which is `KindFromMaster`). `LogInv` is
about the lines accepted, written or not (`Handled`, the log followed by the waiting
tasks): they ascend in number and in generation, and what is still in the
result queue from the current worker is newer. `LogInOrder` holds of the log because it is
a prefix of `Handled`. `WaitersInv` follows a request from queue to task to answer
and tells generations apart, which `WaitersWillBeAnswered` does not: that a task
writes into the queue its worker reads is the strengthening.

`DispatcherProofs`: `NoTaskIsLeft`, `VerdictIsRight`, for every tree of groups.
`DispatcherAssumption` contains what the configuration's validation enforces: no
group is empty and none contains itself (every set of inner nodes has a member whose
parent is outside). `ScopeInv`: a group outlives its members. `HeardInv`: a group
hears each member or has a winner. `VerdictInv`: what it returns does justice to
what it heard. `PathInv`: the tasks that return one upstream's result lie on one
path, which is why an object's `collected` is that of the topmost of them.
Statements about all nodes below a group follow by descending from the root
(`FromTheRoot`).

`SpeedTestProofs`: `ProbesCleanUp`, `JoinedMeasurementsEnd`, `ChoicesAreFounded`. The
assumption that upstreams are finite in number is used for the permits. `PermitInv`:
permits and the probes that hold one add up to the limit. `CacheInv`: the cache
never holds a cancelled measurement. `OrderInv`: the response hook of a request
comes last, and its hooks reserve before they wait. `FoundInv`: every recorded
duration is that of a finished measurement the request waited for, and a reserved
address has a duration or such a measurement.

`PipelineProofs` also holds what the stages of the pipeline compute
(`Algorithms`): `TagsFollowLabelsHolds`, `ConfigsWorkHolds`,
`FastestAreChosenHolds`, `RewritesCanBeSentHolds`,
`ReplacedTwiceStaysInsideHolds`, `HttpsRecordsStayUsableHolds`,
`ServerGetsTheQueryHolds`. The inductive invariant is `CaseInv`: a state holds an
input of the algorithm it names. What remains is a statement about all such
inputs. The assumptions on them are the forms the program guarantees:
lists are sequences, the candidates of an answer differ, a section has at most
one RRset of the type asked for, HTTPS records are well formed when they come in,
a target network has no bit set after its prefix, plugin names are unique as
validation requires. Alphabets, address widths, block sizes and the lengths of
lists are arbitrary.
- Loops. A recursive function over `0 .. n` is shown to be a trace (`Loop`,
  `KeptLoop`, `FoldedLoop`, `FlattenLoop`, `CertLoop`, `ChainLoop`, `DottedLoop`,
  `MaterializeLoop`), and what holds of its last state goes by `UpTo`: the set of
  positions up to which it holds contains 0 and is closed under steps. This
  replaces the library's induction theorems, which take an operator as a
  parameter.
- Tags. `PrefixOfLabels`: texts of dotted labels are prefixes of each other exactly
  where the lists of labels are, so that the byte trie matches no label halfway.
- Configurations. `Sound` is the strengthening for the search: as
  long as no cycle was found, no set of visited groups is cyclic and their
  references are visited too. `VisitSearches` carries it through one call, given
  that nested calls keep it; `OnPath` says that each group being visited refers to
  another one or to the call's group, so that meeting one again is a cycle.
  `FreeNameIsFree` is a pigeonhole argument; `IsCompletion` is kept by each step of
  `Materialize`.
- Speed choice. `RanksAreAnOrder`: ranking by duration, then by place, is a stable
  sort; `KeepWhileKeeps`: the loop that breaks keeps the longest good prefix.
- Answers. `AnswerIs` and `WrittenBack`: reading back an RRset that was written into
  a section yields it, whatever aliases lead to it.
- Addresses. `MapIpFacts`: mapping an address twice, into networks of one prefix
  length, is mapping it into the second; `ExpandTwice` does the same for lists.
- Transports. `NextMultiple` for block sizes, `NewestCertificate` for the
  certificate loop, which finds the newest valid certificate that has extensions, `Rejoined` for the stream.

Only model-checked: everything under fairness (`EndsUnlessOrphaned`,
`PoolStopReturns`, `ReplacedUnlessSupervisorDied`, `EveryQueryEnds`,
`DispatchEnds`, `RepliedRequestsEnd`, `EveryCallEnds`). Liveness needs `ENABLED`,
which is outside the prover's fragment. The two findings are counterexamples,
which TLC exhibits.

## 5. What is not modelled, and the plan

Modelled and checked: `FrontCache` with its promise, `WorkerPool`,
`NestedResolve`, `QueryLogStore`, `ConfigReload`, `Pipeline`, `Dispatcher`,
`SpeedTest` and the algorithms. Proved: every safety property that a run checks,
and the refinement. Liveness stays with TLC (section 4).

Not modelled:

- start-up. A failed start ends the process, so nothing later depends on what it
  leaves behind; every module begins with a started system.
- the transports' I/O (c-ares, aiohttp, httpx, curl, sockets), wire formats and
  cryptography: they are third-party clients called once per query. The session
  tables of the other DoH clients are keyed by their configuration, unlike the
  one in `ConfigReload`, so a reload cannot bind them wrongly. The DNSCrypt
  certificate is fetched once and never refreshed; there is no later state.
- the field-level schema of the configuration (ranges, address syntax), HTML,
  authentication, logging, the command line, and the text of query log entries.
- the ECH plugin's cached key, which is kept 300 s, a failed load included, and
  affects only whether `cloudflare` in `HttpsRecords` is empty.
- libraries (asyncio, anyio, multiprocessing, async_lru, dnspython) are modelled
  by the way the code uses them.
