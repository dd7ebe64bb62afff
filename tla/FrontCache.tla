------------------------------ MODULE FrontCache ------------------------------
(***************************************************************************)
(* The master process' query path in multi-process mode:                   *)
(* MultiprocessRuntimeManager.process_query, the FrontCache object it      *)
(* consults, and the two manager operations that replace that object under *)
(* running queries, reload() and stop().                                   *)
(*                                                                         *)
(* Every query is a coroutine of one event loop, so a step of the model is *)
(* what one coroutine does between two suspension points.  The pending     *)
(* lock is an anyio.Lock held over no other suspension than the one its    *)
(* own acquire() makes: its critical sections are atomic steps, and the    *)
(* suspension is the boundary between two steps.                           *)
(*                                                                         *)
(* The worker pool is seen through its interface: a query that was handed  *)
(* to a pool gets a response, None (dropped) or an exception (timeout,     *)
(* worker error, pool shut down).  WorkerPool.tla models the pool itself.  *)
(***************************************************************************)
EXTENDS Naturals, FiniteSets

CONSTANTS
  Requests,    \* the queries that may arrive
  Keys,        \* cache keys (qname, qtype, IN)
  NoKey,       \* _make_key_from_request returned None
  NoReq,       \* no pending entry
  KeyOf,       \* the key of each query, or NoKey
  Proto,       \* the listener a query came in by: "udp", "tcp" or "doh"
  MaxReloads   \* bound on the number of successful reloads

ASSUME FrontCacheAssumption ==
  /\ NoKey \notin Keys
  /\ NoReq \notin Requests
  /\ KeyOf \in [Requests -> Keys \cup {NoKey}]
  /\ Proto \in [Requests -> {"udp", "tcp", "doh"}]
  /\ MaxReloads \in Nat

VARIABLES
  gen,       \* which FrontCache/pool pair the manager holds: one per reload
  stopping,  \* the previous pool, while reload() is stopping it
  phase,     \* how far stop() has come
  cache,     \* cache[g][k]: the answer stored in generation g under key k
  pending,   \* pending[g][k]: the query whose event is registered for k
  fired,     \* the queries whose event has been set
  wire,      \* holder["wire"] of the event a query registered
  pc,        \* where a query's coroutine is suspended
  home,      \* the FrontCache object its current call runs on
  joined,    \* the query whose event it awaits
  asked,     \* the pool it was handed to
  resp,      \* its response so far
  born       \* ghost: the generation current when it arrived

reqVars == <<pc, home, joined, asked, resp, born>>
vars == <<gen, stopping, phase, cache, pending, fired, wire,
          pc, home, joined, asked, resp, born>>

Gens == 0..MaxReloads

\* "answer": NOERROR with an rrset; "other": any other response; "broken":
\* NOERROR that dns.resolver.Answer refuses; "servfail": made by the manager.
Kinds == {"answer", "other", "broken", "servfail"}
NoResponse == [kind |-> "none", key |-> NoKey, by |-> 0]
Response == [kind: Kinds, key: Keys \cup {NoKey}, by: Gens]
MaybeResponse == Response \cup {NoResponse}
Final == {"done", "raised", "cancelled"}
Keyed == {"acquire", "waiting", "complete"}  \* inside calls made with a key
Places == {"new", "acquire", "waiting", "asking", "complete"} \cup Final

TypeOK ==
  /\ gen \in Gens
  /\ stopping \subseteq Gens
  /\ phase \in {"run", "listeners", "pool", "cleared", "stopped"}
  /\ cache \in [Gens -> [Keys -> MaybeResponse]]
  /\ pending \in [Gens -> [Keys -> Requests \cup {NoReq}]]
  /\ fired \subseteq Requests
  /\ wire \in [Requests -> MaybeResponse]
  /\ pc \in [Requests -> Places]
  /\ \A r \in Requests : pc[r] \in Keyed => KeyOf[r] \in Keys
  /\ home \in [Requests -> Gens]
  /\ joined \in [Requests -> Requests \cup {NoReq}]
  /\ asked \in [Requests -> Gens]
  /\ resp \in [Requests -> MaybeResponse]
  /\ born \in [Requests -> Gens]

Init ==
  /\ gen = 0 /\ stopping = {} /\ phase = "run"
  /\ cache = [g \in Gens |-> [k \in Keys |-> NoResponse]]
  /\ pending = [g \in Gens |-> [k \in Keys |-> NoReq]]
  /\ fired = {}
  /\ wire = [r \in Requests |-> NoResponse]
  /\ pc = [r \in Requests |-> "new"]
  /\ home = [r \in Requests |-> 0]
  /\ joined = [r \in Requests |-> NoReq]
  /\ asked = [r \in Requests |-> 0]
  /\ resp = [r \in Requests |-> NoResponse]
  /\ born = [r \in Requests |-> 0]

PoolGone == phase \in {"pool", "cleared", "stopped"}
CacheGone == phase \in {"cleared", "stopped"}

Servfail(r) == [kind |-> "servfail", key |-> KeyOf[r], by |-> gen]
-----------------------------------------------------------------------------
(***************************************************************************)
(* process_query                                                           *)
(***************************************************************************)
Return(r, response) ==
  /\ pc' = [pc EXCEPT ![r] = "done"]
  /\ resp' = [resp EXCEPT ![r] = response]

\* Mutant: the answer is stored under some other query's key.
PutUnderAnyKey(r, response) ==
  \E q \in Requests \ {r} :
    cache' = IF response.kind = "answer" /\ KeyOf[q] \in Keys
             THEN [cache EXCEPT ![gen][KeyOf[q]] = response]
             ELSE cache

\* put_response: only a NOERROR response with an rrset is stored, into the
\* cache the manager holds now.
Put(r, response) ==
  cache' = IF response.kind = "answer"
           THEN [cache EXCEPT ![gen][KeyOf[r]] = response]
           ELSE cache

\* What a leader does from the moment the pool's call returns or raises to the
\* suspension in complete_pending, which runs on the cache held at that time.
\* Without a key complete_pending returns at once and nothing is stored.
Settle(r, response) ==
  IF KeyOf[r] = NoKey
  THEN /\ Return(r, response)
       /\ UNCHANGED <<cache, home>>
  ELSE /\ Put(r, response)
       /\ pc' = [pc EXCEPT ![r] = "complete"]
       /\ home' = [home EXCEPT ![r] = gen]
       /\ resp' = [resp EXCEPT ![r] = response]

\* The call of self._worker_pool.process_query: the pool attribute is read
\* now; if stop() has cleared it the AttributeError becomes a SERVFAIL.
Ask(r) ==
  IF PoolGone
  THEN Settle(r, Servfail(r)) /\ UNCHANGED asked
  ELSE /\ pc' = [pc EXCEPT ![r] = "asking"]
       /\ asked' = [asked EXCEPT ![r] = gen]
       /\ UNCHANGED <<cache, home, resp>>

\* The top of the loop: get_response, then acquire_pending up to its lock.
Lookup(r) ==
  LET k == KeyOf[r] IN
  \/ /\ k = NoKey
     /\ Ask(r)
  \/ /\ k \in Keys
     /\ cache[gen][k] # NoResponse
     /\ Return(r, cache[gen][k])
     /\ UNCHANGED <<cache, home, asked>>
  \/ /\ k \in Keys
     /\ cache[gen][k] = NoResponse
     /\ pc' = [pc EXCEPT ![r] = "acquire"]
     /\ home' = [home EXCEPT ![r] = gen]
     /\ UNCHANGED <<cache, asked, resp>>

\* A listener starts process_query.  UDP and TCP stop doing so when stop()
\* closes the listeners; an HTTP request may still come in, and is refused
\* once the pool or the cache is gone.
Arrive(r) ==
  /\ pc[r] = "new"
  /\ phase = "run" \/ (Proto[r] = "doh" /\ phase # "stopped")
  /\ born' = [born EXCEPT ![r] = gen]
  /\ IF PoolGone
     THEN /\ pc' = [pc EXCEPT ![r] = "raised"]
          /\ UNCHANGED <<cache, home, asked, resp>>
     ELSE Lookup(r)
  /\ UNCHANGED <<gen, stopping, phase, pending, fired, wire, joined>>

\* Mutant: acquire_pending registers without looking for an entry first.
AcquireUnchecked(r) ==
  /\ pc[r] = "acquire"
  /\ pending' = [pending EXCEPT ![home[r]][KeyOf[r]] = r]
  /\ Ask(r)
  /\ UNCHANGED <<gen, stopping, phase, fired, wire, joined, born>>

\* The critical section of acquire_pending, on the cache object the call was
\* made on; the query that registers the event goes on to ask the pool.
Acquire(r) ==
  LET g == home[r]
      k == KeyOf[r]
  IN
  /\ pc[r] = "acquire"
  /\ \/ /\ pending[g][k] = NoReq
        /\ pending' = [pending EXCEPT ![g][k] = r]
        /\ IF CacheGone  \* the finally clause finds no cache object
           THEN /\ pc' = [pc EXCEPT ![r] = "raised"]
                /\ UNCHANGED <<cache, home, asked, resp>>
           ELSE Ask(r)
        /\ UNCHANGED joined
     \/ /\ pending[g][k] # NoReq
        /\ pc' = [pc EXCEPT ![r] = "waiting"]
        /\ joined' = [joined EXCEPT ![r] = pending[g][k]]
        /\ UNCHANGED <<pending, cache, home, asked, resp>>
  /\ UNCHANGED <<gen, stopping, phase, fired, wire, born>>

\* What the pool's process_query may produce: a response, None, or an
\* exception.  A response put_response cannot turn into an Answer makes it
\* raise, and the client gets a SERVFAIL; without a key it is never tried.
Outcomes(r) ==
  LET made(kind) == [kind |-> kind, key |-> KeyOf[r], by |-> asked[r]] IN
  {made("answer"), made("other"), NoResponse, Servfail(r)}
    \cup (IF KeyOf[r] = NoKey THEN {made("broken")} ELSE {})

Reply(r) ==
  /\ pc[r] = "asking"
  /\ \E response \in Outcomes(r) : Settle(r, response)
  /\ UNCHANGED <<gen, stopping, phase, pending, fired, wire, joined, asked, born>>

\* Mutant: the event is set but the entry is not popped.
CompleteWithoutPop(r) ==
  LET entry == pending[home[r]][KeyOf[r]] IN
  /\ pc[r] = "complete"
  /\ pc' = [pc EXCEPT ![r] = "done"]
  /\ entry # NoReq
  /\ fired' = fired \cup {entry}
  /\ wire' = [wire EXCEPT ![entry] =
                IF resp[r].kind = "answer" THEN NoResponse ELSE resp[r]]
  /\ UNCHANGED <<gen, stopping, phase, cache, pending, home, joined, asked, resp, born>>

\* Mutant: complete_pending returns early when there is no response to share.
CompleteOnlyResponses(r) ==
  LET entry == pending[home[r]][KeyOf[r]] IN
  /\ pc[r] = "complete"
  /\ pc' = [pc EXCEPT ![r] = "done"]
  /\ IF entry = NoReq \/ resp[r] = NoResponse
     THEN UNCHANGED <<pending, fired, wire>>
     ELSE /\ pending' = [pending EXCEPT ![home[r]][KeyOf[r]] = NoReq]
          /\ fired' = fired \cup {entry}
          /\ wire' = [wire EXCEPT ![entry] =
                        IF resp[r].kind = "answer" THEN NoResponse ELSE resp[r]]
  /\ UNCHANGED <<gen, stopping, phase, cache, home, joined, asked, resp, born>>

\* The rest of complete_pending: pop the entry, fill the holder, set the event.
Complete(r) ==
  LET g == home[r]
      k == KeyOf[r]
      entry == pending[g][k]
  IN
  /\ pc[r] = "complete"
  /\ pc' = [pc EXCEPT ![r] = "done"]
  /\ pending' = [pending EXCEPT ![g][k] = NoReq]
  /\ IF entry = NoReq
     THEN UNCHANGED <<fired, wire>>
     ELSE /\ fired' = fired \cup {entry}
          /\ wire' = [wire EXCEPT ![entry] =
                        IF resp[r].kind = "answer" THEN NoResponse ELSE resp[r]]
  /\ UNCHANGED <<gen, stopping, phase, cache, home, joined, asked, resp, born>>

\* Mutant: a follower that finds no wire in the holder does not go round again.
WakeOnlyWithWire(r) ==
  /\ pc[r] = "waiting"
  /\ joined[r] \in fired
  /\ wire[joined[r]] # NoResponse
  /\ Return(r, wire[joined[r]])
  /\ UNCHANGED <<gen, stopping, phase, cache, pending, fired, wire,
                 home, joined, asked, born>>

\* A follower's event is set: it takes the shared wire, or goes round again.
Wake(r) ==
  /\ pc[r] = "waiting"
  /\ joined[r] \in fired
  /\ \/ /\ wire[joined[r]] # NoResponse
        /\ Return(r, wire[joined[r]])
        /\ UNCHANGED <<cache, home, asked>>
     \/ /\ wire[joined[r]] = NoResponse
        /\ CacheGone
        /\ pc' = [pc EXCEPT ![r] = "raised"]
        /\ UNCHANGED <<cache, home, asked, resp>>
     \/ /\ wire[joined[r]] = NoResponse
        /\ ~CacheGone
        /\ Lookup(r)
  /\ UNCHANGED <<gen, stopping, phase, pending, fired, wire, joined, born>>

\* Closing a TCP listener cancels the handlers of its connections, and an
\* exception that leaves a UDP handler cancels the whole task group.  The wait
\* for an event is shielded.  A cancelled leader runs its finally clause, but
\* complete_pending is cancelled again at the lock, before it pops the entry.
Cancel(r) ==
  /\ \/ Proto[r] = "tcp" /\ phase # "run"
     \/ \E q \in Requests : Proto[q] = "udp" /\ pc[q] = "raised"
  /\ pc[r] \in {"acquire", "asking", "complete"}
  /\ pc' = [pc EXCEPT ![r] = "cancelled"]
  /\ UNCHANGED <<gen, stopping, phase, cache, pending, fired, wire,
                 home, joined, asked, resp, born>>

\* dns.resolver.LRUCache forgets an entry, by its TTL or by its size limit.
Expire(k) ==
  /\ cache[gen][k] # NoResponse
  /\ cache' = [cache EXCEPT ![gen][k] = NoResponse]
  /\ UNCHANGED <<gen, stopping, phase, pending, fired, wire, reqVars>>
-----------------------------------------------------------------------------
(***************************************************************************)
(* reload and stop, which exclude each other by the manager's lock         *)
(***************************************************************************)
\* Mutant of Swap: the cache object is kept.
SwapKeepingCache ==
  /\ phase = "run" /\ stopping = {} /\ gen < MaxReloads
  /\ gen' = gen + 1
  /\ stopping' = {gen}
  /\ cache' = [cache EXCEPT ![gen + 1] = cache[gen]]
  /\ UNCHANGED <<phase, pending, fired, wire, reqVars>>

\* reload(): the new pool is up and the new state built; the three attributes
\* are replaced without a suspension in between.
Swap ==
  /\ phase = "run" /\ stopping = {} /\ gen < MaxReloads
  /\ gen' = gen + 1
  /\ stopping' = {gen}
  /\ UNCHANGED <<phase, cache, pending, fired, wire, reqVars>>

\* The pool's stop() fails every query it still holds; the coroutines resume
\* in the order they were woken, before stop() itself gets on.
FailAsking(failing) ==
  /\ pc' = [r \in Requests |->
              IF r \notin failing THEN pc[r]
              ELSE IF KeyOf[r] = NoKey THEN "done" ELSE "complete"]
  /\ home' = [r \in Requests |->
                IF r \in failing /\ KeyOf[r] # NoKey THEN gen ELSE home[r]]
  /\ resp' = [r \in Requests |-> IF r \in failing THEN Servfail(r) ELSE resp[r]]

Asking(g) == {r \in Requests : pc[r] = "asking" /\ asked[r] = g}

StopOldPool ==
  /\ stopping # {}
  /\ stopping' = {}
  /\ FailAsking(UNION {Asking(g) : g \in stopping})
  /\ UNCHANGED <<gen, phase, cache, pending, fired, wire, joined, asked, born>>

\* stop(): close the listeners, stop the pool, drop the cache, and wait for
\* every task of the task group.
StopListeners ==
  /\ phase = "run" /\ stopping = {}
  /\ phase' = "listeners"
  /\ UNCHANGED <<gen, stopping, cache, pending, fired, wire, reqVars>>

StopPool ==
  /\ phase = "listeners"
  /\ phase' = "pool"
  /\ FailAsking(Asking(gen))
  /\ UNCHANGED <<gen, stopping, cache, pending, fired, wire, joined, asked, born>>

DropCache ==
  /\ phase = "pool"
  /\ phase' = "cleared"
  /\ UNCHANGED <<gen, stopping, cache, pending, fired, wire, reqVars>>

ExitTaskGroup ==
  /\ phase = "cleared"
  /\ \A r \in Requests : pc[r] \in Final \cup {"new"}
  /\ phase' = "stopped"
  /\ UNCHANGED <<gen, stopping, cache, pending, fired, wire, reqVars>>
-----------------------------------------------------------------------------
Query(r) == Arrive(r) \/ Acquire(r) \/ Reply(r) \/ Complete(r) \/ Wake(r) \/ Cancel(r)
Stop == StopListeners \/ StopPool \/ DropCache \/ ExitTaskGroup

Next ==
  \/ \E r \in Requests : Query(r)
  \/ \E k \in Keys : Expire(k)
  \/ Swap \/ StopOldPool
  \/ Stop

Spec == Init /\ [][Next]_vars

\* The event loop runs every ready coroutine, the pool answers within
\* response_timeout, and stop() and reload() get on once they have begun.
\* Nothing obliges queries to arrive, entries to expire or anyone to call
\* reload() or stop().  Of the steps under one condition one at most is enabled.
Fairness ==
  /\ \A r \in Requests : WF_vars(Acquire(r) \/ Reply(r) \/ Complete(r) \/ Wake(r))
  /\ WF_vars(StopOldPool) /\ WF_vars(StopPool \/ DropCache \/ ExitTaskGroup)

FairSpec == Spec /\ Fairness
-----------------------------------------------------------------------------
(***************************************************************************)
(* Properties                                                              *)
(***************************************************************************)
\* A client never gets the answer to another question: whatever a query
\* returns (its own response, a cached one, or the wire another query left in
\* its holder) was computed for its own key, through any number of reloads.
AnswersOwnQuestion ==
  \A r \in Requests :
    pc[r] = "done" /\ resp[r] # NoResponse => resp[r].key = KeyOf[r]

\* acquire_pending merges concurrent queries: until a reload replaces the
\* cache object, at most one query per key is at the worker pool.
SingleFlight ==
  gen = 0 => \A q, r \in Requests :
               /\ pc[q] = "asking" /\ pc[r] = "asking"
               /\ KeyOf[q] = KeyOf[r] /\ KeyOf[r] # NoKey
               => q = r

\* The state is well formed, in particular a call made with a key has one, and
\* acquire_pending merges: no two leaders for one key before a reload.
CoalescingInv == TypeOK /\ SingleFlight

\* A follower whose event nobody is going to set: its leader has left
\* process_query.
Orphaned(r) ==
  /\ pc[r] = "waiting"
  /\ joined[r] \notin fired
  /\ pc[joined[r]] \notin {"asking", "complete"}

\* wait_for_pending_response has no timeout, so a follower relies on its
\* leader's finally clause.  It is let down only if the leader was cancelled
\* (or raised) in stop(), or if its event is still registered in a cache object
\* that reload() has replaced.
OrphansHaveACause ==
  \A r \in Requests :
    Orphaned(r) => \/ pc[joined[r]] \in {"cancelled", "raised"}
                   \/ \E g \in Gens : g < gen /\ pending[g][KeyOf[r]] = joined[r]

\* An event is set once and its holder never changes afterwards: a follower
\* that resumes late reads what its leader left, whoever leads in between.
HolderIsFinal ==
  [][\A r \in fired : r \in fired' /\ wire'[r] = wire[r]]_vars

\* Until stop() is called every query that entered process_query leaves it:
\* the leader's finally clause wakes those that coalesced with it.  Each query is
\* made once, so it is enough that in the end none is inside.
RunningQueriesReturn ==
  [](phase = "run") => <>[](\A r \in Requests : pc[r] \in {"new"} \cup Final)

\* What a query and stop() do unless an orphan keeps them.
QueriesReturned == \A r \in Requests : pc[r] \in {"new"} \cup Final \/ Orphaned(r)
StopReturned == phase \in {"run", "stopped"} \/ \E r \in Requests : Orphaned(r)

\* Orphaned followers are the only obstacle: whatever reload() and stop() do
\* meanwhile, in the end every query that entered process_query has left it or is
\* orphaned, and a stop() that was called has returned or waits for an orphan.
EndsUnlessOrphaned == <>[](QueriesReturned /\ StopReturned)

\* A query that arrives after a reload() may get an answer the previous pool
\* computed, but only the very response that another query had asked for before
\* the reload and brought along, by storing or sharing it through the manager's
\* new cache object.
StaleCrossedReload ==
  \A r \in Requests :
    LET x == resp[r] IN
    pc[r] = "done" /\ x.kind \in {"answer", "other"} /\ x.by < born[r]
    => \E q \in Requests : /\ KeyOf[q] = KeyOf[r] /\ resp[q] = x
                           /\ born[q] <= x.by /\ asked[q] = x.by /\ x.by < home[q]
-----------------------------------------------------------------------------
(***************************************************************************)
(* The inductive invariant behind the safety properties                    *)
(***************************************************************************)
Leading == {"asking", "complete"}

\* Whatever is stored or passed on carries the key it is stored under.
CacheKeys == \A g \in Gens, k \in Keys :
               cache[g][k] # NoResponse => cache[g][k].key = k
PendingKeys == \A g \in Gens, k \in Keys :
                 pending[g][k] # NoReq => KeyOf[pending[g][k]] = k
WireKeys == \A r \in Requests : wire[r] # NoResponse => wire[r].key = KeyOf[r]
RespKeys == \A r \in Requests : resp[r] # NoResponse => resp[r].key = KeyOf[r]
WaitKeys == \A r \in Requests :
              pc[r] = "waiting" => joined[r] \in Requests /\ KeyOf[joined[r]] = KeyOf[r]

\* An event is registered in one place at most, by a query that has become a
\* leader, and only while it is not set.
RegisteredOnce ==
  /\ \A g \in Gens, k \in Keys :
       pending[g][k] # NoReq =>
         /\ pending[g][k] \notin fired
         /\ pc[pending[g][k]] \in Leading \cup Final
         /\ \A h \in Gens : pending[h][k] = pending[g][k] => h = g
  /\ \A r \in fired : pc[r] \in Leading \cup Final

\* Calls run on the current cache object or an older one; a future one is empty.
NothingAhead ==
  /\ \A r \in Requests : home[r] <= gen
  /\ \A g \in Gens, k \in Keys : g > gen => pending[g][k] = NoReq

\* Before the first reload every leader still owns the entry for its key.
LeaderOwnsEntry ==
  gen = 0 => \A r \in Requests :
               pc[r] \in Leading /\ KeyOf[r] # NoKey => pending[0][KeyOf[r]] = r

\* An entry of the current cache object belongs to a leader that is going to
\* pop it there, or that was cancelled or raised.
EntryHasLeader ==
  \A k \in Keys :
    LET r == pending[gen][k] IN
    r # NoReq => /\ pc[r] # "done"
                 /\ pc[r] = "complete" => home[r] = gen

\* A follower's event is set or can still be reached.
WaitingIsRegistered ==
  \A r \in Requests :
    pc[r] = "waiting" /\ joined[r] \notin fired
      => \E g \in Gens : pending[g][KeyOf[r]] = joined[r]

DataInv == CacheKeys /\ WireKeys /\ RespKeys
ControlInv == /\ PendingKeys /\ WaitKeys
              /\ RegisteredOnce /\ NothingAhead /\ LeaderOwnsEntry
              /\ EntryHasLeader /\ WaitingIsRegistered
IInv == TypeOK /\ DataInv /\ ControlInv
-----------------------------------------------------------------------------
(***************************************************************************)
(* The promise of SingleFlight, read off the state of the implementation.  *)
(***************************************************************************)
Status(r) ==
  CASE pc[r] = "new" -> "new"
    [] pc[r] \in Keyed -> "open"
    [] pc[r] = "asking" -> "flying"
    [] pc[r] = "done" -> "done"
    [] pc[r] \in {"raised", "cancelled"} -> "gone"
AnsweredKey(r) == IF pc[r] = "done" /\ KeyOf[r] # NoKey THEN resp[r].key ELSE NoKey

Promise == INSTANCE SingleFlight WITH
  status <- [r \in Requests |-> Status(r)], answered <- [r \in Requests |-> AnsweredKey(r)]

\* Without reloads the cache object implements the coalescing promise: no two
\* queries with one key are at the pool together, and a query returns only
\* responses for its own key.
ImplementsSingleFlight == Promise!Spec
=============================================================================
