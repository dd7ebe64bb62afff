------------------------------- MODULE Pipeline -------------------------------
(***************************************************************************)
(* The query pipeline of one process with the cache plugin enabled: what   *)
(* PipelineEngine.handle_message does with each query, which plugin hooks  *)
(* it runs in which order, and how the cache plugin merges equal queries.  *)
(*                                                                         *)
(* Queries are coroutines of one event loop.  The plugin's asyncio.Lock is *)
(* never held over a suspension, so acquiring it does not suspend, and     *)
(* neither does the query log's append: everything from the cache plugin's *)
(* on_response to its on_finish is one step.  A query is suspended only    *)
(* while it waits for another query's future, for a nested resolve, for    *)
(* the dispatcher, for the upstream hooks or in a response hook (speed     *)
(* test, ECH).                                                             *)
(*                                                                         *)
(* Hooks run in the shipped order: tag, block, cache, redirect; then       *)
(* replace, speed test, ECH, HTTPS, block, cache.  No shipped plugin sets  *)
(* drop_request, so that path is left out.                                 *)
(***************************************************************************)
EXTENDS Naturals

CONSTANTS
  Queries,     \* queries that may arrive
  Keys,        \* cache keys
  NoQuery,     \* no pending entry
  KeyOf,       \* the key of each query
  Garbled,     \* queries whose message _validate_request_or_error may reject
  Blocked,     \* keys a static rule answers by request tags
  Redirected,  \* keys with a redirect target
  MaxResults   \* the number of upstream targets

ASSUME PipelineAssumption ==
  /\ NoQuery \notin Queries
  /\ KeyOf \in [Queries -> Keys]
  /\ Garbled \subseteq Queries
  /\ Blocked \subseteq Keys /\ Redirected \subseteq Keys
  /\ MaxResults \in Nat \ {0}

VARIABLES
  pc,       \* where a query is suspended, or how it ended
  final,    \* what its context holds as final answer or response
  results,  \* upstream results its dispatch has reported
  hooks,    \* on_upstream_response tasks that are running
  joined,   \* the query whose future it waits for
  future,   \* what the future a query registered was set to
  pending,  \* DnsCacheService._pending: whose future is registered
  cache     \* DnsCacheService._cache

vars == <<pc, final, results, hooks, joined, future, pending, cache>>

(***************************************************************************)
(* An outcome is told apart by what decides about caching and sharing: its *)
(* kind, the key it answers and the query that computed it.                *)
(***************************************************************************)
Outcome == [kind: {"answer", "static", "nxdomain", "servfail", "formerr"},
            key: Keys, by: Queries]
Nothing == [kind |-> "nothing"]
Unset == [kind |-> "unset"]      \* a future that is not done
Recheck == [kind |-> "recheck"]  \* a future set to None: look in the cache

Working == {"redirect", "dispatch", "hooks", "response"}
Ended == {"done", "cancelled"}

TypeOK ==
  /\ pc \in [Queries -> {"new", "waiting"} \cup Working \cup Ended]
  /\ final \in [Queries -> Outcome \cup {Nothing}]
  /\ results \in [Queries -> 0 .. MaxResults]
  /\ hooks \in [Queries -> 0 .. MaxResults]
  /\ joined \in [Queries -> Queries \cup {NoQuery}]
  /\ future \in [Queries -> Outcome \cup {Unset, Recheck}]
  /\ pending \in [Keys -> Queries \cup {NoQuery}]
  /\ cache \in [Keys -> Outcome \cup {Nothing}]

Init ==
  /\ pc = [q \in Queries |-> "new"]
  /\ final = [q \in Queries |-> Nothing]
  /\ results = [q \in Queries |-> 0]
  /\ hooks = [q \in Queries |-> 0]
  /\ joined = [q \in Queries |-> NoQuery]
  /\ future = [q \in Queries |-> Unset]
  /\ pending = [k \in Keys |-> NoQuery]
  /\ cache = [k \in Keys |-> Nothing]

Made(q, kind) == [kind |-> kind, key |-> KeyOf[q], by |-> q]
-----------------------------------------------------------------------------
(***************************************************************************)
(* The end of handle_message                                               *)
(***************************************************************************)
Leave(q, outcome, ending) ==
  /\ pc' = [pc EXCEPT ![q] = ending]
  /\ final' = [final EXCEPT ![q] = outcome]
  /\ hooks' = [hooks EXCEPT ![q] = 0]

\* complete_pending pops whatever entry the key has and sets its future.
CompletePending(k, value) ==
  IF pending[k] = NoQuery
  THEN UNCHANGED <<pending, future>>
  ELSE /\ pending' = [pending EXCEPT ![k] = NoQuery]
       /\ future' = [future EXCEPT ![pending[k]] = value]

\* The cache plugin's on_finish, which the finally clause reaches on every
\* path: an owner whose entry is still there shares its final response.
OnFinish(q, outcome) ==
  IF pc[q] \in Working
  THEN CompletePending(KeyOf[q], outcome)
  ELSE UNCHANGED <<pending, future>>
-----------------------------------------------------------------------------
(***************************************************************************)
(* The request phase                                                       *)
(***************************************************************************)
\* Mutant of RequestCached: acquire_pending does not look for an entry.
RequestCachedUnmerged(q) ==
  LET k == KeyOf[q] IN
  /\ cache[k] = Nothing
  /\ pending' = [pending EXCEPT ![k] = q]
  /\ pc' = [pc EXCEPT ![q] = IF k \in Redirected THEN "redirect" ELSE "dispatch"]
  /\ UNCHANGED <<final, results, hooks, joined, future, cache>>

\* The cache plugin's on_request from the top of its loop: a hit ends the
\* query, the first to miss becomes the owner and goes on to the redirect
\* plugin, the others wait for the owner's future.
RequestCached(q) ==
  LET k == KeyOf[q] IN
  \/ /\ cache[k] # Nothing
     /\ Leave(q, cache[k], "done")
     /\ UNCHANGED <<results, joined, future, pending, cache>>
  \/ /\ cache[k] = Nothing /\ pending[k] = NoQuery
     /\ pending' = [pending EXCEPT ![k] = q]
     /\ pc' = [pc EXCEPT ![q] = IF k \in Redirected THEN "redirect" ELSE "dispatch"]
     /\ UNCHANGED <<final, results, hooks, joined, future, cache>>
  \/ /\ cache[k] = Nothing /\ pending[k] # NoQuery
     /\ joined' = [joined EXCEPT ![q] = pending[k]]
     /\ pc' = [pc EXCEPT ![q] = "waiting"]
     /\ UNCHANGED <<final, results, hooks, future, pending, cache>>

\* A query arrives.  A malformed one and a statically answered one end before
\* the cache plugin sees them.
Arrive(q) ==
  /\ pc[q] = "new"
  /\ \/ /\ q \in Garbled
        /\ Leave(q, Made(q, "formerr"), "done")
        /\ UNCHANGED <<results, joined, future, pending, cache>>
     \/ /\ KeyOf[q] \in Blocked
        /\ Leave(q, Made(q, "static"), "done")
        /\ UNCHANGED <<results, joined, future, pending, cache>>
     \/ /\ KeyOf[q] \notin Blocked
        /\ RequestCached(q)

\* Mutant of Wake: a follower is released by shared responses only.
WakeToShare(q) ==
  /\ pc[q] = "waiting" /\ future[joined[q]] \in Outcome
  /\ Leave(q, future[joined[q]], "done")
  /\ UNCHANGED <<results, joined, future, pending, cache>>

\* The future is done: a shared response ends the query, None sends it round
\* the loop again.
Wake(q) ==
  /\ pc[q] = "waiting"
  /\ \/ /\ future[joined[q]] \notin {Unset, Recheck}
        /\ Leave(q, future[joined[q]], "done")
        /\ UNCHANGED <<results, joined, future, pending, cache>>
     \/ /\ future[joined[q]] = Recheck
        /\ RequestCached(q)

\* The redirect plugin's nested resolve ends: with an answer, which skips the
\* dispatch, or without a usable one.
EndRedirect(q) ==
  /\ pc[q] = "redirect"
  /\ \/ /\ pc' = [pc EXCEPT ![q] = "response"]
        /\ final' = [final EXCEPT ![q] = Made(q, "answer")]
     \/ /\ pc' = [pc EXCEPT ![q] = "dispatch"]
        /\ UNCHANGED final
  /\ UNCHANGED <<results, hooks, joined, future, pending, cache>>

\* An upstream target has a result: on_result starts a hook task.
UpstreamResult(q) ==
  /\ pc[q] = "dispatch" /\ results[q] < MaxResults
  /\ results' = [results EXCEPT ![q] = @ + 1]
  /\ hooks' = [hooks EXCEPT ![q] = @ + 1]
  /\ UNCHANGED <<pc, final, joined, future, pending, cache>>

EndHook(q) ==
  /\ pc[q] \in {"dispatch", "hooks"} /\ hooks[q] > 0
  /\ hooks' = [hooks EXCEPT ![q] = @ - 1]
  /\ UNCHANGED <<pc, final, results, joined, future, pending, cache>>

\* The dispatcher returns.  An upstream error leaves the context without an
\* answer; the cache plugin or _finalize_context makes it SERVFAIL.
EndDispatch(q) ==
  /\ pc[q] = "dispatch" /\ results[q] > 0
  /\ pc' = [pc EXCEPT ![q] = "hooks"]
  /\ \E kind \in {"answer", "nxdomain", "servfail"} :
       final' = [final EXCEPT ![q] = Made(q, kind)]
  /\ UNCHANGED <<results, hooks, joined, future, pending, cache>>

\* The task group around the dispatch ends when every hook has ended.
EndHooks(q) ==
  /\ pc[q] = "hooks" /\ hooks[q] = 0
  /\ pc' = [pc EXCEPT ![q] = "response"]
  /\ UNCHANGED <<final, results, hooks, joined, future, pending, cache>>
-----------------------------------------------------------------------------
(***************************************************************************)
(* The response phase                                                      *)
(***************************************************************************)
\* Mutant of EndResponse: the cache plugin runs before the block plugin.
EndResponseCacheFirst(q) ==
  /\ pc[q] = "response"
  /\ \E blocks \in {"no", "yes"} :
       Leave(q, IF blocks = "yes" THEN Made(q, "static") ELSE final[q], "done")
  /\ IF final[q].kind = "answer"
     THEN /\ cache' = [cache EXCEPT ![KeyOf[q]] = final[q]]
          /\ CompletePending(KeyOf[q], Recheck)
     ELSE /\ CompletePending(KeyOf[q], final[q])
          /\ UNCHANGED cache
  /\ UNCHANGED <<results, joined>>

\* The last response hooks, and everything after them.  A static rule that
\* matches the tags of the result stops the phase before the cache plugin,
\* and on_finish shares the static response.  Otherwise the cache plugin
\* stores a NOERROR answer and sends the followers to the cache, or shares
\* what it may not store.
EndResponse(q) ==
  /\ pc[q] = "response"
  /\ \/ /\ Leave(q, Made(q, "static"), "done")
        /\ OnFinish(q, Made(q, "static"))
        /\ UNCHANGED cache
     \/ /\ Leave(q, final[q], "done")
        /\ IF final[q].kind = "answer"
           THEN /\ cache' = [cache EXCEPT ![KeyOf[q]] = final[q]]
                /\ CompletePending(KeyOf[q], Recheck)
           ELSE /\ CompletePending(KeyOf[q], final[q])
                /\ UNCHANGED cache
  /\ UNCHANGED <<results, joined>>

\* A hook raises: the error path answers SERVFAIL and on_finish shares it.
Fail(q) ==
  /\ pc[q] \in {"dispatch", "hooks", "response"}
  /\ pc[q] = "response" \/ hooks[q] > 0
  /\ Leave(q, Made(q, "servfail"), "done")
  /\ OnFinish(q, Made(q, "servfail"))
  /\ UNCHANGED <<results, joined, cache>>

\* Mutant of Cancel: no finally clause.
CancelUnfinished(q) ==
  /\ pc[q] \in {"waiting"} \cup Working
  /\ Leave(q, Made(q, "servfail"), "cancelled")
  /\ UNCHANGED <<results, joined, future, pending, cache>>

\* The listener or the worker that runs the query cancels it at a suspension.
Cancel(q) ==
  /\ pc[q] \in {"waiting"} \cup Working
  /\ Leave(q, Made(q, "servfail"), "cancelled")
  /\ OnFinish(q, Made(q, "servfail"))
  /\ UNCHANGED <<results, joined, cache>>

\* An entry expires or is evicted.
Expire(k) ==
  /\ cache[k] # Nothing
  /\ cache' = [cache EXCEPT ![k] = Nothing]
  /\ UNCHANGED <<pc, final, results, hooks, joined, future, pending>>
-----------------------------------------------------------------------------
Progress(q) ==
  \/ Wake(q) \/ EndRedirect(q) \/ UpstreamResult(q) \/ EndHook(q)
  \/ EndDispatch(q) \/ EndHooks(q) \/ EndResponse(q) \/ Fail(q)

Next ==
  \/ \E q \in Queries : Arrive(q) \/ Progress(q) \/ Cancel(q)
  \/ \E k \in Keys : Expire(k)

Spec == Init /\ [][Next]_vars

\* A woken coroutine runs; upstreams, nested resolves and probes have timeouts,
\* so what a query waits for in its own pipeline ends.
Fairness == \A q \in Queries : WF_vars(Progress(q))

FairSpec == Spec /\ Fairness
-----------------------------------------------------------------------------
(***************************************************************************)
(* Properties                                                              *)
(***************************************************************************)
\* "cache 插件确保并发等待者一定被唤醒": on every path out of the pipeline,
\* errors, static answers and cancellation included, a query that waits for a
\* future has it set, or its owner is still working and will find the entry.
FollowersAreReachable ==
  \A q \in Queries :
    pc[q] = "waiting" /\ future[joined[q]] = Unset =>
      pending[KeyOf[q]] = joined[q] /\ pc[joined[q]] \in Working

\* One query per key is worked on at a time; in particular no query's on_finish
\* removes the entry of the owner that came after it.
OneOwner ==
  \A p, q \in Queries :
    pc[p] \in Working /\ pc[q] \in Working /\ KeyOf[p] = KeyOf[q] => p = q

\* The state is well formed and the cache plugin has one owner per key.
OwnerInv == TypeOK /\ OneOwner

\* An owner that returns gives its followers what it returns itself.
FollowersAgree ==
  \A q \in Queries :
    pc[q] = "done" /\ future[q] \notin {Unset, Recheck} => future[q] = final[q]

\* The cache plugin runs last: what it stores is a NOERROR answer to the key it
\* is stored under, exactly as the query that computed it returned it.
CachedAsReturned ==
  \A k \in Keys :
    cache[k] # Nothing =>
      /\ cache[k].kind = "answer" /\ cache[k].key = k
      /\ pc[cache[k].by] = "done" /\ final[cache[k].by] = cache[k]

\* However a query comes by a response that another one computed, from the
\* owner's future or from the cache, it is what that query itself returned.
SharedAsReturned == FollowersAgree /\ CachedAsReturned

\* Every query that was let in leaves the pipeline, however often answers
\* expire before the followers come back to the cache.  Each query arrives once,
\* so it is enough that in the end none is inside.
EveryQueryEnds == <>[](\A q \in Queries : pc[q] \in {"new"} \cup Ended)
=============================================================================
