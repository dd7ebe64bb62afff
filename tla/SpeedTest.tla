------------------------------- MODULE SpeedTest -------------------------------
(***************************************************************************)
(* The speed test plugin: how the addresses of an answer get the durations *)
(* they are chosen by.                                                     *)
(*                                                                         *)
(* Every upstream's result of a request is given to a hook that runs       *)
(* beside the dispatch.  A hook reserves the addresses no other hook of    *)
(* the request has reserved, measures them and stores the results; the     *)
(* response hook runs when all of them have ended.  Measurements are       *)
(* shared by all requests through a cache: three probes run under a        *)
(* semaphore and the first that succeeds decides.                          *)
(*                                                                         *)
(* The lock of SpeedTestContext is never held across a suspension, so      *)
(* reserve_ips and add_results are atomic.  The order of addresses matters *)
(* to the choice alone, which is in SpeedChoice: here they are sets, and   *)
(* ip_rtt_results is what on_response makes of it, the last duration found *)
(* for each address.                                                       *)
(***************************************************************************)
EXTENDS Naturals, FiniteSets, Sequences, SequencesExt

CONSTANTS
  Requests,
  Upstreams,      \* one per upstream asked for a request
  Owner,          \* the request an upstream was asked for
  IPs,
  Offers,         \* the sets of addresses an upstream may answer with
  Rewrites,       \* answers an earlier plugin may have put in place
  Collects,       \* the requests dispatched by wait_all, which keeps collected_results
  Exemptions,     \* which upstreams' results may carry a no_speedtest tag
  ProbeCount,     \* ICMP, TCP 80 and TCP 443; they are told apart only by state
  Rtts,           \* durations a probe may report
  MaxConcurrency, \* permits of the semaphore
  MaxExpiries,    \* bound on the cache entries whose time to live passes
  MaxAborts,      \* bound on the queries cancelled
  Inf,            \* the duration of an address that is not to be measured
  NoRtt,          \* no probe reached the address
  Raised,         \* the measurement raised
  Missing         \* there is no result for the address

ASSUME SpeedTestAssumption ==
  /\ IsFiniteSet(Upstreams) /\ Owner \in [Upstreams -> Requests] /\ Requests \cap Upstreams = {}
  /\ Exemptions \subseteq SUBSET Upstreams /\ Rewrites \in [Requests -> SUBSET SUBSET IPs]
  /\ {Inf, NoRtt, Raised, Missing} \cap Rtts = {}
  /\ Inf \notin {NoRtt, Raised, Missing} /\ NoRtt \notin {Raised, Missing} /\ Raised # Missing
  /\ ProbeCount \in Nat \ {0} /\ MaxConcurrency \in Nat \ {0}
  /\ MaxExpiries \in Nat /\ MaxAborts \in Nat

\* A request's own hook is its response hook.
Hooks == Upstreams \cup Requests
RequestOf(h) == IF h \in Requests THEN h ELSE Owner[h]
Asked(r) == {u \in Upstreams : Owner[u] = r}

VARIABLES
  exempt,    \* the upstreams whose result carries a no_speedtest tag
  ips,       \* the addresses an upstream answers with
  hook,      \* where a hook is
  waits,     \* the measurements a hook gathers
  seen,      \* _seen_ips of a request
  results,   \* ip_rtt_results of a request
  cand,      \* candidate_ips of the response hook
  meas,      \* the measurements of an address started so far
  cache,     \* alru_cache: the measurement of an address it holds, or 0
  permits,   \* the semaphore
  expiries

inputs == <<exempt, ips>>
service == <<meas, cache, permits, expiries>>
vars == <<inputs, hook, waits, seen, results, cand, service>>

HookOver == {"done", "failed", "aborted"}

\* A measurement is named by its address and a number.
Ids == UNION {{ip} \X (1 .. Len(meas[ip])) : ip \in IPs}
M(id) == meas[id[1]][id[2]]

\* The probes that wait for a permit or have one.
Pending(id) == M(id).waiting + M(id).probing

TypeOK ==
  /\ exempt \subseteq Upstreams /\ ips \in [Upstreams -> SUBSET IPs]
  /\ hook \in [Hooks -> {"idle", "measuring"} \cup HookOver]
  /\ waits \in [Hooks -> SUBSET Ids]
  /\ seen \in [Requests -> SUBSET IPs] /\ cand \in [Requests -> SUBSET IPs]
  /\ results \in [Requests -> [IPs -> Rtts \cup {Inf, NoRtt, Missing}]]
  /\ \A id \in Ids :
       /\ M(id).pc \in {"running", "ending", "done", "cancelled"}
       /\ M(id).best \in Rtts \cup {NoRtt, Raised}
       /\ M(id).found \subseteq {"rtt", "raised"} /\ Pending(id) \in 0 .. ProbeCount
  /\ \A ip \in IPs : cache[ip] \in 0 .. Len(meas[ip])
  /\ permits \in 0 .. MaxConcurrency /\ expiries \in 0 .. MaxExpiries

Init ==
  /\ exempt \in Exemptions
  /\ ips \in [Upstreams -> SUBSET IPs] /\ \A u \in Upstreams : ips[u] \in Offers[u]
  /\ hook = [h \in Hooks |-> "idle"]
  /\ waits = [h \in Hooks |-> {}]
  /\ seen = [r \in Requests |-> {}]
  /\ results = [r \in Requests |-> [ip \in IPs |-> Missing]]
  /\ cand = [r \in Requests |-> {}]
  /\ meas = [ip \in IPs |-> <<>>] /\ cache = [ip \in IPs |-> 0]
  /\ permits = MaxConcurrency /\ expiries = 0
-----------------------------------------------------------------------------
(***************************************************************************)
(* The service                                                             *)
(***************************************************************************)
Fresh == [pc |-> "running", best |-> NoRtt,
          waiting |-> ProbeCount, probing |-> 0, found |-> {}]

\* measure() for each of a hook's addresses: a cached or running measurement is
\* joined, the others are started.
Measure(h, list) ==
  /\ meas' = [ip \in IPs |->
       IF ip \in list /\ cache[ip] = 0 THEN Append(meas[ip], Fresh) ELSE meas[ip]]
  /\ cache' = [ip \in IPs |->
       IF ip \in list /\ cache[ip] = 0 THEN Len(meas[ip]) + 1 ELSE cache[ip]]
  /\ waits' = [waits EXCEPT ![h] = {<<ip, cache'[ip]>> : ip \in list}]

Update(id, m) == meas' = [meas EXCEPT ![id[1]][id[2]] = m]

\* _run_probe enters the semaphore.
Acquire(id) ==
  /\ M(id).pc = "running" /\ M(id).waiting > 0 /\ permits > 0
  /\ Update(id, [M(id) EXCEPT !.waiting = @ - 1, !.probing = @ + 1])
  /\ permits' = permits - 1
  /\ UNCHANGED <<inputs, hook, waits, seen, results, cand, cache, expiries>>

\* The probe answers, fails or times out, or the socket cannot be made, which
\* no handler of _probe_tcp catches.
EndProbe(id) ==
  /\ M(id).pc = "running" /\ M(id).probing > 0
  /\ \E outcome \in {{"rtt"}, {"raised"}, {}} :
       Update(id, [M(id) EXCEPT !.probing = @ - 1, !.found = @ \cup outcome])
  /\ permits' = permits + 1
  /\ UNCHANGED <<inputs, hook, waits, seen, results, cand, cache, expiries>>

\* asyncio.wait returns: the first probe that answered, with some duration, or
\* raised, decides; without one the measurement ends when none is pending.
Decide(id) ==
  /\ M(id).pc = "running"
  /\ \E v \in Rtts \cup {Raised, NoRtt} :
       /\ v \in Rtts => "rtt" \in M(id).found
       /\ v = Raised => "raised" \in M(id).found
       /\ v = NoRtt => M(id).found = {} /\ Pending(id) = 0
       /\ Update(id, [M(id) EXCEPT !.pc = "ending", !.best = v])
  /\ UNCHANGED <<inputs, hook, waits, seen, results, cand, cache, permits, expiries>>

\* The finally clause: the probes that have not ended are cancelled and leave
\* the semaphore.
CancelProbes(id) ==
  /\ M(id).pc \in {"ending", "cancelled"} /\ Pending(id) > 0
  /\ Update(id, [M(id) EXCEPT !.waiting = 0, !.probing = 0])
  /\ permits' = permits + M(id).probing
  /\ UNCHANGED <<inputs, hook, waits, seen, results, cand, cache, expiries>>

\* Mutant: the finally clause does not wait for the probes it cancels.
SettleAtOnce(id) ==
  /\ M(id).pc = "ending"
  /\ Update(id, [M(id) EXCEPT !.pc = "done"])
  /\ UNCHANGED <<inputs, hook, waits, seen, results, cand, cache, permits, expiries>>

\* The probes have ended: the waiters get the result.  A measurement that
\* raised is not kept in the cache.
Settle(id) ==
  /\ M(id).pc = "ending" /\ Pending(id) = 0
  /\ Update(id, [M(id) EXCEPT !.pc = "done", !.found = {}])
  /\ cache' = [cache EXCEPT ![id[1]] = IF @ = id[2] /\ M(id).best = Raised THEN 0 ELSE @]
  /\ UNCHANGED <<inputs, hook, waits, seen, results, cand, permits, expiries>>

\* cache_ttl_seconds have passed since the measurement ended.
Expire(ip) ==
  /\ expiries < MaxExpiries
  /\ cache[ip] # 0 /\ M(<<ip, cache[ip]>>).pc = "done"
  /\ cache' = [cache EXCEPT ![ip] = 0] /\ expiries' = expiries + 1
  /\ UNCHANGED <<inputs, hook, waits, seen, results, cand, meas, permits>>
-----------------------------------------------------------------------------
(***************************************************************************)
(* Hooks                                                                   *)
(***************************************************************************)
\* reserve_ips: the addresses that no hook of the request has reserved.
Reserve(r, list) == list \ seen[r]

\* Without an address to measure a hook ends at once.
EnterHook(h, new) ==
  /\ Measure(h, new)
  /\ seen' = [seen EXCEPT ![RequestOf(h)] = @ \cup new]
  /\ hook' = [hook EXCEPT ![h] = IF new = {} THEN "done" ELSE "measuring"]

\* on_upstream_response for a result without the tag.
UpstreamHook(u) ==
  /\ hook[Owner[u]] = "idle" /\ hook[u] = "idle" /\ u \notin exempt
  /\ EnterHook(u, Reserve(Owner[u], ips[u]))
  /\ UNCHANGED <<inputs, results, cand, permits, expiries>>

MarkInf(r, list) == [results EXCEPT ![r] = [ip \in IPs |-> IF ip \in list THEN Inf ELSE @[ip]]]

\* ... and for one with it: all its addresses get the duration inf, the ones
\* another hook measures too.
ExemptHook(u) ==
  /\ hook[Owner[u]] = "idle" /\ hook[u] = "idle" /\ u \in exempt
  /\ seen' = [seen EXCEPT ![Owner[u]] = @ \cup ips[u]]
  /\ results' = MarkInf(Owner[u], ips[u])
  /\ hook' = [hook EXCEPT ![u] = "done"]
  /\ UNCHANGED <<inputs, waits, cand, service>>

\* The upstream failed, or the race was decided before it replied.
NoAnswer(u) ==
  /\ hook[Owner[u]] = "idle" /\ hook[u] = "idle"
  /\ hook' = [hook EXCEPT ![u] = "failed"]
  /\ UNCHANGED <<inputs, waits, seen, results, cand, service>>

\* What gather returned, the measurements that raised left out.
Found(h) == {id \in waits[h] : M(id).best # Raised}

\* gather has returned: the results are stored; one without a duration does
\* not replace one that has it.
EndHook(h) ==
  LET r == RequestOf(h)
      best(ip) == {M(id).best : id \in {i \in Found(h) : i[1] = ip}}
  IN  /\ hook[h] = "measuring" /\ \A id \in waits[h] : M(id).pc = "done"
      /\ results' = [results EXCEPT ![r] = [ip \in IPs |->
           IF best(ip) = {} \/ (NoRtt \in best(ip) /\ @[ip] # Missing) THEN @[ip]
           ELSE CHOOSE v \in best(ip) : TRUE]]
      /\ hook' = [hook EXCEPT ![h] = "done"]
      /\ UNCHANGED <<inputs, waits, seen, cand, service>>
-----------------------------------------------------------------------------
(***************************************************************************)
(* on_response                                                             *)
(***************************************************************************)
\* Mutant of HooksEnded: the response hook does not wait for the others.
SomeHookReplied(r) == \E u \in Asked(r) : hook[u] # "idle"

\* Mutant of HooksEnded: an upstream that failed is waited for.
AllHooksReplied(r) == \A u \in Asked(r) : hook[u] = "done"

\* The task group around the dispatch is left when every hook has ended.
HooksEnded(r) == \A u \in Asked(r) : hook[u] \in HookOver

Answered(r) == {u \in Asked(r) : hook[u] = "done"}

\* _collect_candidate_ips: the addresses of the final answer and of the
\* collected results; an address first found in an exempt one is given the
\* duration inf once more.
Candidates(r, answer) ==
  answer \cup IF r \in Collects THEN UNION {ips[u] : u \in Answered(r)} ELSE {}

FoundExempt(r, answer, order) ==
  {ip \in Candidates(r, answer) \ answer :
     \E n \in DOMAIN order : /\ order[n] \in exempt /\ ip \in ips[order[n]]
                             /\ \A k \in 1 .. n - 1 : ip \notin ips[order[k]]}

\* The response hook up to its gather.  Durations order the results freely; an
\* earlier plugin may have replaced the answer.
BeginResponse(r) ==
  /\ hook[r] = "idle" /\ HooksEnded(r)
  /\ \E order \in SetToSeqs(Answered(r)) :
       /\ order # <<>>
       /\ \E answer \in {ips[order[1]]} \cup Rewrites[r] :
            /\ cand' = [cand EXCEPT ![r] = Candidates(r, answer)]
            /\ results' = MarkInf(r, FoundExempt(r, answer, order))
            /\ EnterHook(r, Reserve(r, Candidates(r, answer)))
  /\ UNCHANGED <<inputs, permits, expiries>>

\* Without an answer there is nothing to do.
NoFinalAnswer(r) ==
  /\ hook[r] = "idle" /\ \A u \in Asked(r) : hook[u] = "failed"
  /\ hook' = [hook EXCEPT ![r] = "failed"]
  /\ UNCHANGED <<inputs, waits, seen, results, cand, service>>

Waiters(id) == {h \in Hooks : hook[h] = "measuring" /\ id \in waits[h]}

\* The measurements that only hooks of r wait for.
LostWith(r) ==
  {id \in Ids : /\ Waiters(id) # {} /\ \A h \in Waiters(id) : RequestOf(h) = r
                /\ M(id).pc \in {"running", "ending"}}

\* Mutant of Forget: a measurement nobody waits for any more stays in the cache.
KeepLost(lost) == cache

Forget(lost) == [ip \in IPs |-> IF <<ip, cache[ip]>> \in lost THEN 0 ELSE cache[ip]]

\* The query is cancelled.  A measurement whose last waiter this was is
\* cancelled too and leaves the cache.
Abort(r) ==
  /\ hook[r] \notin HookOver
  /\ Cardinality({q \in Requests : hook[q] = "aborted"}) < MaxAborts
  /\ hook' = [h \in Hooks |-> IF RequestOf(h) = r THEN "aborted" ELSE hook[h]]
  /\ meas' = [ip \in IPs |-> [n \in DOMAIN meas[ip] |->
       IF <<ip, n>> \in LostWith(r) THEN [meas[ip][n] EXCEPT !.pc = "cancelled"] ELSE meas[ip][n]]]
  /\ cache' = Forget(LostWith(r))
  /\ UNCHANGED <<inputs, waits, seen, results, cand, permits, expiries>>
-----------------------------------------------------------------------------
ServiceStep ==
  \E id \in Ids : Acquire(id) \/ EndProbe(id) \/ Decide(id) \/ CancelProbes(id) \/ Settle(id)

HookStep ==
  \/ \E h \in Hooks : EndHook(h)
  \/ \E r \in Requests : BeginResponse(r) \/ NoFinalAnswer(r)

Next ==
  \/ ServiceStep \/ HookStep
  \/ \E u \in Upstreams : UpstreamHook(u) \/ ExemptHook(u) \/ NoAnswer(u)
  \/ \E r \in Requests : Abort(r)
  \/ \E ip \in IPs : Expire(ip)

\* The event loop runs what is ready, and every probe has a timeout.
Spec == Init /\ [][Next]_vars /\ WF_vars(ServiceStep \/ HookStep)
-----------------------------------------------------------------------------
(***************************************************************************)
(* Properties                                                              *)
(***************************************************************************)
\* When a measurement is over, whichever probe won and however the waiters went
\* away, none of its probes runs on, and all permits are back when no
\* measurement is under way: the semaphore cannot starve later requests.
NoProbeOutlives ==
  /\ \A id \in Ids : M(id).pc = "done" => Pending(id) = 0
  /\ (\A id \in Ids : Pending(id) = 0) => permits = MaxConcurrency

\* The state is well formed, semaphore included, and measurements clean up.
ProbeInv == TypeOK /\ NoProbeOutlives

\* A request measures an address once, whichever of its hooks finds it.
MeasuredOnce ==
  \A g, h \in Hooks : g # h /\ RequestOf(g) = RequestOf(h) =>
    {id[1] : id \in waits[g]} \cap {id[1] : id \in waits[h]} = {}

\* An address is reserved before it is measured and other hooks then skip it.
\* All the same, when the addresses are chosen every candidate is judged by what
\* a measurement for this request found, by inf if a result with the tag names
\* it, and has no duration only if its measurement raised; and no two of the
\* request's hooks measured it.
DurationsAreFounded ==
  /\ MeasuredOnce
  /\ \A r \in Requests : hook[r] = "done" => \A ip \in cand[r] :
       LET mine == {id \in UNION {waits[h] : h \in {r} \cup Asked(r)} : id[1] = ip}
       IN  CASE results[r][ip] = Inf -> \E u \in Answered(r) \cap exempt : ip \in ips[u]
             [] results[r][ip] = Missing -> mine # {} /\ \A id \in mine : M(id).best = Raised
             [] OTHER -> \E id \in mine : M(id).pc = "done" /\ M(id).best = results[r][ip]

\* Nobody waits for a measurement that was cancelled because another request
\* went away: a request joins only measurements that will end.
NoWaitOnCancelled ==
  \A id \in Ids : M(id).pc = "cancelled" => Waiters(id) = {}

\* Once its upstreams have answered or failed a request gets its response,
\* though all requests together have far more probes than permits.
RepliedRequestsEnd ==
  \A r \in Requests :
    (\A u \in Asked(r) : hook[u] # "idle") ~> hook[r] \in HookOver
=============================================================================
