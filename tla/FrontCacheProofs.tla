--------------------------- MODULE FrontCacheProofs ---------------------------
(***************************************************************************)
(* TLAPS proofs about FrontCache, for every set of queries and keys, every *)
(* assignment of keys and listeners to queries and any number of reloads.  *)
(***************************************************************************)
EXTENDS FrontCache, TLAPS

USE FrontCacheAssumption

\* NoResponse is no response, because no response has its kind.
LEMMA NoResponseApart == NoResponse \notin Response
BY DEF NoResponse, Response, Kinds

\* Updating one entry of one generation.
LEMMA EntryUpdate ==
  ASSUME NEW S, NEW f \in [Gens -> [Keys -> S]],
         NEW g \in Gens, NEW k \in Keys, NEW x \in S
  PROVE  /\ [f EXCEPT ![g][k] = x] \in [Gens -> [Keys -> S]]
         /\ \A h \in Gens, j \in Keys :
              [f EXCEPT ![g][k] = x][h][j] = IF h = g /\ j = k THEN x ELSE f[h][j]
OBVIOUS

\* The shapes of the steps a query takes share Settle, Ask and Lookup; each
\* keeps the type invariant of the variables it sets.
LEMMA SettleType ==
  ASSUME TypeOK, NEW r \in Requests, NEW x \in MaybeResponse,
         Settle(r, x)
  PROVE  /\ cache' \in [Gens -> [Keys -> MaybeResponse]]
         /\ pc' \in [Requests -> Places]
         /\ \A q \in Requests : pc'[q] \in Keyed => KeyOf[q] \in Keys
         /\ home' \in [Requests -> Gens]
         /\ resp' \in [Requests -> MaybeResponse]
<1>1. CASE KeyOf[r] = NoKey
  <2>1. Return(r, x) /\ cache' = cache /\ home' = home
    BY <1>1 DEF Settle
  <2>2. QED
    BY <2>1 DEF Return, TypeOK, Places, Final, Keyed
<1>2. CASE KeyOf[r] # NoKey
  <2>1. KeyOf[r] \in Keys
    BY <1>2
  <2>2. /\ Put(r, x)
        /\ pc' = [pc EXCEPT ![r] = "complete"]
        /\ home' = [home EXCEPT ![r] = gen]
        /\ resp' = [resp EXCEPT ![r] = x]
    BY <1>2 DEF Settle
  <2>3. cache \in [Gens -> [Keys -> MaybeResponse]] /\ gen \in Gens
    BY DEF TypeOK
  <2>4. CASE x.kind = "answer"
    <3>1. cache' = [cache EXCEPT ![gen][KeyOf[r]] = x]
      BY <2>2, <2>4 DEF Put
    <3>2. cache' \in [Gens -> [Keys -> MaybeResponse]]
      BY <2>1, <2>3, <3>1, EntryUpdate
    <3>3. QED
      BY <2>1, <2>2, <3>2 DEF TypeOK, Places, Keyed
  <2>5. CASE x.kind # "answer"
    BY <2>1, <2>2, <2>5 DEF Put, TypeOK, Places, Keyed
  <2>6. QED
    BY <2>4, <2>5
<1>3. QED
  BY <1>1, <1>2

LEMMA ServfailType ==
  ASSUME TypeOK, NEW r \in Requests
  PROVE  /\ Servfail(r) \in Response
         /\ Servfail(r) \in MaybeResponse
         /\ Servfail(r).key = KeyOf[r]
BY DEF Servfail, Response, MaybeResponse, Kinds, TypeOK

LEMMA OutcomesType ==
  ASSUME TypeOK, NEW r \in Requests, NEW x \in Outcomes(r)
  PROVE  /\ x \in MaybeResponse
         /\ x # NoResponse => x.key = KeyOf[r]
BY ServfailType DEF Outcomes, Response, MaybeResponse, Kinds, TypeOK

LEMMA AskType ==
  ASSUME TypeOK, NEW r \in Requests, Ask(r)
  PROVE  /\ cache' \in [Gens -> [Keys -> MaybeResponse]]
         /\ pc' \in [Requests -> Places]
         /\ \A q \in Requests : pc'[q] \in Keyed => KeyOf[q] \in Keys
         /\ home' \in [Requests -> Gens]
         /\ asked' \in [Requests -> Gens]
         /\ resp' \in [Requests -> MaybeResponse]
<1>1. CASE PoolGone
  BY <1>1, ServfailType, SettleType DEF Ask, TypeOK
<1>2. CASE ~PoolGone
  <2>1. /\ pc' = [pc EXCEPT ![r] = "asking"]
        /\ asked' = [asked EXCEPT ![r] = gen]
        /\ UNCHANGED <<cache, home, resp>>
    BY <1>2 DEF Ask
  <2>2. /\ pc' \in [Requests -> Places]
        /\ pc'[r] = "asking" /\ \A q \in Requests \ {r} : pc'[q] = pc[q]
    BY <2>1 DEF TypeOK, Places
  <2>3. \A q \in Requests : pc'[q] \in Keyed => KeyOf[q] \in Keys
    BY <2>2 DEF TypeOK, Keyed
  <2>4. asked' \in [Requests -> Gens]
    BY <2>1 DEF TypeOK
  <2>5. QED
    BY <2>1, <2>2, <2>3, <2>4 DEF TypeOK
<1>3. QED
  BY <1>1, <1>2

LEMMA LookupType ==
  ASSUME TypeOK, NEW r \in Requests, Lookup(r)
  PROVE  /\ cache' \in [Gens -> [Keys -> MaybeResponse]]
         /\ pc' \in [Requests -> Places]
         /\ \A q \in Requests : pc'[q] \in Keyed => KeyOf[q] \in Keys
         /\ home' \in [Requests -> Gens]
         /\ asked' \in [Requests -> Gens]
         /\ resp' \in [Requests -> MaybeResponse]
<1>1. CASE KeyOf[r] = NoKey /\ Ask(r)
  BY <1>1, AskType
<1>2. CASE /\ KeyOf[r] \in Keys
           /\ Return(r, cache[gen][KeyOf[r]])
           /\ UNCHANGED <<cache, home, asked>>
  BY <1>2 DEF Return, TypeOK, Places, Final, Keyed
<1>3. CASE /\ KeyOf[r] \in Keys
           /\ pc' = [pc EXCEPT ![r] = "acquire"]
           /\ home' = [home EXCEPT ![r] = gen]
           /\ UNCHANGED <<cache, asked, resp>>
  BY <1>3 DEF TypeOK, Places, Keyed
<1>4. QED
  BY <1>1, <1>2, <1>3 DEF Lookup

\* Every step keeps the type invariant.
LEMMA TypeStep == TypeOK /\ [Next]_vars => TypeOK'
<1> SUFFICES ASSUME TypeOK, [Next]_vars PROVE TypeOK'
  OBVIOUS
<1>1. ASSUME NEW r \in Requests, Arrive(r) PROVE TypeOK'
  <2>1. born' \in [Requests -> Gens]
    BY <1>1 DEF Arrive, TypeOK
  <2>2. CASE PoolGone
    BY <1>1, <2>1, <2>2 DEF Arrive, TypeOK, Places, Final, Keyed
  <2>3. CASE ~PoolGone
    BY <1>1, <2>1, <2>3, LookupType DEF Arrive, TypeOK
  <2>4. QED
    BY <2>2, <2>3
<1>2. ASSUME NEW r \in Requests, Acquire(r) PROVE TypeOK'
  <2> DEFINE g == home[r]
             k == KeyOf[r]
  <2>0. /\ pending \in [Gens -> [Keys -> Requests \cup {NoReq}]]
        /\ g \in Gens /\ k \in Keys
    BY <1>2 DEF Acquire, TypeOK, Keyed
  <2>1. CASE /\ pending[g][k] = NoReq
             /\ pending' = [pending EXCEPT ![g][k] = r]
             /\ IF CacheGone
                THEN /\ pc' = [pc EXCEPT ![r] = "raised"]
                     /\ UNCHANGED <<cache, home, asked, resp>>
                ELSE Ask(r)
             /\ UNCHANGED joined
    <3>1. pending' \in [Gens -> [Keys -> Requests \cup {NoReq}]]
      BY <2>0, <2>1, EntryUpdate
    <3>2. CASE CacheGone
      BY <1>2, <2>1, <3>1, <3>2 DEF Acquire, TypeOK, Places, Final, Keyed
    <3>3. CASE ~CacheGone
      BY <1>2, <2>1, <3>1, <3>3, AskType DEF Acquire, TypeOK
    <3>4. QED
      BY <3>2, <3>3
  <2>2. CASE /\ pending[g][k] # NoReq
             /\ pc' = [pc EXCEPT ![r] = "waiting"]
             /\ joined' = [joined EXCEPT ![r] = pending[g][k]]
             /\ UNCHANGED <<pending, cache, home, asked, resp>>
    BY <1>2, <2>2 DEF Acquire, TypeOK, Places, Keyed
  <2>3. QED
    BY <1>2, <2>1, <2>2 DEF Acquire
<1>3. ASSUME NEW r \in Requests, Reply(r) PROVE TypeOK'
  BY <1>3, OutcomesType, SettleType DEF Reply, TypeOK
<1>4. ASSUME NEW r \in Requests, Complete(r) PROVE TypeOK'
  <2> DEFINE g == home[r]
             k == KeyOf[r]
  <2>1. /\ pending \in [Gens -> [Keys -> Requests \cup {NoReq}]]
        /\ g \in Gens /\ k \in Keys
    BY <1>4 DEF Complete, TypeOK, Keyed
  <2>2. pending' \in [Gens -> [Keys -> Requests \cup {NoReq}]]
    BY <1>4, <2>1, EntryUpdate DEF Complete
  <2>3. /\ fired' \subseteq Requests
        /\ wire' \in [Requests -> MaybeResponse]
    <3>1. /\ resp[r] \in MaybeResponse /\ NoResponse \in MaybeResponse
          /\ fired \subseteq Requests /\ wire \in [Requests -> MaybeResponse]
      BY DEF TypeOK, MaybeResponse
    <3>2. CASE pending[g][k] = NoReq
      BY <1>4, <3>1, <3>2 DEF Complete
    <3>3. CASE pending[g][k] # NoReq
      <4>1. pending[g][k] \in Requests
        BY <2>1, <3>3
      <4>2. QED
        BY <1>4, <3>1, <3>3, <4>1 DEF Complete
    <3>4. QED
      BY <3>2, <3>3
  <2>4. QED
    BY <1>4, <2>2, <2>3 DEF Complete, TypeOK, Places, Final, Keyed
<1>5. ASSUME NEW r \in Requests, Wake(r) PROVE TypeOK'
  <2>1. CASE /\ wire[joined[r]] # NoResponse
             /\ Return(r, wire[joined[r]])
             /\ UNCHANGED <<cache, home, asked>>
    BY <1>5, <2>1 DEF Wake, Return, TypeOK, Places, Final, Keyed
  <2>2. CASE /\ pc' = [pc EXCEPT ![r] = "raised"]
             /\ UNCHANGED <<cache, home, asked, resp>>
    BY <1>5, <2>2 DEF Wake, TypeOK, Places, Final, Keyed
  <2>3. CASE Lookup(r)
    BY <1>5, <2>3, LookupType DEF Wake, TypeOK
  <2>4. QED
    BY <1>5, <2>1, <2>2, <2>3 DEF Wake
<1>6. ASSUME NEW r \in Requests, Cancel(r) PROVE TypeOK'
  BY <1>6 DEF Cancel, TypeOK, Places, Final, Keyed
<1>7. ASSUME NEW k \in Keys, Expire(k) PROVE TypeOK'
  <2>1. cache' \in [Gens -> [Keys -> MaybeResponse]]
    <3>1. /\ cache \in [Gens -> [Keys -> MaybeResponse]] /\ gen \in Gens
          /\ NoResponse \in MaybeResponse
      BY DEF TypeOK, MaybeResponse
    <3>2. QED
      BY <1>7, <3>1, EntryUpdate DEF Expire
  <2>2. QED
    BY <1>7, <2>1 DEF Expire, TypeOK, reqVars
<1>8. CASE Swap
  BY <1>8 DEF Swap, TypeOK, reqVars, Gens
<1>9. ASSUME NEW S, FailAsking(S)
      PROVE  /\ pc' \in [Requests -> Places]
             /\ \A q \in Requests : pc'[q] \in Keyed => KeyOf[q] \in Keys
             /\ home' \in [Requests -> Gens]
             /\ resp' \in [Requests -> MaybeResponse]
  <2>1. /\ pc' \in [Requests -> Places]
        /\ \A q \in Requests : pc'[q] \in Keyed => KeyOf[q] \in Keys
    BY <1>9 DEF FailAsking, TypeOK, Places, Final, Keyed
  <2>2. home' \in [Requests -> Gens]
    BY <1>9 DEF FailAsking, TypeOK
  <2>3. resp' \in [Requests -> MaybeResponse]
    BY <1>9, ServfailType DEF FailAsking, TypeOK
  <2>4. QED
    BY <2>1, <2>2, <2>3
<1>10. CASE StopOldPool
  BY <1>10, <1>9 DEF StopOldPool, TypeOK
<1>11. CASE Stop
  <2>1. CASE StopPool
    BY <2>1, <1>9 DEF StopPool, TypeOK
  <2>2. CASE StopListeners \/ DropCache \/ ExitTaskGroup
    BY <2>2 DEF StopListeners, DropCache, ExitTaskGroup, TypeOK, reqVars
  <2>3. QED
    BY <1>11, <2>1, <2>2 DEF Stop
<1>12. CASE UNCHANGED vars
  BY <1>12 DEF vars, TypeOK
<1>13. QED
  BY <1>1, <1>2, <1>3, <1>4, <1>5, <1>6, <1>7, <1>8, <1>10, <1>11, <1>12
     DEF Next, Query

LEMMA TypeInit == Init => TypeOK
<1> SUFFICES ASSUME Init PROVE TypeOK
  OBVIOUS
<1>1. 0 \in Gens /\ NoResponse \in MaybeResponse
  BY DEF Gens, MaybeResponse
<1>2. QED
  BY <1>1 DEF Init, TypeOK, Places, Keyed

\* Each variable of the query path keeps its type in every execution of the
\* manager: FrontCache's maps stay total, and every response has a known shape.
THEOREM TypeCorrect == Spec => []TypeOK
<1>1. QED
  BY TypeInit, TypeStep, PTL DEF Spec
-----------------------------------------------------------------------------
(***************************************************************************)
(* Where a step leaves the coroutine of the query that takes it            *)
(***************************************************************************)
LEMMA SettleControl ==
  ASSUME TypeOK, NEW r \in Requests, NEW x, Settle(r, x)
  PROVE  /\ KeyOf[r] = NoKey => pc' = [pc EXCEPT ![r] = "done"] /\ home' = home
         /\ KeyOf[r] # NoKey => /\ pc' = [pc EXCEPT ![r] = "complete"]
                                /\ home' = [home EXCEPT ![r] = gen]
<1>1. CASE KeyOf[r] = NoKey
  BY <1>1 DEF Settle, Return
<1>2. CASE KeyOf[r] # NoKey
  BY <1>2 DEF Settle
<1>3. QED
  BY <1>1, <1>2

\* One query moves to place p, its call runs on cache object h, and nothing
\* else of the control state changes.
Moves(r, p, h) ==
  /\ pc' = [pc EXCEPT ![r] = p]
  /\ home' = [home EXCEPT ![r] = h]

LEMMA AskControl ==
  ASSUME TypeOK, NEW r \in Requests, Ask(r)
  PROVE  \E p \in {"asking", "complete", "done"}, h \in Gens :
           /\ Moves(r, p, h)
           /\ h = gen \/ h = home[r]
           /\ KeyOf[r] # NoKey => p # "done"
           /\ p = "complete" => h = gen /\ KeyOf[r] # NoKey
<1>1. gen \in Gens /\ home \in [Requests -> Gens]
  BY DEF TypeOK
<1>2. CASE ~PoolGone
  <2>1. pc' = [pc EXCEPT ![r] = "asking"] /\ home' = home
    BY <1>2 DEF Ask
  <2>2. Moves(r, "asking", home[r])
    BY <1>1, <2>1 DEF Moves
  <2>3. QED
    BY <1>1, <2>2
<1>3. CASE PoolGone
  <2>1. Settle(r, Servfail(r))
    BY <1>3 DEF Ask
  <2>2. CASE KeyOf[r] = NoKey
    <3>1. Moves(r, "done", home[r])
      BY <1>1, <2>1, <2>2, SettleControl DEF Moves
    <3>2. QED
      BY <1>1, <2>2, <3>1
  <2>3. CASE KeyOf[r] # NoKey
    <3>1. Moves(r, "complete", gen)
      BY <1>1, <2>1, <2>3, SettleControl DEF Moves
    <3>2. QED
      BY <1>1, <2>3, <3>1
  <2>4. QED
    BY <2>2, <2>3
<1>4. QED
  BY <1>2, <1>3

LEMMA LookupControl ==
  ASSUME TypeOK, NEW r \in Requests, Lookup(r)
  PROVE  \E p \in {"asking", "complete", "done", "acquire"}, h \in Gens :
           /\ Moves(r, p, h)
           /\ h = gen \/ h = home[r]
           /\ KeyOf[r] # NoKey => p \in {"acquire", "done"}
           /\ p = "complete" => KeyOf[r] # NoKey
<1>1. gen \in Gens /\ home \in [Requests -> Gens]
  BY DEF TypeOK
<1>2. CASE KeyOf[r] = NoKey /\ Ask(r)
  BY <1>2, AskControl
<1>3. CASE /\ KeyOf[r] \in Keys
           /\ Return(r, cache[gen][KeyOf[r]])
           /\ UNCHANGED <<cache, home, asked>>
  <2>1. Moves(r, "done", home[r])
    BY <1>1, <1>3 DEF Moves, Return
  <2>2. QED
    BY <1>1, <1>3, <2>1
<1>4. CASE /\ KeyOf[r] \in Keys
           /\ pc' = [pc EXCEPT ![r] = "acquire"]
           /\ home' = [home EXCEPT ![r] = gen]
           /\ UNCHANGED <<cache, asked, resp>>
  <2>1. Moves(r, "acquire", gen)
    BY <1>4 DEF Moves
  <2>2. QED
    BY <1>1, <1>4, <2>1
<1>5. QED
  BY <1>2, <1>3, <1>4 DEF Lookup

\* A move that registers and sets nothing keeps the control invariant: only a
\* leader stays a leader, only a waiter stays a waiter, and a query whose event
\* may be registered does not end in "done".
LEMMA MoveStep ==
  ASSUME TypeOK, ControlInv, NEW r \in Requests, NEW p \in Places, NEW h \in Gens,
         Moves(r, p, h),
         UNCHANGED <<gen, pending, fired, joined>>,
         h = gen \/ h = home[r],
         pc[r] \notin Final,
         pc[r] \in Leading => p \in Leading \cup Final,
         p = "waiting" => pc[r] = "waiting",
         p \in Leading => pc[r] \in Leading \/ KeyOf[r] = NoKey,
         p = "done" => pc[r] \notin Leading \/ KeyOf[r] = NoKey,
         p = "complete" => h = gen
  PROVE  ControlInv'
<1>1. /\ gen \in Gens /\ pc \in [Requests -> Places] /\ home \in [Requests -> Gens]
      /\ pending \in [Gens -> [Keys -> Requests \cup {NoReq}]]
      /\ Gens \subseteq Nat
  BY DEF TypeOK, Gens
<1>2. /\ \A q \in Requests : pc'[q] = IF q = r THEN p ELSE pc[q]
      /\ \A q \in Requests : home'[q] = IF q = r THEN h ELSE home[q]
      /\ gen' = gen /\ pending' = pending /\ fired' = fired /\ joined' = joined
  BY <1>1 DEF Moves
<1>3. \A g \in Gens, k \in Keys : pending[g][k] # NoReq => pending[g][k] \in Requests
  BY <1>1
<1>4. PendingKeys'
  BY <1>2 DEF ControlInv, PendingKeys
<1>5. WaitKeys'
  BY <1>2 DEF ControlInv, WaitKeys
<1>6. RegisteredOnce'
  <2>1. ASSUME NEW g \in Gens, NEW k \in Keys, pending[g][k] # NoReq
        PROVE  /\ pending[g][k] \notin fired
               /\ pc'[pending[g][k]] \in Leading \cup Final
               /\ \A i \in Gens : pending[i][k] = pending[g][k] => i = g
    BY <1>2, <1>3, <2>1 DEF ControlInv, RegisteredOnce
  <2>2. ASSUME NEW q \in fired PROVE pc'[q] \in Leading \cup Final
    <3>1. q \in Requests
      BY DEF TypeOK
    <3>2. QED
      BY <1>2, <3>1 DEF ControlInv, RegisteredOnce
  <2>3. QED
    BY <1>2, <2>1, <2>2 DEF RegisteredOnce
<1>7. NothingAhead'
  BY <1>1, <1>2 DEF ControlInv, NothingAhead
<1>8. LeaderOwnsEntry'
  BY <1>2 DEF ControlInv, LeaderOwnsEntry
<1>9. EntryHasLeader'
  <2> SUFFICES ASSUME NEW k \in Keys, pending[gen][k] # NoReq
               PROVE  /\ pc'[pending[gen][k]] # "done"
                      /\ pc'[pending[gen][k]] = "complete" => home'[pending[gen][k]] = gen
    BY <1>2 DEF EntryHasLeader
  <2>1. /\ pending[gen][k] \in Requests
        /\ pc[pending[gen][k]] \in Leading \cup Final
        /\ KeyOf[pending[gen][k]] = k
        /\ pc[pending[gen][k]] # "done"
        /\ pc[pending[gen][k]] = "complete" => home[pending[gen][k]] = gen
    BY <1>1, <1>3 DEF ControlInv, RegisteredOnce, PendingKeys, EntryHasLeader
  <2>2. QED
    BY <1>2, <2>1
<1>10. WaitingIsRegistered'
  BY <1>2 DEF ControlInv, WaitingIsRegistered
<1>11. QED
  BY <1>4, <1>5, <1>6, <1>7, <1>8, <1>9, <1>10 DEF ControlInv

\* acquire_pending's critical section, when it registers the caller's event.
LEMMA RegisterStep ==
  ASSUME TypeOK, ControlInv, NEW r \in Requests,
         NEW p \in {"asking", "complete", "raised"}, NEW h \in Gens,
         pc[r] = "acquire",
         pending[home[r]][KeyOf[r]] = NoReq,
         pending' = [pending EXCEPT ![home[r]][KeyOf[r]] = r],
         Moves(r, p, h),
         h = gen \/ h = home[r],
         p = "complete" => h = gen,
         UNCHANGED <<gen, fired, joined>>
  PROVE  ControlInv'
<1> DEFINE b == home[r]
           c == KeyOf[r]
<1>1. /\ gen \in Gens /\ pc \in [Requests -> Places] /\ home \in [Requests -> Gens]
      /\ pending \in [Gens -> [Keys -> Requests \cup {NoReq}]]
      /\ Gens \subseteq Nat /\ 0 \in Gens
      /\ b \in Gens /\ c \in Keys /\ b <= gen
  BY DEF TypeOK, Gens, Keyed, ControlInv, NothingAhead
<1>2. /\ \A q \in Requests : pc'[q] = IF q = r THEN p ELSE pc[q]
      /\ \A q \in Requests : home'[q] = IF q = r THEN h ELSE home[q]
      /\ gen' = gen /\ fired' = fired /\ joined' = joined
  BY <1>1 DEF Moves
<1>3. \A g \in Gens, k \in Keys :
        pending'[g][k] = IF g = b /\ k = c THEN r ELSE pending[g][k]
  BY <1>1, EntryUpdate
<1>4. r \notin fired /\ \A g \in Gens, k \in Keys : pending[g][k] # r
  BY DEF ControlInv, RegisteredOnce, Leading, Final
<1>5. \A g \in Gens, k \in Keys : pending[g][k] # NoReq => pending[g][k] \in Requests
  BY <1>1
<1>6. PendingKeys'
  BY <1>3 DEF ControlInv, PendingKeys
<1>7. WaitKeys'
  BY <1>2 DEF ControlInv, WaitKeys
<1>8. RegisteredOnce'
  <2>1. ASSUME NEW g \in Gens, NEW k \in Keys, pending'[g][k] # NoReq
        PROVE  /\ pending'[g][k] \notin fired
               /\ pc'[pending'[g][k]] \in Leading \cup Final
               /\ \A i \in Gens : pending'[i][k] = pending'[g][k] => i = g
    <3>1. CASE g = b /\ k = c
      BY <1>2, <1>3, <1>4, <3>1 DEF Leading, Final
    <3>2. CASE ~(g = b /\ k = c)
      BY <1>2, <1>3, <1>4, <1>5, <2>1, <3>2 DEF ControlInv, RegisteredOnce
    <3>3. QED
      BY <3>1, <3>2
  <2>2. ASSUME NEW q \in fired PROVE pc'[q] \in Leading \cup Final
    <3>1. q \in Requests /\ q # r
      BY <1>4 DEF TypeOK
    <3>2. QED
      BY <1>2, <3>1 DEF ControlInv, RegisteredOnce
  <2>3. QED
    BY <1>2, <2>1, <2>2 DEF RegisteredOnce
<1>9. NothingAhead'
  BY <1>1, <1>2, <1>3 DEF ControlInv, NothingAhead
<1>10. LeaderOwnsEntry'
  <2> SUFFICES ASSUME gen = 0, NEW q \in Requests, pc'[q] \in Leading, KeyOf[q] # NoKey
               PROVE  pending'[0][KeyOf[q]] = q
    BY <1>2 DEF LeaderOwnsEntry
  <2>0. KeyOf[q] \in Keys
    OBVIOUS
  <2>1. b = 0 /\ KeyOf[q] \in Keys
    BY <1>1, <2>0 DEF Gens
  <2>2. CASE q = r
    BY <1>1, <1>3, <2>1, <2>2
  <2>3. CASE q # r
    <3>1. pending[0][KeyOf[q]] = q
      BY <1>2, <2>3 DEF ControlInv, LeaderOwnsEntry
    <3>2. KeyOf[q] # c
      BY <2>1, <3>1
    <3>3. QED
      BY <1>1, <1>3, <2>1, <3>1, <3>2
  <2>4. QED
    BY <2>2, <2>3
<1>11. EntryHasLeader'
  <2> SUFFICES ASSUME NEW k \in Keys, pending'[gen][k] # NoReq
               PROVE  /\ pc'[pending'[gen][k]] # "done"
                      /\ pc'[pending'[gen][k]] = "complete" => home'[pending'[gen][k]] = gen
    BY <1>2 DEF EntryHasLeader
  <2>1. CASE gen = b /\ k = c
    <3>1. pending'[gen][k] = r
      BY <1>1, <1>3, <2>1
    <3>2. QED
      BY <1>2, <2>1, <3>1
  <2>2. CASE ~(gen = b /\ k = c)
    <3>1. pending'[gen][k] = pending[gen][k] /\ pending[gen][k] \in Requests
          /\ pending[gen][k] # r
      BY <1>1, <1>3, <1>4, <1>5, <2>2
    <3>2. QED
      BY <1>1, <1>2, <3>1 DEF ControlInv, EntryHasLeader
  <2>3. QED
    BY <2>1, <2>2
<1>12. WaitingIsRegistered'
  <2> SUFFICES ASSUME NEW q \in Requests, pc'[q] = "waiting", joined[q] \notin fired
               PROVE  \E g \in Gens : pending'[g][KeyOf[q]] = joined[q]
    BY <1>2 DEF WaitingIsRegistered
  <2>1. q # r /\ pc[q] = "waiting"
    BY <1>2
  <2>2. KeyOf[q] \in Keys /\ joined[q] \in Requests
    BY <2>1 DEF TypeOK, Keyed, ControlInv, WaitKeys
  <2>3. PICK g \in Gens : pending[g][KeyOf[q]] = joined[q]
    BY <2>1 DEF ControlInv, WaitingIsRegistered
  <2>4. pending'[g][KeyOf[q]] = joined[q]
    BY <1>3, <2>2, <2>3
  <2>5. QED
    BY <2>4
<1>13. QED
  BY <1>6, <1>7, <1>8, <1>9, <1>10, <1>11, <1>12 DEF ControlInv

\* acquire_pending's critical section, when it finds an event to wait for.
LEMMA JoinStep ==
  ASSUME TypeOK, ControlInv, NEW r \in Requests,
         pc[r] = "acquire",
         pending[home[r]][KeyOf[r]] # NoReq,
         pc' = [pc EXCEPT ![r] = "waiting"],
         joined' = [joined EXCEPT ![r] = pending[home[r]][KeyOf[r]]],
         UNCHANGED <<gen, pending, fired, home>>
  PROVE  ControlInv'
<1> DEFINE e == pending[home[r]][KeyOf[r]]
<1>1. /\ home[r] \in Gens /\ KeyOf[r] \in Keys /\ e \in Requests
      /\ KeyOf[e] = KeyOf[r]
  BY DEF TypeOK, Keyed, ControlInv, PendingKeys
<1>2. /\ \A q \in Requests : pc'[q] = IF q = r THEN "waiting" ELSE pc[q]
      /\ \A q \in Requests : joined'[q] = IF q = r THEN e ELSE joined[q]
      /\ gen' = gen /\ fired' = fired /\ pending' = pending /\ home' = home
  BY DEF TypeOK
<1>3. \A g \in Gens, k \in Keys :
        pending[g][k] # NoReq => pending[g][k] \in Requests /\ pending[g][k] # r
  <2>1. \A g \in Gens, k \in Keys : pending[g][k] \in Requests \cup {NoReq}
    BY DEF TypeOK
  <2>2. \A g \in Gens, k \in Keys : pending[g][k] # NoReq => pending[g][k] # r
    BY DEF ControlInv, RegisteredOnce, Leading, Final
  <2>3. QED
    BY <2>1, <2>2
<1>4. PendingKeys'
  BY <1>2 DEF ControlInv, PendingKeys
<1>5. WaitKeys'
  BY <1>1, <1>2 DEF ControlInv, WaitKeys
<1>6. RegisteredOnce'
  <2>1. \A q \in fired : q \in Requests /\ q # r
    BY DEF TypeOK, ControlInv, RegisteredOnce, Leading, Final
  <2>2. QED
    BY <1>2, <1>3, <2>1 DEF ControlInv, RegisteredOnce
<1>7. NothingAhead'
  BY <1>2 DEF ControlInv, NothingAhead
<1>8. LeaderOwnsEntry'
  BY <1>2 DEF ControlInv, LeaderOwnsEntry, Leading
<1>9. EntryHasLeader'
  <2> SUFFICES ASSUME NEW k \in Keys, pending[gen][k] # NoReq
               PROVE  /\ pc'[pending[gen][k]] # "done"
                      /\ pc'[pending[gen][k]] = "complete" => home[pending[gen][k]] = gen
    BY <1>2 DEF EntryHasLeader
  <2>1. pending[gen][k] \in Requests /\ pending[gen][k] # r
    BY <1>3 DEF TypeOK
  <2>2. QED
    BY <1>2, <2>1 DEF ControlInv, EntryHasLeader
<1>10. WaitingIsRegistered'
  BY <1>1, <1>2 DEF ControlInv, WaitingIsRegistered
<1>11. QED
  BY <1>4, <1>5, <1>6, <1>7, <1>8, <1>9, <1>10 DEF ControlInv

\* complete_pending pops the entry it finds and sets that entry's event.
LEMMA CompleteStep ==
  ASSUME TypeOK, ControlInv, NEW r \in Requests, Complete(r)
  PROVE  ControlInv'
<1> DEFINE b == home[r]
           c == KeyOf[r]
           e == pending[b][c]
<1>1. /\ gen \in Gens /\ pc \in [Requests -> Places] /\ home \in [Requests -> Gens]
      /\ pending \in [Gens -> [Keys -> Requests \cup {NoReq}]]
      /\ fired \subseteq Requests
      /\ b \in Gens /\ c \in Keys
  BY DEF TypeOK, Keyed, Complete
<1>2. /\ pc[r] = "complete"
      /\ \A q \in Requests : pc'[q] = IF q = r THEN "done" ELSE pc[q]
      /\ gen' = gen /\ home' = home /\ joined' = joined
      /\ fired' = IF e = NoReq THEN fired ELSE fired \cup {e}
  BY <1>1 DEF Complete
<1>3. \A g \in Gens, k \in Keys :
        pending'[g][k] = IF g = b /\ k = c THEN NoReq ELSE pending[g][k]
  BY <1>1, EntryUpdate DEF Complete
<1>4. \A g \in Gens, k \in Keys : pending[g][k] # NoReq => pending[g][k] \in Requests
  BY <1>1
<1>5. PendingKeys'
  BY <1>3 DEF ControlInv, PendingKeys
<1>6. WaitKeys'
  BY <1>2 DEF ControlInv, WaitKeys
<1>7. ASSUME NEW g \in Gens, NEW k \in Keys, e # NoReq, pending[g][k] = e
      PROVE  g = b /\ k = c
  <2>1. KeyOf[e] = c /\ KeyOf[e] = k
    BY <1>1, <1>7 DEF ControlInv, PendingKeys
  <2>2. QED
    BY <1>1, <1>7, <2>1 DEF ControlInv, RegisteredOnce
<1>8. RegisteredOnce'
  <2>1. ASSUME NEW g \in Gens, NEW k \in Keys, pending'[g][k] # NoReq
        PROVE  /\ pending'[g][k] \notin fired'
               /\ pc'[pending'[g][k]] \in Leading \cup Final
               /\ \A i \in Gens : pending'[i][k] = pending'[g][k] => i = g
    <3>1. pending'[g][k] = pending[g][k] /\ ~(g = b /\ k = c)
      BY <1>3, <2>1
    <3>2. pending[g][k] \in Requests /\ pending[g][k] # e
      BY <1>4, <1>7, <2>1, <3>1
    <3>3. /\ pending[g][k] \notin fired
          /\ pc[pending[g][k]] \in Leading \cup Final
          /\ \A i \in Gens : pending[i][k] = pending[g][k] => i = g
      BY <2>1, <3>1 DEF ControlInv, RegisteredOnce
    <3>4. \A i \in Gens : pending'[i][k] = pending'[g][k] => i = g
      BY <1>3, <2>1, <3>1, <3>3
    <3>5. pc'[pending'[g][k]] \in Leading \cup Final
      BY <1>2, <3>1, <3>2, <3>3 DEF Final
    <3>6. QED
      BY <1>2, <3>1, <3>2, <3>3, <3>4, <3>5
  <2>2. ASSUME NEW q \in fired' PROVE pc'[q] \in Leading \cup Final
    <3>1. q \in Requests /\ pc[q] \in Leading \cup Final
      BY <1>1, <1>2, <1>4 DEF ControlInv, RegisteredOnce
    <3>2. QED
      BY <1>2, <3>1 DEF Final
  <2>3. QED
    BY <2>1, <2>2 DEF RegisteredOnce
<1>9. NothingAhead'
  BY <1>1, <1>2, <1>3 DEF ControlInv, NothingAhead
<1>10. LeaderOwnsEntry'
  <2> SUFFICES ASSUME gen = 0, NEW q \in Requests, pc'[q] \in Leading, KeyOf[q] # NoKey
               PROVE  pending'[0][KeyOf[q]] = q
    BY <1>2 DEF LeaderOwnsEntry
  <2>1. q # r /\ pc[q] \in Leading
    BY <1>2 DEF Leading
  <2>2. KeyOf[q] \in Keys /\ 0 \in Gens
    BY <1>1
  <2>3. pending[0][KeyOf[q]] = q
    BY <2>1 DEF ControlInv, LeaderOwnsEntry
  <2>4. pending[0][c] = r
    <3>1. c # NoKey
      BY <1>1
    <3>2. QED
      BY <1>2, <3>1 DEF ControlInv, LeaderOwnsEntry, Leading
  <2>5. QED
    BY <1>3, <2>1, <2>2, <2>3, <2>4
<1>11. EntryHasLeader'
  <2> SUFFICES ASSUME NEW k \in Keys, pending'[gen][k] # NoReq
               PROVE  /\ pc'[pending'[gen][k]] # "done"
                      /\ pc'[pending'[gen][k]] = "complete" => home[pending'[gen][k]] = gen
    BY <1>2 DEF EntryHasLeader
  <2>1. /\ pending'[gen][k] = pending[gen][k] /\ ~(gen = b /\ k = c)
        /\ pending[gen][k] \in Requests
    BY <1>1, <1>3, <1>4
  <2>2. /\ pc[pending[gen][k]] # "done"
        /\ pc[pending[gen][k]] = "complete" => home[pending[gen][k]] = gen
        /\ KeyOf[pending[gen][k]] = k
    BY <1>1, <2>1 DEF ControlInv, EntryHasLeader, PendingKeys
  <2>3. pending[gen][k] # r
    BY <1>2, <2>1, <2>2
  <2>4. QED
    BY <1>2, <2>1, <2>2, <2>3
<1>12. WaitingIsRegistered'
  <2> SUFFICES ASSUME NEW q \in Requests, pc'[q] = "waiting", joined[q] \notin fired'
               PROVE  \E g \in Gens : pending'[g][KeyOf[q]] = joined[q]
    BY <1>2 DEF WaitingIsRegistered
  <2>1. pc[q] = "waiting" /\ joined[q] \notin fired /\ (e # NoReq => joined[q] # e)
    BY <1>2
  <2>2. KeyOf[q] \in Keys /\ joined[q] \in Requests
    BY <2>1 DEF TypeOK, Keyed, ControlInv, WaitKeys
  <2>3. PICK g \in Gens : pending[g][KeyOf[q]] = joined[q]
    BY <2>1 DEF ControlInv, WaitingIsRegistered
  <2>4. ~(g = b /\ KeyOf[q] = c)
    BY <2>1, <2>2, <2>3
  <2>5. pending'[g][KeyOf[q]] = joined[q]
    BY <1>3, <2>2, <2>3, <2>4
  <2>6. QED
    BY <2>5
<1>13. QED
  BY <1>5, <1>6, <1>8, <1>9, <1>10, <1>11, <1>12 DEF ControlInv

\* A pool's stop() fails some of the queries it holds.
LEMMA FailStep ==
  ASSUME TypeOK, ControlInv, NEW S, \A r \in S : r \in Requests /\ pc[r] = "asking",
         FailAsking(S), UNCHANGED <<gen, pending, fired, joined>>
  PROVE  ControlInv'
<1>1. /\ gen \in Gens /\ Gens \subseteq Nat
      /\ pending \in [Gens -> [Keys -> Requests \cup {NoReq}]]
      /\ fired \subseteq Requests
  BY DEF TypeOK, Gens
<1>2. /\ \A q \in Requests : pc'[q] = IF q \notin S THEN pc[q]
                                       ELSE IF KeyOf[q] = NoKey THEN "done" ELSE "complete"
      /\ \A q \in Requests : home'[q] = IF q \in S /\ KeyOf[q] # NoKey THEN gen ELSE home[q]
      /\ gen' = gen /\ pending' = pending /\ fired' = fired /\ joined' = joined
  BY DEF FailAsking
<1>3. \A g \in Gens, k \in Keys : pending[g][k] # NoReq => pending[g][k] \in Requests
  BY <1>1
<1>4. \A q \in Requests : pc[q] \in Leading \cup Final => pc'[q] \in Leading \cup Final
  BY <1>2 DEF Leading, Final
<1>5. PendingKeys'
  BY <1>2 DEF ControlInv, PendingKeys
<1>6. WaitKeys'
  BY <1>2 DEF ControlInv, WaitKeys
<1>7. RegisteredOnce'
  <2>1. ASSUME NEW g \in Gens, NEW k \in Keys, pending[g][k] # NoReq
        PROVE  /\ pending[g][k] \notin fired
               /\ pc'[pending[g][k]] \in Leading \cup Final
               /\ \A i \in Gens : pending[i][k] = pending[g][k] => i = g
    BY <1>3, <1>4, <2>1 DEF ControlInv, RegisteredOnce
  <2>2. ASSUME NEW q \in fired PROVE pc'[q] \in Leading \cup Final
    BY <1>1, <1>4 DEF ControlInv, RegisteredOnce
  <2>3. QED
    BY <1>2, <2>1, <2>2 DEF RegisteredOnce
<1>8. NothingAhead'
  BY <1>1, <1>2 DEF ControlInv, NothingAhead
<1>9. LeaderOwnsEntry'
  BY <1>2 DEF ControlInv, LeaderOwnsEntry, Leading
<1>10. EntryHasLeader'
  <2> SUFFICES ASSUME NEW k \in Keys, pending[gen][k] # NoReq
               PROVE  /\ pc'[pending[gen][k]] # "done"
                      /\ pc'[pending[gen][k]] = "complete" => home'[pending[gen][k]] = gen
    BY <1>2 DEF EntryHasLeader
  <2>1. /\ pending[gen][k] \in Requests
        /\ KeyOf[pending[gen][k]] = k
        /\ pc[pending[gen][k]] # "done"
        /\ pc[pending[gen][k]] = "complete" => home[pending[gen][k]] = gen
    BY <1>1, <1>3 DEF ControlInv, PendingKeys, EntryHasLeader
  <2>2. QED
    BY <1>2, <2>1
<1>11. WaitingIsRegistered'
  BY <1>2 DEF ControlInv, WaitingIsRegistered
<1>12. QED
  BY <1>5, <1>6, <1>7, <1>8, <1>9, <1>10, <1>11 DEF ControlInv

\* reload() installs a cache object in which nothing is registered yet.
LEMMA SwapStep ==
  ASSUME TypeOK, ControlInv, Swap
  PROVE  ControlInv'
<1>1. /\ gen \in Nat /\ gen' = gen + 1 /\ gen' \in Gens /\ Gens \subseteq Nat
      /\ pending' = pending /\ fired' = fired /\ pc' = pc /\ home' = home
      /\ joined' = joined
      /\ home \in [Requests -> Gens]
  BY DEF TypeOK, Swap, Gens, reqVars
<1>2. \A k \in Keys : pending[gen'][k] = NoReq
  BY <1>1 DEF ControlInv, NothingAhead
<1>3. EntryHasLeader'
  BY <1>1, <1>2 DEF EntryHasLeader
<1>4. NothingAhead' /\ LeaderOwnsEntry'
  <2>1. gen' # 0
    BY <1>1
  <2>2. ASSUME NEW r \in Requests PROVE home'[r] <= gen'
    <3>1. home[r] \in Nat /\ home'[r] = home[r]
      BY <1>1
    <3>2. home[r] <= gen
      BY DEF ControlInv, NothingAhead
    <3>3. QED
      BY <1>1, <3>1, <3>2
  <2>3. ASSUME NEW g \in Gens, NEW k \in Keys, g > gen' PROVE pending'[g][k] = NoReq
    <3>1. g \in Nat /\ g > gen
      BY <1>1, <2>3
    <3>2. QED
      BY <1>1, <3>1 DEF ControlInv, NothingAhead
  <2>4. QED
    BY <2>1, <2>2, <2>3 DEF NothingAhead, LeaderOwnsEntry
<1>5. PendingKeys' /\ WaitKeys' /\ RegisteredOnce' /\ WaitingIsRegistered'
  BY <1>1 DEF ControlInv, PendingKeys, WaitKeys, RegisteredOnce, WaitingIsRegistered
<1>6. QED
  BY <1>3, <1>4, <1>5 DEF ControlInv

LEMMA IdleStep ==
  ASSUME ControlInv, UNCHANGED <<gen, pending, fired, pc, home, joined>>
  PROVE  ControlInv'
BY DEF ControlInv, PendingKeys, WaitKeys, RegisteredOnce, NothingAhead,
       LeaderOwnsEntry, EntryHasLeader, WaitingIsRegistered

\* Every step keeps the control invariant.
LEMMA ControlStep == TypeOK /\ ControlInv /\ [Next]_vars => ControlInv'
<1> SUFFICES ASSUME TypeOK, ControlInv, [Next]_vars PROVE ControlInv'
  OBVIOUS
<1>0. /\ gen \in Gens /\ home \in [Requests -> Gens]
      /\ pc \in [Requests -> Places]
  BY DEF TypeOK
<1>1. ASSUME NEW r \in Requests, Arrive(r) PROVE ControlInv'
  <2>1. /\ pc[r] = "new"
        /\ UNCHANGED <<gen, pending, fired, joined>>
    BY <1>1 DEF Arrive
  <2>2. CASE PoolGone
    <3>1. Moves(r, "raised", home[r])
      BY <1>0, <1>1, <2>2 DEF Arrive, Moves
    <3>2. QED
      BY <1>0, <2>1, <3>1, MoveStep DEF Leading, Final, Places
  <2>3. CASE ~PoolGone
    <3>1. PICK p \in {"asking", "complete", "done", "acquire"}, h \in Gens :
            /\ Moves(r, p, h)
            /\ h = gen \/ h = home[r]
            /\ KeyOf[r] # NoKey => p \in {"acquire", "done"}
            /\ p = "complete" => KeyOf[r] # NoKey
      BY <1>1, <2>3, LookupControl DEF Arrive
    <3>2. QED
      BY <2>1, <3>1, MoveStep DEF Leading, Final, Places
  <2>4. QED
    BY <2>2, <2>3
<1>2. ASSUME NEW r \in Requests, Acquire(r) PROVE ControlInv'
  <2> DEFINE e == pending[home[r]][KeyOf[r]]
  <2>1. /\ pc[r] = "acquire" /\ KeyOf[r] # NoKey
        /\ UNCHANGED <<gen, fired>>
    BY <1>2 DEF Acquire, TypeOK, Keyed
  <2>2. CASE /\ e = NoReq
             /\ pending' = [pending EXCEPT ![home[r]][KeyOf[r]] = r]
             /\ IF CacheGone
                THEN /\ pc' = [pc EXCEPT ![r] = "raised"]
                     /\ UNCHANGED <<cache, home, asked, resp>>
                ELSE Ask(r)
             /\ UNCHANGED joined
    <3>1. CASE CacheGone
      <4>1. Moves(r, "raised", home[r])
        BY <1>0, <2>2, <3>1 DEF Moves
      <4>2. QED
        BY <1>0, <2>1, <2>2, <4>1, RegisterStep
    <3>2. CASE ~CacheGone
      <4>1. PICK p \in {"asking", "complete", "done"}, h \in Gens :
              /\ Moves(r, p, h)
              /\ h = gen \/ h = home[r]
              /\ KeyOf[r] # NoKey => p # "done"
              /\ p = "complete" => h = gen /\ KeyOf[r] # NoKey
        BY <2>2, <3>2, AskControl
      <4>2. QED
        BY <2>1, <2>2, <4>1, RegisterStep
    <3>3. QED
      BY <3>1, <3>2
  <2>3. CASE /\ e # NoReq
             /\ pc' = [pc EXCEPT ![r] = "waiting"]
             /\ joined' = [joined EXCEPT ![r] = e]
             /\ UNCHANGED <<pending, cache, home, asked, resp>>
    BY <2>1, <2>3, JoinStep
  <2>4. QED
    BY <1>2, <2>2, <2>3 DEF Acquire
<1>3. ASSUME NEW r \in Requests, Reply(r) PROVE ControlInv'
  <2>1. /\ pc[r] = "asking"
        /\ UNCHANGED <<gen, pending, fired, joined>>
    BY <1>3 DEF Reply
  <2>2. PICK x \in Outcomes(r) : Settle(r, x)
    BY <1>3 DEF Reply
  <2>3. CASE KeyOf[r] = NoKey
    <3>1. Moves(r, "done", home[r])
      BY <1>0, <2>2, <2>3, SettleControl DEF Moves
    <3>2. QED
      BY <1>0, <2>1, <2>3, <3>1, MoveStep DEF Leading, Final, Places
  <2>4. CASE KeyOf[r] # NoKey
    <3>1. Moves(r, "complete", gen)
      BY <2>2, <2>4, SettleControl DEF Moves
    <3>2. QED
      BY <1>0, <2>1, <2>4, <3>1, MoveStep DEF Leading, Final, Places
  <2>5. QED
    BY <2>3, <2>4
<1>4. ASSUME NEW r \in Requests, Complete(r) PROVE ControlInv'
  BY <1>4, CompleteStep
<1>5. ASSUME NEW r \in Requests, Wake(r) PROVE ControlInv'
  <2>1. /\ pc[r] = "waiting" /\ KeyOf[r] # NoKey
        /\ UNCHANGED <<gen, pending, fired, joined>>
    BY <1>5 DEF Wake, TypeOK, Keyed
  <2>2. CASE /\ wire[joined[r]] # NoResponse
             /\ Return(r, wire[joined[r]])
             /\ UNCHANGED <<cache, home, asked>>
    <3>1. Moves(r, "done", home[r])
      BY <1>0, <2>2 DEF Return, Moves
    <3>2. QED
      BY <1>0, <2>1, <3>1, MoveStep DEF Leading, Final, Places
  <2>3. CASE /\ pc' = [pc EXCEPT ![r] = "raised"]
             /\ UNCHANGED <<cache, home, asked, resp>>
    <3>1. Moves(r, "raised", home[r])
      BY <1>0, <2>3 DEF Moves
    <3>2. QED
      BY <1>0, <2>1, <3>1, MoveStep DEF Leading, Final, Places
  <2>4. CASE Lookup(r)
    <3>1. PICK p \in {"asking", "complete", "done", "acquire"}, h \in Gens :
            /\ Moves(r, p, h)
            /\ h = gen \/ h = home[r]
            /\ KeyOf[r] # NoKey => p \in {"acquire", "done"}
            /\ p = "complete" => KeyOf[r] # NoKey
      BY <2>4, LookupControl
    <3>2. QED
      BY <2>1, <3>1, MoveStep DEF Leading, Final, Places
  <2>5. QED
    BY <1>5, <2>2, <2>3, <2>4 DEF Wake
<1>6. ASSUME NEW r \in Requests, Cancel(r) PROVE ControlInv'
  <2>1. /\ pc[r] \in {"acquire", "asking", "complete"}
        /\ UNCHANGED <<gen, pending, fired, joined>>
        /\ Moves(r, "cancelled", home[r])
    BY <1>0, <1>6 DEF Cancel, Moves
  <2>2. QED
    BY <1>0, <2>1, MoveStep DEF Leading, Final, Places
<1>7. ASSUME NEW k \in Keys, Expire(k) PROVE ControlInv'
  BY <1>7, IdleStep DEF Expire, reqVars
<1>8. CASE Swap
  BY <1>8, SwapStep
<1>9. CASE StopOldPool
  BY <1>9, FailStep DEF StopOldPool, Asking
<1>10. CASE Stop
  <2>1. CASE StopPool
    BY <2>1, FailStep DEF StopPool, Asking
  <2>2. CASE StopListeners \/ DropCache \/ ExitTaskGroup
    BY <2>2, IdleStep DEF StopListeners, DropCache, ExitTaskGroup, reqVars
  <2>3. QED
    BY <1>10, <2>1, <2>2 DEF Stop
<1>11. CASE UNCHANGED vars
  BY <1>11, IdleStep DEF vars
<1>12. QED
  BY <1>1, <1>2, <1>3, <1>4, <1>5, <1>6, <1>7, <1>8, <1>9, <1>10, <1>11
     DEF Next, Query
-----------------------------------------------------------------------------
(***************************************************************************)
(* The data invariant: responses stay with their keys                      *)
(***************************************************************************)
LEMMA SettleData ==
  ASSUME TypeOK, DataInv, NEW r \in Requests, NEW x \in MaybeResponse,
         x # NoResponse => x.key = KeyOf[r],
         Settle(r, x)
  PROVE  CacheKeys' /\ RespKeys'
<1>1. /\ cache \in [Gens -> [Keys -> MaybeResponse]] /\ gen \in Gens
      /\ resp \in [Requests -> MaybeResponse]
  BY DEF TypeOK
<1>2. resp' = [resp EXCEPT ![r] = x]
  <2>1. CASE KeyOf[r] = NoKey
    BY <2>1 DEF Settle, Return
  <2>2. CASE KeyOf[r] # NoKey
    BY <2>2 DEF Settle
  <2>3. QED
    BY <2>1, <2>2
<1>3. RespKeys'
  BY <1>1, <1>2 DEF DataInv, RespKeys
<1>4. CASE cache' = cache
  BY <1>3, <1>4 DEF DataInv, CacheKeys
<1>5. CASE KeyOf[r] # NoKey /\ cache' = [cache EXCEPT ![gen][KeyOf[r]] = x]
  <2>1. KeyOf[r] \in Keys
    BY <1>5
  <2>2. \A g \in Gens, k \in Keys :
          cache'[g][k] = IF g = gen /\ k = KeyOf[r] THEN x ELSE cache[g][k]
    BY <1>1, <1>5, <2>1, EntryUpdate
  <2>3. CacheKeys'
    BY <2>2 DEF DataInv, CacheKeys
  <2>4. QED
    BY <1>3, <2>3
<1>6. cache' = cache \/ (KeyOf[r] # NoKey /\ cache' = [cache EXCEPT ![gen][KeyOf[r]] = x])
  <2>1. CASE KeyOf[r] = NoKey
    BY <2>1 DEF Settle
  <2>2. CASE KeyOf[r] # NoKey
    <3>1. Put(r, x)
      BY <2>2 DEF Settle
    <3>2. CASE x.kind = "answer"
      BY <2>2, <3>1, <3>2 DEF Put
    <3>3. CASE x.kind # "answer"
      BY <3>1, <3>3 DEF Put
    <3>4. QED
      BY <3>2, <3>3
  <2>3. QED
    BY <2>1, <2>2
<1>7. QED
  BY <1>4, <1>5, <1>6

LEMMA AskData ==
  ASSUME TypeOK, DataInv, NEW r \in Requests, Ask(r)
  PROVE  CacheKeys' /\ RespKeys'
<1>1. CASE PoolGone
  BY <1>1, ServfailType, SettleData DEF Ask
<1>2. CASE ~PoolGone
  BY <1>2 DEF Ask, DataInv, CacheKeys, RespKeys
<1>3. QED
  BY <1>1, <1>2

\* Returning a response for the query's own key.
LEMMA ReturnData ==
  ASSUME TypeOK, DataInv, NEW r \in Requests, NEW x,
         x # NoResponse => x.key = KeyOf[r],
         Return(r, x), cache' = cache
  PROVE  CacheKeys' /\ RespKeys'
BY DEF TypeOK, Return, DataInv, CacheKeys, RespKeys

LEMMA LookupData ==
  ASSUME TypeOK, DataInv, NEW r \in Requests, Lookup(r)
  PROVE  CacheKeys' /\ RespKeys'
<1>1. CASE KeyOf[r] = NoKey /\ Ask(r)
  BY <1>1, AskData
<1>2. CASE /\ KeyOf[r] \in Keys
           /\ Return(r, cache[gen][KeyOf[r]])
           /\ UNCHANGED <<cache, home, asked>>
  <2>1. cache[gen][KeyOf[r]] # NoResponse => cache[gen][KeyOf[r]].key = KeyOf[r]
    BY <1>2 DEF TypeOK, DataInv, CacheKeys
  <2>2. QED
    BY <1>2, <2>1, ReturnData
<1>3. CASE UNCHANGED <<cache, asked, resp>>
  BY <1>3 DEF DataInv, CacheKeys, RespKeys
<1>4. QED
  BY <1>1, <1>2, <1>3 DEF Lookup

\* Every step keeps the data invariant; complete_pending needs the control
\* invariant, to know that the event it sets belongs to a query of its own key.
LEMMA DataStep == TypeOK /\ DataInv /\ ControlInv /\ [Next]_vars => DataInv'
<1> SUFFICES ASSUME TypeOK, DataInv, ControlInv, [Next]_vars PROVE DataInv'
  OBVIOUS
<1>0. ASSUME UNCHANGED <<cache, wire, resp>> PROVE DataInv'
  BY <1>0 DEF DataInv, CacheKeys, WireKeys, RespKeys
<1>00. ASSUME CacheKeys', RespKeys', wire' = wire PROVE DataInv'
  BY <1>00 DEF DataInv, WireKeys
<1>1. ASSUME NEW r \in Requests, Arrive(r) PROVE DataInv'
  <2>1. CASE PoolGone
    BY <1>0, <1>1, <2>1 DEF Arrive
  <2>2. CASE ~PoolGone
    BY <1>00, <1>1, <2>2, LookupData DEF Arrive
  <2>3. QED
    BY <2>1, <2>2
<1>2. ASSUME NEW r \in Requests, Acquire(r) PROVE DataInv'
  <2>1. wire' = wire /\ (UNCHANGED <<cache, resp>> \/ Ask(r))
    BY <1>2 DEF Acquire
  <2>2. QED
    BY <1>0, <1>00, <2>1, AskData
<1>3. ASSUME NEW r \in Requests, Reply(r) PROVE DataInv'
  <2>1. PICK x \in Outcomes(r) : Settle(r, x)
    BY <1>3 DEF Reply
  <2>2. x \in MaybeResponse /\ (x # NoResponse => x.key = KeyOf[r])
    BY OutcomesType
  <2>3. wire' = wire
    BY <1>3 DEF Reply
  <2>4. CacheKeys' /\ RespKeys'
    BY <2>1, <2>2, SettleData
  <2>5. QED
    BY <1>00, <2>3, <2>4
<1>4. ASSUME NEW r \in Requests, Complete(r) PROVE DataInv'
  <2> DEFINE e == pending[home[r]][KeyOf[r]]
  <2>1. home[r] \in Gens /\ KeyOf[r] \in Keys /\ UNCHANGED <<cache, resp>>
    BY <1>4 DEF Complete, TypeOK, Keyed
  <2>2. CASE e = NoReq
    BY <1>0, <1>4, <2>1, <2>2 DEF Complete
  <2>3. CASE e # NoReq
    <3>1. KeyOf[e] = KeyOf[r] /\ wire \in [Requests -> MaybeResponse]
      BY <2>1, <2>3 DEF ControlInv, PendingKeys, TypeOK
    <3>2. wire' = [wire EXCEPT ![e] = IF resp[r].kind = "answer" THEN NoResponse ELSE resp[r]]
      BY <1>4, <2>3 DEF Complete
    <3>3. resp[r] # NoResponse => resp[r].key = KeyOf[r]
      BY DEF DataInv, RespKeys
    <3>4. \A q \in Requests : wire'[q] # NoResponse => wire'[q].key = KeyOf[q]
      <4>1. CASE resp[r].kind = "answer"
        BY <3>1, <3>2, <4>1 DEF DataInv, WireKeys
      <4>2. CASE resp[r].kind # "answer"
        BY <3>1, <3>2, <3>3, <4>2 DEF DataInv, WireKeys
      <4>3. QED
        BY <4>1, <4>2
    <3>5. QED
      BY <2>1, <3>4 DEF DataInv, CacheKeys, RespKeys, WireKeys
  <2>4. QED
    BY <2>2, <2>3
<1>5. ASSUME NEW r \in Requests, Wake(r) PROVE DataInv'
  <2>1. CASE /\ Return(r, wire[joined[r]])
             /\ UNCHANGED <<cache, home, asked>>
    <3>1. joined[r] \in Requests /\ KeyOf[joined[r]] = KeyOf[r] /\ wire' = wire
      BY <1>5 DEF Wake, ControlInv, WaitKeys
    <3>2. wire[joined[r]] # NoResponse => wire[joined[r]].key = KeyOf[r]
      BY <3>1 DEF DataInv, WireKeys
    <3>3. QED
      BY <1>00, <2>1, <3>1, <3>2, ReturnData
  <2>2. CASE UNCHANGED <<cache, home, asked, resp>>
    BY <1>0, <1>5, <2>2 DEF Wake
  <2>3. CASE Lookup(r)
    BY <1>00, <1>5, <2>3, LookupData DEF Wake
  <2>4. QED
    BY <1>5, <2>1, <2>2, <2>3 DEF Wake
<1>6. ASSUME NEW r \in Requests, Cancel(r) PROVE DataInv'
  BY <1>0, <1>6 DEF Cancel
<1>7. ASSUME NEW k \in Keys, Expire(k) PROVE DataInv'
  <2>1. /\ cache \in [Gens -> [Keys -> MaybeResponse]] /\ gen \in Gens
        /\ NoResponse \in MaybeResponse
    BY DEF TypeOK, MaybeResponse
  <2>2. \A g \in Gens, j \in Keys :
          cache'[g][j] = IF g = gen /\ j = k THEN NoResponse ELSE cache[g][j]
    BY <1>7, <2>1, EntryUpdate DEF Expire
  <2>3. CacheKeys'
    BY <2>2 DEF DataInv, CacheKeys
  <2>4. UNCHANGED <<wire, resp>>
    BY <1>7 DEF Expire, reqVars
  <2>5. QED
    BY <2>3, <2>4 DEF DataInv, WireKeys, RespKeys
<1>8. ASSUME NEW S, FailAsking(S), UNCHANGED <<cache, wire>> PROVE DataInv'
  BY <1>8, ServfailType DEF FailAsking, DataInv, CacheKeys, WireKeys, RespKeys
<1>9. CASE Swap
  BY <1>0, <1>9 DEF Swap, reqVars
<1>10. CASE StopOldPool
  BY <1>8, <1>10 DEF StopOldPool
<1>11. CASE Stop
  BY <1>0, <1>8, <1>11
     DEF Stop, StopPool, StopListeners, DropCache, ExitTaskGroup, reqVars
<1>12. CASE UNCHANGED vars
  BY <1>0, <1>12 DEF vars
<1>13. QED
  BY <1>1, <1>2, <1>3, <1>4, <1>5, <1>6, <1>7, <1>9, <1>10, <1>11, <1>12
     DEF Next, Query
-----------------------------------------------------------------------------
(***************************************************************************)
(* The theorems                                                            *)
(***************************************************************************)
LEMMA InvInit == Init => IInv
<1> SUFFICES ASSUME Init PROVE IInv
  OBVIOUS
<1>1. 0 \in Gens /\ Gens \subseteq Nat
  BY DEF Gens
<1>2. TypeOK
  BY TypeInit
<1>3. DataInv
  BY <1>1 DEF Init, DataInv, CacheKeys, WireKeys, RespKeys
<1>4. ControlInv
  BY <1>1 DEF Init, ControlInv, PendingKeys, WaitKeys, RegisteredOnce, NothingAhead,
              LeaderOwnsEntry, EntryHasLeader, WaitingIsRegistered, Leading
<1>5. QED
  BY <1>2, <1>3, <1>4 DEF IInv

LEMMA InvStep == IInv /\ [Next]_vars => IInv'
BY TypeStep, DataStep, ControlStep DEF IInv

LEMMA InvAlways == Spec => []IInv
<1>1. QED
  BY InvInit, InvStep, PTL DEF Spec

\* No client gets the answer to another client's question, through any number
\* of reloads and a stop, for every population of queries and keys.
THEOREM OwnQuestion == Spec => []AnswersOwnQuestion
<1>1. IInv => AnswersOwnQuestion
  BY DEF IInv, DataInv, RespKeys, AnswersOwnQuestion
<1>2. QED
  BY <1>1, InvAlways, PTL

\* The query path stays well formed, and until the first reload the front cache
\* sends at most one query per key to the worker pool at a time.
THEOREM Coalescing == Spec => []CoalescingInv
<1>1. IInv => CoalescingInv
  BY DEF IInv, ControlInv, LeaderOwnsEntry, Leading, SingleFlight, CoalescingInv
<1>2. QED
  BY <1>1, InvAlways, PTL

\* A follower is left without a leader only by a cancellation or an exception
\* during stop(), or by a reload that replaced the cache it joined.
THEOREM OrphanCauses == Spec => []OrphansHaveACause
<1>1. ASSUME IInv, NEW r \in Requests, Orphaned(r)
      PROVE  \/ pc[joined[r]] \in {"cancelled", "raised"}
             \/ \E g \in Gens : g < gen /\ pending[g][KeyOf[r]] = joined[r]
  <2>1. pc[r] = "waiting" /\ joined[r] \notin fired
        /\ pc[joined[r]] \notin {"asking", "complete"}
    BY <1>1 DEF Orphaned
  <2>2. joined[r] \in Requests /\ KeyOf[r] \in Keys /\ gen \in Gens /\ Gens \subseteq Nat
    BY <1>1, <2>1 DEF IInv, TypeOK, Keyed, ControlInv, WaitKeys, Gens
  <2>3. PICK g \in Gens : pending[g][KeyOf[r]] = joined[r]
    BY <1>1, <2>1 DEF IInv, ControlInv, WaitingIsRegistered
  <2>4. pc[joined[r]] \in Leading \cup Final
    BY <1>1, <2>2, <2>3 DEF IInv, ControlInv, RegisteredOnce
  <2>5. CASE g > gen
    BY <1>1, <2>2, <2>3, <2>5 DEF IInv, ControlInv, NothingAhead
  <2>6. CASE g = gen
    <3>1. pc[joined[r]] # "done"
      BY <1>1, <2>2, <2>3, <2>6 DEF IInv, ControlInv, EntryHasLeader
    <3>2. QED
      BY <2>1, <2>4, <3>1 DEF Leading, Final
  <2>7. CASE g < gen
    BY <2>3, <2>7
  <2>8. QED
    BY <2>2, <2>5, <2>6, <2>7
<1>2. IInv => OrphansHaveACause
  BY <1>1 DEF OrphansHaveACause
<1>3. QED
  BY <1>2, InvAlways, PTL

\* An event, once set, stays set and keeps its holder: followers may resume in
\* any order and at any time.
THEOREM HolderFinality == Spec => HolderIsFinal
<1>1. ASSUME IInv, [Next]_vars, NEW r \in fired
      PROVE  r \in fired' /\ wire'[r] = wire[r]
  <2>0. ASSUME UNCHANGED <<fired, wire>> PROVE r \in fired' /\ wire'[r] = wire[r]
    BY <2>0
  <2>1. ASSUME NEW q \in Requests, Complete(q) PROVE r \in fired' /\ wire'[r] = wire[r]
    <3> DEFINE e == pending[home[q]][KeyOf[q]]
    <3>1. home[q] \in Gens /\ KeyOf[q] \in Keys /\ wire \in [Requests -> MaybeResponse]
          /\ fired \subseteq Requests
      BY <1>1, <2>1 DEF Complete, IInv, TypeOK, Keyed
    <3>2. CASE e = NoReq
      BY <2>1, <3>2, <2>0 DEF Complete
    <3>3. CASE e # NoReq
      <4>1. e \notin fired
        BY <1>1, <3>1, <3>3 DEF IInv, ControlInv, RegisteredOnce
      <4>2. fired' = fired \cup {e}
        BY <2>1, <3>3 DEF Complete
      <4>3. wire' = [wire EXCEPT ![e] = IF resp[q].kind = "answer" THEN NoResponse ELSE resp[q]]
        BY <2>1, <3>3 DEF Complete
      <4>4. QED
        BY <3>1, <4>1, <4>2, <4>3
    <3>4. QED
      BY <3>2, <3>3
  <2>2. ASSUME NEW q \in Requests,
               Arrive(q) \/ Acquire(q) \/ Reply(q) \/ Wake(q) \/ Cancel(q)
        PROVE  r \in fired' /\ wire'[r] = wire[r]
    BY <2>0, <2>2 DEF Arrive, Acquire, Reply, Wake, Cancel
  <2>3. CASE \/ \E k \in Keys : Expire(k)
             \/ Swap \/ StopOldPool \/ Stop \/ UNCHANGED vars
    BY <2>0, <2>3 DEF Expire, Swap, StopOldPool, Stop, StopListeners, StopPool,
                      DropCache, ExitTaskGroup, vars
  <2>4. QED
    BY <1>1, <2>1, <2>2, <2>3 DEF Next, Query
<1>2. IInv /\ [Next]_vars
        => [\A r \in fired : r \in fired' /\ wire'[r] = wire[r]]_vars
  BY <1>1
<1>3. QED
  BY <1>2, InvAlways, PTL DEF Spec, HolderIsFinal
-----------------------------------------------------------------------------
(***************************************************************************)
(* What crosses a reload                                                   *)
(***************************************************************************)
\* A query that has its response keeps it, with what is known of its making.
Settled == {"complete"} \cup Final
Brought(k, x) ==
  \E q \in Requests : /\ KeyOf[q] = k /\ pc[q] \in Settled /\ resp[q] = x
                      /\ born[q] <= x.by /\ asked[q] = x.by /\ x.by < home[q]
Computed(x) == x.kind \in {"answer", "other"}

\* Queries are older than what they use.
BirthInv ==
  \A r \in Requests : /\ born[r] <= gen
                      /\ pc[r] \in {"acquire", "waiting"} => born[r] <= home[r]
                      /\ pc[r] = "asking" => born[r] <= asked[r]
\* A follower's event is registered in the cache object the follower looked at.
WaitHome ==
  \A r \in Requests :
    pc[r] = "waiting" /\ joined[r] \notin fired => pending[home[r]][KeyOf[r]] = joined[r]
\* A leader's response is of the pool it asked.
MadeHere ==
  \A r \in Requests :
    pc[r] = "complete" /\ Computed(resp[r]) => asked[r] = resp[r].by /\ born[r] <= asked[r]
\* What is older than its cache object, its reader or its receiver was brought.
OldCached ==
  \A g \in Gens, k \in Keys :
    cache[g][k] # NoResponse /\ cache[g][k].by < g => Brought(k, cache[g][k])
OldShared ==
  \A r \in Requests :
    /\ pc[r] = "waiting" /\ joined[r] \in fired
    /\ Computed(wire[joined[r]]) /\ wire[joined[r]].by < born[r]
    => Brought(KeyOf[r], wire[joined[r]])
OldReturned ==
  \A r \in Requests :
    pc[r] = "done" /\ Computed(resp[r]) /\ resp[r].by < born[r] => Brought(KeyOf[r], resp[r])

StaleInv == BirthInv /\ WaitHome /\ MadeHere /\ OldCached /\ OldShared /\ OldReturned

\* What a step may do to a query.
Told(r, x) ==
  /\ pc' = [pc EXCEPT ![r] = "done"] /\ resp' = [resp EXCEPT ![r] = x]
  /\ UNCHANGED <<cache, home, asked, pending, joined>>
Asks(r) ==
  /\ pc' = [pc EXCEPT ![r] = "asking"] /\ asked' = [asked EXCEPT ![r] = gen]
  /\ UNCHANGED <<cache, home, resp, joined>>
Queues(r) ==
  /\ pc' = [pc EXCEPT ![r] = "acquire"] /\ home' = [home EXCEPT ![r] = gen]
  /\ UNCHANGED <<cache, asked, resp, pending, joined>>
Keeps(r, x) ==
  /\ KeyOf[r] # NoKey /\ Put(r, x) /\ pc' = [pc EXCEPT ![r] = "complete"]
  /\ home' = [home EXCEPT ![r] = gen] /\ resp' = [resp EXCEPT ![r] = x]
  /\ UNCHANGED <<asked, joined>>
Leaves(r) ==
  /\ \E p \in {"raised", "cancelled"} : pc' = [pc EXCEPT ![r] = p]
  /\ UNCHANGED <<cache, home, asked, resp, joined>>
Follows(r) ==
  /\ pc[r] = "acquire" /\ pending[home[r]][KeyOf[r]] # NoReq
  /\ pc' = [pc EXCEPT ![r] = "waiting"]
  /\ joined' = [joined EXCEPT ![r] = pending[home[r]][KeyOf[r]]]
  /\ UNCHANGED <<cache, home, asked, resp, pending>>
Registers(r) ==
  /\ pc[r] = "acquire" /\ pending[home[r]][KeyOf[r]] = NoReq
  /\ pending' = [pending EXCEPT ![home[r]][KeyOf[r]] = r]

Shape(r) ==
  \/ /\ pc[r] \in {"new", "waiting"} /\ KeyOf[r] # NoKey
     /\ cache[gen][KeyOf[r]] # NoResponse /\ Told(r, cache[gen][KeyOf[r]])
  \/ /\ pc[r] = "waiting" /\ joined[r] \in fired
     /\ wire[joined[r]] # NoResponse /\ Told(r, wire[joined[r]])
  \/ pc[r] = "asking" /\ KeyOf[r] = NoKey /\ \E x \in Outcomes(r) : Told(r, x)
  \/ pc[r] = "new" /\ KeyOf[r] = NoKey /\ pending' = pending /\ Asks(r)
  \/ Registers(r) /\ Asks(r)
  \/ pc[r] \in {"new", "waiting"} /\ KeyOf[r] # NoKey /\ Queues(r)
  \/ pc[r] = "asking" /\ pending' = pending /\ \E x \in Outcomes(r) : Keeps(r, x)
  \/ Registers(r) /\ Keeps(r, Servfail(r))
  \/ pc[r] \notin Final /\ (pending' = pending \/ Registers(r)) /\ Leaves(r)
  \/ Follows(r)

LEMMA QueryShape ==
  ASSUME TypeOK, NEW r \in Requests, Arrive(r) \/ Acquire(r) \/ Reply(r) \/ Wake(r) \/ Cancel(r)
  PROVE  /\ Shape(r) /\ UNCHANGED <<gen, fired, wire>>
         /\ born' = IF pc[r] = "new" THEN [born EXCEPT ![r] = gen] ELSE born
<1>1. born \in [Requests -> Gens] BY DEF TypeOK
<1>2. ASSUME Lookup(r), UNCHANGED <<pending, joined>>, pc[r] \in {"new", "waiting"},
             KeyOf[r] = NoKey => pc[r] = "new" /\ ~PoolGone
      PROVE  Shape(r)
  <2>1. CASE KeyOf[r] = NoKey
    <3>1. Ask(r) BY <1>2, <2>1 DEF Lookup
    <3>2. Asks(r) BY <1>2, <2>1, <3>1 DEF Ask, Asks
    <3> QED BY <1>2, <2>1, <3>2 DEF Shape
  <2>2. CASE KeyOf[r] # NoKey /\ cache[gen][KeyOf[r]] # NoResponse
    <3>1. Told(r, cache[gen][KeyOf[r]]) BY <1>2, <2>2 DEF Lookup, Return, Told
    <3> QED BY <1>2, <2>2, <3>1 DEF Shape
  <2>3. CASE KeyOf[r] # NoKey /\ cache[gen][KeyOf[r]] = NoResponse
    <3>1. Queues(r) BY <1>2, <2>3 DEF Lookup, Queues
    <3> QED BY <1>2, <2>3, <3>1 DEF Shape
  <2> QED BY <2>1, <2>2, <2>3
<1>3. CASE Arrive(r)
  <2>1. /\ pc[r] = "new" /\ UNCHANGED <<gen, fired, wire, pending, joined>>
        /\ born' = [born EXCEPT ![r] = gen]
    BY <1>3 DEF Arrive
  <2>2. CASE PoolGone
    <3>1. Leaves(r) BY <1>3, <2>1, <2>2 DEF Arrive, Leaves
    <3> QED BY <2>1, <3>1 DEF Shape, Final
  <2>3. CASE ~PoolGone
    <3>1. Lookup(r) BY <1>3, <2>3 DEF Arrive
    <3> QED BY <1>2, <2>1, <2>3, <3>1
  <2> QED BY <2>2, <2>3
<1>4. CASE Acquire(r)
  <2>1. pc[r] = "acquire" /\ UNCHANGED <<gen, fired, wire, born>> /\ KeyOf[r] # NoKey
    BY <1>4 DEF Acquire, TypeOK, Keyed
  <2>2. CASE pending[home[r]][KeyOf[r]] # NoReq
    <3>1. Follows(r) BY <1>4, <2>2 DEF Acquire, Follows
    <3> QED BY <2>1, <3>1 DEF Shape
  <2>3. CASE pending[home[r]][KeyOf[r]] = NoReq
    <3>1. Registers(r) /\ UNCHANGED joined BY <1>4, <2>3 DEF Acquire, Registers
    <3>2. CASE CacheGone
      <4>1. Leaves(r) BY <1>4, <2>3, <3>1, <3>2 DEF Acquire, Leaves
      <4> QED BY <2>1, <3>1, <4>1 DEF Shape, Final
    <3>3. CASE ~CacheGone
      <4>1. Ask(r) BY <1>4, <2>3, <3>3 DEF Acquire
      <4>2. CASE PoolGone
        <5>1. Keeps(r, Servfail(r)) BY <2>1, <3>1, <4>1, <4>2 DEF Ask, Settle, Keeps
        <5> QED BY <2>1, <3>1, <5>1 DEF Shape
      <4>3. CASE ~PoolGone
        <5>1. Asks(r) BY <3>1, <4>1, <4>3 DEF Ask, Asks
        <5> QED BY <2>1, <3>1, <5>1 DEF Shape
      <4> QED BY <4>2, <4>3
    <3> QED BY <3>2, <3>3
  <2> QED BY <2>2, <2>3
<1>5. CASE Reply(r)
  <2>1. pc[r] = "asking" /\ UNCHANGED <<gen, fired, wire, pending, joined, asked, born>>
    BY <1>5 DEF Reply
  <2>2. PICK x \in Outcomes(r) : Settle(r, x) BY <1>5 DEF Reply
  <2>3. CASE KeyOf[r] = NoKey
    <3>1. Told(r, x) BY <2>1, <2>2, <2>3 DEF Settle, Return, Told
    <3> QED BY <2>1, <2>3, <3>1 DEF Shape
  <2>4. CASE KeyOf[r] # NoKey
    <3>1. Keeps(r, x) BY <2>1, <2>2, <2>4 DEF Settle, Keeps
    <3> QED BY <2>1, <3>1 DEF Shape
  <2> QED BY <2>3, <2>4
<1>6. CASE Wake(r)
  <2>1. /\ pc[r] = "waiting" /\ joined[r] \in fired /\ KeyOf[r] # NoKey
        /\ UNCHANGED <<gen, fired, wire, pending, joined, born>>
    BY <1>6 DEF Wake, TypeOK, Keyed
  <2>2. CASE wire[joined[r]] # NoResponse
    <3>1. Told(r, wire[joined[r]]) BY <1>6, <2>1, <2>2 DEF Wake, Return, Told
    <3> QED BY <2>1, <2>2, <3>1 DEF Shape
  <2>3. CASE wire[joined[r]] = NoResponse /\ CacheGone
    <3>1. Leaves(r) BY <1>6, <2>1, <2>3 DEF Wake, Leaves
    <3> QED BY <2>1, <3>1 DEF Shape, Final
  <2>4. CASE wire[joined[r]] = NoResponse /\ ~CacheGone
    <3>1. Lookup(r) BY <1>6, <2>4 DEF Wake
    <3> QED BY <1>2, <2>1, <3>1
  <2> QED BY <2>2, <2>3, <2>4
<1>7. CASE Cancel(r)
  <2>1. /\ pc[r] \in {"acquire", "asking", "complete"} /\ Leaves(r)
        /\ UNCHANGED <<gen, fired, wire, pending, born>>
    BY <1>7 DEF Cancel, Leaves
  <2> QED BY <2>1 DEF Shape, Final
<1> QED BY <1>3, <1>4, <1>5, <1>6, <1>7

\* What a query brought stays brought.
LEMMA BroughtStays ==
  ASSUME \A q \in Requests : pc[q] \in Settled =>
           /\ pc'[q] \in Settled /\ resp'[q] = resp[q] /\ asked'[q] = asked[q]
           /\ born'[q] = born[q] /\ home'[q] = home[q],
         NEW k, NEW x, Brought(k, x)
  PROVE  Brought(k, x)'
BY DEF Brought

\* ... and so the last three conjuncts only depend on what a step adds.
LEMMA StaleKept ==
  ASSUME StaleInv,
         \A q \in Requests : pc[q] \in Settled =>
           /\ pc'[q] \in Settled /\ resp'[q] = resp[q] /\ asked'[q] = asked[q]
           /\ born'[q] = born[q] /\ home'[q] = home[q],
         BirthInv', WaitHome', MadeHere',
         \A g \in Gens, k \in Keys : cache'[g][k] # NoResponse /\ cache'[g][k].by < g =>
           cache'[g][k] = cache[g][k] \/ Brought(k, cache[g][k])',
         \A r \in Requests :
           pc'[r] = "waiting" /\ joined'[r] \in fired' /\ Computed(wire'[joined'[r]])
             /\ wire'[joined'[r]].by < born'[r] =>
           \/ /\ pc[r] = "waiting" /\ joined[r] = joined'[r] /\ joined[r] \in fired
              /\ wire'[joined[r]] = wire[joined[r]] /\ born'[r] = born[r]
           \/ Brought(KeyOf[r], wire[joined[r]])',
         \A r \in Requests :
           pc'[r] = "done" /\ Computed(resp'[r]) /\ resp'[r].by < born'[r] =>
           \/ pc[r] = "done" /\ resp'[r] = resp[r] /\ born'[r] = born[r]
           \/ Brought(KeyOf[r], resp[r])'
  PROVE  StaleInv'
<1>1. \A k, x : Brought(k, x) => Brought(k, x)' BY BroughtStays
<1>2. ASSUME NEW g \in Gens, NEW k \in Keys, cache'[g][k] # NoResponse, cache'[g][k].by < g
      PROVE  Brought(k, cache[g][k])'
  <2>1. CASE cache'[g][k] = cache[g][k]
    <3>1. PICK x : x = cache[g][k] OBVIOUS
    <3>2. Brought(k, x) BY <1>2, <2>1, <3>1 DEF StaleInv, OldCached
    <3>3. Brought(k, x)' BY <1>1, <3>2
    <3> QED BY <2>1, <3>1, <3>3
  <2> QED BY <1>2, <2>1
<1>3. ASSUME NEW r \in Requests, pc'[r] = "waiting", joined'[r] \in fired',
             Computed(wire'[joined'[r]]), wire'[joined'[r]].by < born'[r]
      PROVE  Brought(KeyOf[r], wire[joined[r]])'
  <2>1. CASE /\ pc[r] = "waiting" /\ joined[r] = joined'[r] /\ joined[r] \in fired
             /\ wire'[joined[r]] = wire[joined[r]] /\ born'[r] = born[r]
    <3>1. PICK x : x = wire[joined[r]] OBVIOUS
    <3>2. x = wire'[joined'[r]] BY <2>1, <3>1
    <3>3. Brought(KeyOf[r], x) BY <1>3, <2>1, <3>1, <3>2 DEF StaleInv, OldShared
    <3>4. Brought(KeyOf[r], x)' BY <1>1, <3>3
    <3> QED BY <3>2, <3>4
  <2> QED BY <1>3, <2>1
<1>4. ASSUME NEW r \in Requests, pc'[r] = "done", Computed(resp'[r]), resp'[r].by < born'[r]
      PROVE  Brought(KeyOf[r], resp[r])'
  <2>1. CASE pc[r] = "done" /\ resp'[r] = resp[r] /\ born'[r] = born[r]
    <3>1. PICK x : x = resp[r] OBVIOUS
    <3>2. Brought(KeyOf[r], x) BY <1>4, <2>1, <3>1 DEF StaleInv, OldReturned
    <3>3. Brought(KeyOf[r], x)' BY <1>1, <3>2
    <3> QED BY <2>1, <3>1, <3>3
  <2> QED BY <1>4, <2>1
<1> QED BY <1>2, <1>3, <1>4 DEF StaleInv, OldCached, OldShared, OldReturned, Computed

LEMMA OutcomeIs ==
  ASSUME TypeOK, NEW r \in Requests, NEW x \in Outcomes(r)
  PROVE  /\ Computed(x) => x.by = asked[r]
         /\ x.kind = "answer" => x.by = asked[r] /\ x # NoResponse
BY DEF Outcomes, Servfail, Computed, NoResponse

\* A step of one query, complete_pending apart.
LEMMA StaleShape ==
  ASSUME IInv, StaleInv, NEW r \in Requests, Shape(r), UNCHANGED <<gen, fired, wire>>,
         born' = IF pc[r] = "new" THEN [born EXCEPT ![r] = gen] ELSE born
  PROVE  StaleInv'
<1>1. /\ gen \in Gens /\ Gens \subseteq Nat /\ born \in [Requests -> Gens]
      /\ home \in [Requests -> Gens] /\ asked \in [Requests -> Gens]
      /\ pc \in [Requests -> Places] /\ resp \in [Requests -> MaybeResponse]
      /\ joined \in [Requests -> Requests \cup {NoReq}] /\ wire \in [Requests -> MaybeResponse]
      /\ cache \in [Gens -> [Keys -> MaybeResponse]]
      /\ pending \in [Gens -> [Keys -> Requests \cup {NoReq}]]
  BY DEF IInv, TypeOK, Gens
<1>2. /\ \A q \in Requests : born'[q] = IF q = r /\ pc[r] = "new" THEN gen ELSE born[q]
      /\ born'[r] <= gen /\ born'[r] \in Nat /\ gen \in Nat
  <2>1. \A q \in Requests : born'[q] = IF q = r /\ pc[r] = "new" THEN gen ELSE born[q] BY <1>1
  <2>2. gen \in Nat /\ born[r] \in Nat /\ born[r] <= gen BY <1>1 DEF StaleInv, BirthInv
  <2> QED BY <2>1, <2>2
<1>3. \A q \in Requests : pc[q] = "waiting" => joined[q] \in Requests /\ joined[q] # NoReq /\ KeyOf[q] \in Keys
  BY DEF IInv, ControlInv, WaitKeys, TypeOK, Keyed
<1>4. ASSUME NEW p \in Places, NEW h \in Gens, NEW a \in Gens,
             pc' = [pc EXCEPT ![r] = p], home' = [home EXCEPT ![r] = h],
             asked' = [asked EXCEPT ![r] = a],
             \A q \in Requests : q # r => resp'[q] = resp[q],
             \A q \in Requests : q # r => joined'[q] = joined[q],
             pc[r] \notin Final, pc[r] = "complete" => UNCHANGED <<resp, home, asked>> /\ p \in Final,
             p \in {"acquire", "waiting"} => born'[r] <= h, p = "asking" => born'[r] <= a,
             p = "waiting" => joined'[r] \notin fired /\ pending'[h][KeyOf[r]] = joined'[r],
             pending' = pending \/ Registers(r),
             p = "complete" /\ Computed(resp'[r]) => a = resp'[r].by /\ born'[r] <= a,
             \A g \in Gens, k \in Keys : cache'[g][k] # NoResponse /\ cache'[g][k].by < g =>
               cache'[g][k] = cache[g][k] \/ Brought(k, cache[g][k])',
             p = "done" /\ Computed(resp'[r]) /\ resp'[r].by < born'[r] => Brought(KeyOf[r], resp[r])'
      PROVE  StaleInv'
  <2>1. \A q \in Requests :
          /\ pc'[q] = IF q = r THEN p ELSE pc[q]
          /\ home'[q] = IF q = r THEN h ELSE home[q]
          /\ asked'[q] = IF q = r THEN a ELSE asked[q]
    BY <1>1, <1>4
  <2>2. ASSUME NEW q \in Requests, pc[q] \in Settled
        PROVE  /\ pc'[q] \in Settled /\ resp'[q] = resp[q] /\ asked'[q] = asked[q]
               /\ born'[q] = born[q] /\ home'[q] = home[q]
    <3>1. CASE q # r BY <1>2, <1>4, <2>1, <2>2, <3>1
    <3>2. CASE q = r
      <4>1. pc[r] = "complete" BY <1>4, <2>2, <3>2 DEF Settled
      <4> QED BY <1>2, <1>4, <2>1, <3>2, <4>1 DEF Settled
    <3> QED BY <3>1, <3>2
  <2>3. BirthInv' BY <1>2, <1>4, <2>1 DEF StaleInv, BirthInv
  <2>4. WaitHome'
    <3>1. ASSUME NEW q \in Requests, pc'[q] = "waiting", joined'[q] \notin fired
          PROVE  pending'[home'[q]][KeyOf[q]] = joined'[q]
      <4>1. CASE q = r BY <1>4, <2>1, <3>1, <4>1
      <4>2. CASE q # r
        <5>1. /\ pc[q] = "waiting" /\ joined'[q] = joined[q] /\ home'[q] = home[q]
              /\ pending[home[q]][KeyOf[q]] = joined[q] /\ joined[q] # NoReq
          BY <1>3, <1>4, <2>1, <3>1, <4>2 DEF StaleInv, WaitHome
        <5>2. CASE pending' = pending BY <5>1, <5>2
        <5>3. CASE Registers(r)
          <6>1. /\ pc[r] = "acquire" /\ pending[home[r]][KeyOf[r]] = NoReq
                /\ pending' = [pending EXCEPT ![home[r]][KeyOf[r]] = r]
            BY <5>3 DEF Registers
          <6>2. KeyOf[r] \in Keys /\ home[r] \in Gens /\ home[q] \in Gens /\ KeyOf[q] \in Keys
            BY <1>1, <1>3, <5>1, <6>1 DEF IInv, TypeOK, Keyed
          <6>3. \A g \in Gens, k \in Keys :
                  pending'[g][k] = IF g = home[r] /\ k = KeyOf[r] THEN r ELSE pending[g][k]
            BY <1>1, <6>1, <6>2
          <6> QED BY <5>1, <6>1, <6>2, <6>3
        <5> QED BY <1>4, <5>2, <5>3
      <4> QED BY <4>1, <4>2
    <3> QED BY <3>1 DEF WaitHome
  <2>5. MadeHere' BY <1>2, <1>4, <2>1 DEF StaleInv, MadeHere, Computed
  <2>6. ASSUME NEW q \in Requests, pc'[q] = "waiting", joined'[q] \in fired
        PROVE  /\ pc[q] = "waiting" /\ joined[q] = joined'[q] /\ joined[q] \in fired
               /\ wire'[joined[q]] = wire[joined[q]] /\ born'[q] = born[q]
    BY <1>2, <1>4, <2>1, <2>6
  <2>7. ASSUME NEW q \in Requests, pc'[q] = "done", Computed(resp'[q]), resp'[q].by < born'[q]
        PROVE  \/ pc[q] = "done" /\ resp'[q] = resp[q] /\ born'[q] = born[q]
               \/ Brought(KeyOf[q], resp[q])'
    <3>1. CASE q = r BY <1>4, <2>1, <2>7, <3>1
    <3>2. CASE q # r BY <1>2, <1>4, <2>1, <2>7, <3>2
    <3> QED BY <3>1, <3>2
  <2> QED BY <1>4, <2>2, <2>3, <2>4, <2>5, <2>6, <2>7, StaleKept
<1>6. /\ home = [home EXCEPT ![r] = home[r]] /\ asked = [asked EXCEPT ![r] = asked[r]]
      /\ home[r] \in Gens /\ asked[r] \in Gens
  BY <1>1
<1>7. \A x : resp' = [resp EXCEPT ![r] = x] =>
        resp'[r] = x /\ \A q \in Requests : q # r => resp'[q] = resp[q]
  BY <1>1
<1>8. "done" \in Places /\ "asking" \in Places /\ "acquire" \in Places /\ "waiting" \in Places
      /\ "complete" \in Places /\ "raised" \in Places /\ "cancelled" \in Places
  BY DEF Places, Final
<1>9. ASSUME NEW x, Told(r, x), pc[r] \in {"new", "waiting", "asking"},
             Computed(x) /\ x.by < born'[r] => Brought(KeyOf[r], x)
      PROVE  StaleInv'
  <2>1. /\ pc' = [pc EXCEPT ![r] = "done"] /\ resp' = [resp EXCEPT ![r] = x]
        /\ cache' = cache /\ home' = home /\ asked' = asked /\ pending' = pending /\ joined' = joined
    BY <1>9 DEF Told
  <2>2. resp'[r] = x /\ \A q \in Requests : q # r => resp'[q] = resp[q] BY <1>7, <2>1
  <2>3. \A q \in Requests : pc[q] \in Settled =>
           /\ pc'[q] \in Settled /\ resp'[q] = resp[q] /\ asked'[q] = asked[q]
           /\ born'[q] = born[q] /\ home'[q] = home[q]
    BY <1>1, <1>2, <1>9, <2>1, <2>2 DEF Settled, Final
  <2>4. Brought(KeyOf[r], x) => Brought(KeyOf[r], x)' BY <2>3, BroughtStays
  <2>5. Computed(resp'[r]) /\ resp'[r].by < born'[r] => Brought(KeyOf[r], resp[r])'
    BY <1>9, <2>2, <2>4
  <2>6. pc[r] \notin Final /\ pc[r] # "complete" BY <1>9 DEF Final
  <2>7. home' = [home EXCEPT ![r] = home[r]] /\ asked' = [asked EXCEPT ![r] = asked[r]]
    BY <1>6, <2>1
  <2> QED BY <1>4, <1>6, <1>8, <2>1, <2>2, <2>5, <2>6, <2>7
<1>10. CASE /\ pc[r] \in {"new", "waiting"} /\ KeyOf[r] # NoKey
            /\ cache[gen][KeyOf[r]] # NoResponse /\ Told(r, cache[gen][KeyOf[r]])
  <2>1. PICK x : x = cache[gen][KeyOf[r]] OBVIOUS
  <2>2. KeyOf[r] \in Keys /\ x # NoResponse /\ x \in MaybeResponse BY <1>1, <1>10, <2>1
  <2>3. x.by \in Nat BY <1>1, <2>2 DEF MaybeResponse, Response
  <2>4. ASSUME x.by < born'[r] PROVE Brought(KeyOf[r], x)
    <3>1. x.by < gen BY <1>2, <2>3, <2>4
    <3> QED BY <1>1, <2>1, <2>2, <3>1 DEF StaleInv, OldCached
  <2> QED BY <1>9, <1>10, <2>1, <2>4
<1>11. CASE /\ pc[r] = "waiting" /\ joined[r] \in fired
            /\ wire[joined[r]] # NoResponse /\ Told(r, wire[joined[r]])
  <2>1. PICK x : x = wire[joined[r]] OBVIOUS
  <2>2. ASSUME Computed(x), x.by < born'[r] PROVE Brought(KeyOf[r], x)
    BY <1>2, <1>11, <2>1, <2>2 DEF StaleInv, OldShared
  <2> QED BY <1>9, <1>11, <2>1, <2>2
<1>12. CASE pc[r] = "asking" /\ KeyOf[r] = NoKey /\ \E x \in Outcomes(r) : Told(r, x)
  <2>1. PICK x \in Outcomes(r) : Told(r, x) BY <1>12
  <2>2. ASSUME Computed(x), x.by < born'[r] PROVE FALSE
    <3>1. x.by = asked[r] BY <2>2, OutcomeIs DEF IInv
    <3>2. born'[r] = born[r] /\ born[r] <= asked[r] BY <1>2, <1>12 DEF StaleInv, BirthInv
    <3>3. born[r] \in Nat /\ asked[r] \in Nat BY <1>1
    <3> QED BY <2>2, <3>1, <3>2, <3>3
  <2> QED BY <1>9, <1>12, <2>1, <2>2
<1>13. CASE Asks(r) /\ pc[r] \in {"new", "acquire"} /\ (pending' = pending \/ Registers(r))
  <2>1. /\ pc' = [pc EXCEPT ![r] = "asking"] /\ asked' = [asked EXCEPT ![r] = gen]
        /\ cache' = cache /\ home' = home /\ resp' = resp /\ joined' = joined
    BY <1>13 DEF Asks
  <2>2. pc[r] \notin Final /\ pc[r] # "complete" BY <1>13 DEF Final
  <2>3. home' = [home EXCEPT ![r] = home[r]] BY <1>6, <2>1
  <2> QED BY <1>1, <1>2, <1>4, <1>6, <1>8, <1>13, <2>1, <2>2, <2>3
<1>14. CASE pc[r] \in {"new", "waiting"} /\ Queues(r)
  <2>1. /\ pc' = [pc EXCEPT ![r] = "acquire"] /\ home' = [home EXCEPT ![r] = gen]
        /\ cache' = cache /\ asked' = asked /\ resp' = resp /\ pending' = pending /\ joined' = joined
    BY <1>14 DEF Queues
  <2>2. pc[r] \notin Final /\ pc[r] # "complete" BY <1>14 DEF Final
  <2>3. asked' = [asked EXCEPT ![r] = asked[r]] BY <1>6, <2>1
  <2> QED BY <1>1, <1>2, <1>4, <1>6, <1>8, <2>1, <2>2, <2>3
<1>15. ASSUME NEW x, Keeps(r, x), pc[r] \in {"asking", "acquire"}, pending' = pending \/ Registers(r),
              Computed(x) => x.by = asked[r] /\ born[r] <= asked[r]
       PROVE  StaleInv'
  <2>1. /\ KeyOf[r] \in Keys /\ pc' = [pc EXCEPT ![r] = "complete"]
        /\ home' = [home EXCEPT ![r] = gen] /\ resp' = [resp EXCEPT ![r] = x]
        /\ asked' = asked /\ joined' = joined
    BY <1>15 DEF Keeps
  <2>2. resp'[r] = x /\ \A q \in Requests : q # r => resp'[q] = resp[q] BY <1>7, <2>1
  <2>3. pc[r] \notin Final /\ pc[r] # "complete" BY <1>15 DEF Final
  <2>4. asked' = [asked EXCEPT ![r] = asked[r]] BY <1>6, <2>1
  <2>5. born'[r] = born[r] BY <1>2, <1>15
  <2>6. ASSUME NEW g \in Gens, NEW k \in Keys, cache'[g][k] # NoResponse, cache'[g][k].by < g,
               cache'[g][k] # cache[g][k]
        PROVE  Brought(k, cache[g][k])'
    <3>1. x.kind = "answer" /\ cache' = [cache EXCEPT ![gen][KeyOf[r]] = x]
      BY <1>15, <2>6 DEF Keeps, Put
    <3>2. g = gen /\ k = KeyOf[r] /\ cache'[g][k] = x BY <1>1, <2>1, <2>6, <3>1
    <3>3. x.by = asked[r] /\ born[r] <= asked[r] BY <1>15, <3>1 DEF Computed
    <3>4. pc'[r] = "complete" /\ home'[r] = gen /\ asked'[r] = asked[r] BY <1>1, <2>1
    <3>5. Brought(KeyOf[r], x)' BY <2>2, <2>5, <2>6, <3>2, <3>3, <3>4 DEF Brought, Settled
    <3> QED BY <3>2, <3>5
  <2> QED BY <1>1, <1>4, <1>6, <1>8, <1>15, <2>1, <2>2, <2>3, <2>4, <2>5, <2>6
<1>16. CASE pc[r] = "asking" /\ pending' = pending /\ \E x \in Outcomes(r) : Keeps(r, x)
  <2>1. PICK x \in Outcomes(r) : Keeps(r, x) BY <1>16
  <2>2. born[r] <= asked[r] BY <1>16 DEF StaleInv, BirthInv
  <2>3. Computed(x) => x.by = asked[r] BY OutcomeIs DEF IInv
  <2> QED BY <1>15, <1>16, <2>1, <2>2, <2>3
<1>17. CASE Registers(r) /\ Keeps(r, Servfail(r))
  <2>1. ~Computed(Servfail(r)) BY DEF Computed, Servfail
  <2>2. pc[r] = "acquire" BY <1>17 DEF Registers
  <2> QED BY <1>15, <1>17, <2>1, <2>2
<1>18. CASE pc[r] \notin Final /\ (pending' = pending \/ Registers(r)) /\ Leaves(r)
  <2>1. PICK p \in {"raised", "cancelled"} : pc' = [pc EXCEPT ![r] = p] BY <1>18 DEF Leaves
  <2>2. cache' = cache /\ home' = home /\ asked' = asked /\ resp' = resp /\ joined' = joined
    BY <1>18 DEF Leaves
  <2>3. p \in Places /\ p \in Final BY <1>8 DEF Final
  <2>4. home' = [home EXCEPT ![r] = home[r]] /\ asked' = [asked EXCEPT ![r] = asked[r]]
    BY <1>6, <2>2
  <2> QED BY <1>4, <1>6, <1>18, <2>1, <2>2, <2>3, <2>4
<1>19. CASE Follows(r)
  <2>1. /\ pc[r] = "acquire" /\ pending[home[r]][KeyOf[r]] # NoReq
        /\ pc' = [pc EXCEPT ![r] = "waiting"]
        /\ joined' = [joined EXCEPT ![r] = pending[home[r]][KeyOf[r]]]
        /\ cache' = cache /\ home' = home /\ asked' = asked /\ resp' = resp /\ pending' = pending
    BY <1>19 DEF Follows
  <2>2. KeyOf[r] \in Keys BY <2>1 DEF IInv, TypeOK, Keyed
  <2>3. /\ joined'[r] = pending[home[r]][KeyOf[r]] /\ joined'[r] \notin fired
        /\ \A q \in Requests : q # r => joined'[q] = joined[q]
    BY <1>1, <2>1, <2>2 DEF IInv, ControlInv, RegisteredOnce
  <2>4. born'[r] <= home[r] BY <1>2, <2>1 DEF StaleInv, BirthInv
  <2>5. home' = [home EXCEPT ![r] = home[r]] /\ asked' = [asked EXCEPT ![r] = asked[r]]
    BY <1>6, <2>1
  <2>6. pc[r] \notin Final /\ pc[r] # "complete" BY <2>1 DEF Final
  <2> QED BY <1>4, <1>6, <1>8, <2>1, <2>3, <2>4, <2>5, <2>6
<1> QED BY <1>10, <1>11, <1>12, <1>13, <1>14, <1>16, <1>17, <1>18, <1>19 DEF Shape, Registers

LEMMA StaleComplete ==
  ASSUME IInv, StaleInv, NEW r \in Requests, Complete(r)
  PROVE  StaleInv'
<1> DEFINE g == home[r]
           k == KeyOf[r]
           e == pending[g][k]
           w == IF resp[r].kind = "answer" THEN NoResponse ELSE resp[r]
<1>1. /\ gen \in Gens /\ Gens \subseteq Nat /\ born \in [Requests -> Gens]
      /\ home \in [Requests -> Gens] /\ asked \in [Requests -> Gens]
      /\ pc \in [Requests -> Places] /\ wire \in [Requests -> MaybeResponse]
      /\ pending \in [Gens -> [Keys -> Requests \cup {NoReq}]]
  BY DEF IInv, TypeOK, Gens
<1>2. /\ pc[r] = "complete" /\ pc' = [pc EXCEPT ![r] = "done"]
      /\ pending' = [pending EXCEPT ![g][k] = NoReq]
      /\ gen' = gen /\ cache' = cache /\ home' = home /\ joined' = joined
      /\ asked' = asked /\ resp' = resp /\ born' = born
      /\ e = NoReq => fired' = fired /\ wire' = wire
      /\ e # NoReq => fired' = fired \cup {e} /\ wire' = [wire EXCEPT ![e] = w]
  BY DEF Complete
<1>3. g \in Gens /\ k \in Keys BY <1>1, <1>2 DEF IInv, TypeOK, Keyed
<1>4. e # NoReq => e \in Requests /\ e \notin fired /\ KeyOf[e] = k
                   /\ \A h \in Gens : pending[h][k] = e => h = g
  <2>0. \A h \in Gens, j \in Keys : pending[h][j] \in Requests \cup {NoReq} BY <1>1
  <2>1. e \in Requests \cup {NoReq} BY <1>3, <2>0
  <2>2. e # NoReq => KeyOf[e] = k BY <1>3 DEF IInv, ControlInv, PendingKeys
  <2>3. e # NoReq => e \notin fired /\ \A h \in Gens : pending[h][k] = e => h = g
    BY <1>3 DEF IInv, ControlInv, RegisteredOnce
  <2> QED BY <2>1, <2>2, <2>3
<1>5. \A q \in Requests : pc[q] = "waiting" => joined[q] \in Requests /\ joined[q] # NoReq
                            /\ KeyOf[joined[q]] = KeyOf[q] /\ KeyOf[q] \in Keys
  BY DEF IInv, ControlInv, WaitKeys, TypeOK, Keyed
<1>6. \A q \in Requests : pc'[q] = IF q = r THEN "done" ELSE pc[q] BY <1>1, <1>2
<1>7. \A h \in Gens, j \in Keys :
        pending'[h][j] = IF h = g /\ j = k THEN NoReq ELSE pending[h][j]
  BY <1>1, <1>2, <1>3
<1> HIDE DEF g, k, e, w
<1>8. \A q \in Requests : pc[q] \in Settled =>
        /\ pc'[q] \in Settled /\ resp'[q] = resp[q] /\ asked'[q] = asked[q]
        /\ born'[q] = born[q] /\ home'[q] = home[q]
  BY <1>2, <1>6 DEF Settled, Final
<1>9. BirthInv' BY <1>2, <1>6 DEF StaleInv, BirthInv
<1>10. MadeHere' BY <1>2, <1>6 DEF StaleInv, MadeHere, Computed
<1>11. WaitHome'
  <2>1. ASSUME NEW q \in Requests, pc'[q] = "waiting", joined[q] \notin fired'
        PROVE  pending'[home[q]][KeyOf[q]] = joined[q]
    <3>1. pc[q] = "waiting" BY <1>6, <2>1
    <3>2. joined[q] \notin fired BY <1>2, <2>1
    <3>3. pending[home[q]][KeyOf[q]] = joined[q] BY <3>1, <3>2 DEF StaleInv, WaitHome
    <3>4. CASE home[q] = g /\ KeyOf[q] = k
      <4>1. joined[q] = e BY <3>3, <3>4 DEF e
      <4>2. e # NoReq BY <1>5, <3>1, <4>1
      <4> QED BY <1>2, <2>1, <4>1, <4>2
    <3>5. CASE home[q] # g \/ KeyOf[q] # k
      <4>1. home[q] \in Gens /\ KeyOf[q] \in Keys BY <1>1, <1>5, <3>1
      <4>2. pending'[home[q]][KeyOf[q]] = pending[home[q]][KeyOf[q]] BY <1>7, <3>5, <4>1
      <4> QED BY <3>3, <4>2
    <3> QED BY <3>4, <3>5
  <2> QED BY <1>2, <2>1 DEF WaitHome
<1>12. ASSUME NEW q \in Requests, pc'[q] = "waiting", joined[q] \in fired',
              Computed(wire'[joined[q]]), wire'[joined[q]].by < born[q]
       PROVE  \/ /\ pc[q] = "waiting" /\ joined[q] \in fired
                 /\ wire'[joined[q]] = wire[joined[q]]
              \/ Brought(KeyOf[q], wire[joined[q]])'
  <2>1. pc[q] = "waiting" BY <1>6, <1>12
  <2>2. CASE joined[q] \in fired
    <3>1. wire'[joined[q]] = wire[joined[q]] BY <1>1, <1>2, <1>4, <1>5, <2>1, <2>2
    <3> QED BY <2>1, <2>2, <3>1
  <2>3. CASE joined[q] \notin fired
    <3>1. e # NoReq /\ joined[q] = e BY <1>2, <1>12, <2>3
    <3>2. pending[home[q]][KeyOf[q]] = e BY <2>1, <2>3, <3>1 DEF StaleInv, WaitHome
    <3>3. KeyOf[q] = k BY <1>4, <1>5, <2>1, <3>1
    <3>4. home[q] = g BY <1>1, <1>4, <3>1, <3>2, <3>3
    <3>5. born[q] <= g BY <2>1, <3>4 DEF StaleInv, BirthInv
    <3>6. wire'[e] = w BY <1>1, <1>2, <1>4, <3>1
    <3>7. Computed(w) /\ w.by < born[q] BY <1>12, <3>1, <3>6
    <3>8. w = resp[r] BY <3>7 DEF w, Computed, NoResponse
    <3>9. asked[r] = w.by /\ born[r] <= asked[r] BY <1>2, <3>7, <3>8 DEF StaleInv, MadeHere
    <3>10. w.by \in Nat /\ born[q] \in Nat /\ g \in Nat BY <1>1, <1>3, <3>9
    <3>11. w.by < g BY <3>5, <3>7, <3>10
    <3>12. pc'[r] = "done" /\ home'[r] = g BY <1>2, <1>6 DEF g
    <3>13. PICK x : x = w OBVIOUS
    <3>14. Brought(KeyOf[q], x)'
      BY <1>2, <3>3, <3>8, <3>9, <3>11, <3>12, <3>13 DEF Brought, Settled, Final, k
    <3> QED BY <1>2, <3>1, <3>6, <3>13, <3>14
  <2> QED BY <2>2, <2>3
<1>13. ASSUME NEW q \in Requests, pc'[q] = "done", Computed(resp[q]), resp[q].by < born[q]
       PROVE  pc[q] = "done"
  <2>1. CASE q = r
    <3>1. asked[r] = resp[r].by /\ born[r] <= asked[r] BY <1>2, <1>13, <2>1 DEF StaleInv, MadeHere
    <3>2. born[r] \in Nat /\ asked[r] \in Nat BY <1>1
    <3> QED BY <1>13, <2>1, <3>1, <3>2
  <2>2. CASE q # r BY <1>6, <1>13, <2>2
  <2> QED BY <2>1, <2>2
<1> QED BY <1>2, <1>8, <1>9, <1>10, <1>11, <1>12, <1>13, StaleKept

LEMMA StaleFail ==
  ASSUME IInv, StaleInv, NEW S, \A r \in S : r \in Requests /\ pc[r] = "asking",
         FailAsking(S), UNCHANGED <<gen, cache, pending, fired, wire, joined, asked, born>>
  PROVE  StaleInv'
<1>1. /\ \A q \in Requests : pc'[q] = IF q \notin S THEN pc[q]
                                       ELSE IF KeyOf[q] = NoKey THEN "done" ELSE "complete"
      /\ \A q \in Requests : home'[q] = IF q \in S /\ KeyOf[q] # NoKey THEN gen ELSE home[q]
      /\ \A q \in Requests : resp'[q] = IF q \in S THEN Servfail(q) ELSE resp[q]
  BY DEF FailAsking
<1>2. \A q : ~Computed(Servfail(q)) BY DEF Computed, Servfail
<1>3. \A q \in Requests : pc[q] \in Settled => q \notin S BY DEF Settled, Final
<1>4. \A q \in Requests : pc[q] \in Settled =>
        /\ pc'[q] \in Settled /\ resp'[q] = resp[q] /\ asked'[q] = asked[q]
        /\ born'[q] = born[q] /\ home'[q] = home[q]
  BY <1>1, <1>3
<1>5. \A q \in Requests : pc'[q] \in {"acquire", "waiting", "asking"} =>
        q \notin S /\ pc[q] = pc'[q] /\ home'[q] = home[q]
  BY <1>1
<1>6. BirthInv' BY <1>5 DEF StaleInv, BirthInv
<1>7. WaitHome' BY <1>5 DEF StaleInv, WaitHome
<1>8. ASSUME NEW q \in Requests, Computed(resp'[q]) PROVE q \notin S /\ pc'[q] = pc[q] /\ resp'[q] = resp[q]
  BY <1>1, <1>2, <1>8
<1>9. MadeHere'
  <2>1. ASSUME NEW q \in Requests, pc'[q] = "complete", Computed(resp'[q])
        PROVE  asked[q] = resp'[q].by /\ born[q] <= asked[q]
    BY <1>8, <2>1 DEF StaleInv, MadeHere
  <2> QED BY <2>1 DEF MadeHere, Computed
<1> QED BY <1>4, <1>5, <1>6, <1>7, <1>8, <1>9, StaleKept

LEMMA StaleStep == IInv /\ StaleInv /\ [Next]_vars => StaleInv'
<1> SUFFICES ASSUME IInv, StaleInv, [Next]_vars PROVE StaleInv' OBVIOUS
<1>0. /\ gen \in Gens /\ Gens \subseteq Nat /\ born \in [Requests -> Gens]
      /\ cache \in [Gens -> [Keys -> MaybeResponse]]
  BY DEF IInv, TypeOK, Gens
<1>1. ASSUME NEW r \in Requests, Arrive(r) \/ Acquire(r) \/ Reply(r) \/ Wake(r) \/ Cancel(r)
      PROVE  StaleInv'
  <2>1. /\ Shape(r) /\ UNCHANGED <<gen, fired, wire>>
        /\ born' = IF pc[r] = "new" THEN [born EXCEPT ![r] = gen] ELSE born
    BY <1>1, QueryShape DEF IInv
  <2> QED BY <2>1, StaleShape
<1>2. ASSUME NEW r \in Requests, Complete(r) PROVE StaleInv' BY <1>2, StaleComplete
<1>3. ASSUME UNCHANGED <<pending, fired, wire, reqVars>>, \A r \in Requests : born[r] <= gen',
             \A g \in Gens, k \in Keys : cache'[g][k] # NoResponse => cache'[g][k] = cache[g][k]
      PROVE  StaleInv'
  <2>1. pc' = pc /\ home' = home /\ joined' = joined /\ asked' = asked /\ resp' = resp /\ born' = born
    BY <1>3 DEF reqVars
  <2>2. BirthInv' BY <1>3, <2>1 DEF StaleInv, BirthInv
  <2>3. WaitHome' /\ MadeHere' BY <1>3, <2>1 DEF StaleInv, WaitHome, MadeHere, Computed
  <2> QED BY <1>3, <2>1, <2>2, <2>3, StaleKept
<1>4. \A r \in Requests : born[r] <= gen BY DEF StaleInv, BirthInv
<1>5. ASSUME NEW k \in Keys, Expire(k) PROVE StaleInv'
  <2>1. /\ UNCHANGED <<gen, pending, fired, wire, reqVars>>
        /\ cache' = [cache EXCEPT ![gen][k] = NoResponse]
    BY <1>5 DEF Expire
  <2>2. \A g \in Gens, j \in Keys : cache'[g][j] # NoResponse => cache'[g][j] = cache[g][j]
    BY <1>0, <2>1
  <2> QED BY <1>3, <1>4, <2>1, <2>2
<1>6. CASE Swap
  <2>1. UNCHANGED <<cache, pending, fired, wire, reqVars>> /\ gen' = gen + 1 BY <1>6 DEF Swap
  <2>2. ASSUME NEW r \in Requests PROVE born[r] <= gen'
    <3>1. born[r] \in Nat /\ gen \in Nat /\ born[r] <= gen BY <1>0, <1>4
    <3> QED BY <2>1, <3>1
  <2> QED BY <1>3, <2>1, <2>2
<1>7. CASE StopOldPool BY <1>7, StaleFail DEF StopOldPool, Asking
<1>8. CASE StopPool BY <1>8, StaleFail DEF StopPool, Asking
<1>9. CASE StopListeners \/ DropCache \/ ExitTaskGroup
  <2>1. UNCHANGED <<gen, cache, pending, fired, wire, reqVars>>
    BY <1>9 DEF StopListeners, DropCache, ExitTaskGroup
  <2> QED BY <1>3, <1>4, <2>1
<1>10. CASE UNCHANGED vars
  <2>1. UNCHANGED <<gen, cache, pending, fired, wire, reqVars>> BY <1>10 DEF vars, reqVars
  <2> QED BY <1>3, <1>4, <2>1
<1> QED BY <1>1, <1>2, <1>5, <1>6, <1>7, <1>8, <1>9, <1>10 DEF Next, Query, Stop

\* A query born after a reload gets a response of an older pool only if another
\* query asked for that very response before the reload and stored or shared it
\* through the new cache object (process_query reads the attribute again).
THEOREM OnlyBroughtAnswersAreStale == Spec => []StaleCrossedReload
<1>1. Init => StaleInv
  <2> SUFFICES ASSUME Init PROVE StaleInv OBVIOUS
  <2>1. BirthInv /\ WaitHome /\ MadeHere BY DEF Init, BirthInv, WaitHome, MadeHere
  <2>2. OldCached BY DEF Init, OldCached
  <2>3. OldShared /\ OldReturned BY DEF Init, OldShared, OldReturned
  <2> QED BY <2>1, <2>2, <2>3 DEF StaleInv
<1>2. StaleInv => StaleCrossedReload
  BY DEF StaleInv, OldReturned, Computed, Brought, StaleCrossedReload
<1> QED BY <1>1, <1>2, StaleStep, InvAlways, PTL DEF Spec
-----------------------------------------------------------------------------
(***************************************************************************)
(* The refinement of SingleFlight                                          *)
(***************************************************************************)
Was == [r \in Requests |-> Status(r)]
Known == [r \in Requests |-> AnsweredKey(r)]

LEMMA StatusIs ==
  ASSUME NEW r
  PROVE  /\ pc[r] = "new" => Status(r) = "new"
         /\ pc[r] \in Keyed => Status(r) = "open"
         /\ pc[r] = "asking" => Status(r) = "flying"
         /\ pc[r] = "done" => Status(r) = "done"
         /\ pc[r] \in {"raised", "cancelled"} => Status(r) = "gone"
BY DEF Status, Keyed

LEMMA StatusIsNext ==
  ASSUME NEW r
  PROVE  /\ pc'[r] = "new" => Status(r)' = "new"
         /\ pc'[r] \in Keyed => Status(r)' = "open"
         /\ pc'[r] = "asking" => Status(r)' = "flying"
         /\ pc'[r] = "done" => Status(r)' = "done"
         /\ pc'[r] \in {"raised", "cancelled"} => Status(r)' = "gone"
BY DEF Status, Keyed

\* One query moves: the others keep their status and their answer.
LEMMA OneMoves ==
  ASSUME TypeOK, NEW r \in Requests, NEW p \in Places, pc' = [pc EXCEPT ![r] = p],
         \A q \in Requests : q # r => resp'[q] = resp[q]
  PROVE  /\ Was' = [Was EXCEPT ![r] = Status(r)']
         /\ Known' = [Known EXCEPT ![r] = AnsweredKey(r)'] /\ pc'[r] = p
<1>1. \A q \in Requests : pc'[q] = IF q = r THEN p ELSE pc[q] BY DEF TypeOK
<1>2. \A q \in Requests : q # r => Status(q)' = Status(q) /\ AnsweredKey(q)' = AnsweredKey(q)
  BY <1>1 DEF Status, AnsweredKey
<1> QED BY <1>1, <1>2 DEF Was, Known

\* What a query knows before and after it returns.
LEMMA KnownIs ==
  ASSUME NEW r
  PROVE  /\ pc[r] # "done" => AnsweredKey(r) = NoKey
         /\ pc'[r] # "done" => AnsweredKey(r)' = NoKey
         /\ pc'[r] = "done" /\ KeyOf[r] = NoKey => AnsweredKey(r)' = NoKey
         /\ pc'[r] = "done" /\ KeyOf[r] # NoKey => AnsweredKey(r)' = resp'[r].key
BY DEF AnsweredKey

\* The steps of SingleFlight in terms of Was and Known.
LEMMA Abstract ==
  /\ UNCHANGED <<Was, Known>> => UNCHANGED Promise!vars
  /\ \A r \in Requests :
       Was[r] = "new" /\ Was' = [Was EXCEPT ![r] = "open"] /\ Known' = Known => Promise!Next
  /\ \A r \in Requests :
       /\ Was[r] \in {"new", "open"} /\ Was' = [Was EXCEPT ![r] = "flying"] /\ Known' = Known
       /\ \A q \in Requests : Was[q] = "flying" => KeyOf[q] # KeyOf[r] \/ KeyOf[r] = NoKey
       => Promise!Next
  /\ \A r \in Requests :
       /\ Was[r] \in {"new", "open", "flying"} /\ Was' = [Was EXCEPT ![r] = "done"]
       /\ Known' \in {Known, [Known EXCEPT ![r] = KeyOf[r]]}
       => Promise!Next
  /\ \A r \in Requests :
       /\ Was[r] \in {"new", "open", "flying"} /\ Was' = [Was EXCEPT ![r] = "gone"]
       /\ Known' = Known
       => Promise!Next
  /\ \A S \in SUBSET Requests :
       /\ \A r \in S : Was[r] = "flying"
       /\ Was' = [r \in Requests |-> IF r \notin S THEN Was[r]
                                     ELSE IF KeyOf[r] = NoKey THEN "done" ELSE "open"]
       /\ Known' = Known
       => Promise!Next
<1>1. UNCHANGED <<Was, Known>> => UNCHANGED Promise!vars
  BY DEF Promise!vars, Was, Known
<1>2. ASSUME NEW r \in Requests, Was[r] = "new", Was' = [Was EXCEPT ![r] = "open"], Known' = Known
      PROVE  Promise!Next
  BY <1>2 DEF Promise!Next, Promise!Queue, Was, Known
<1>3. ASSUME NEW r \in Requests, Was[r] \in {"new", "open"},
             Was' = [Was EXCEPT ![r] = "flying"], Known' = Known,
             \A q \in Requests : Was[q] = "flying" => KeyOf[q] # KeyOf[r] \/ KeyOf[r] = NoKey
      PROVE  Promise!Next
  BY <1>3 DEF Promise!Next, Promise!Launch, Promise!Free, Was, Known
<1>4. ASSUME NEW r \in Requests, Was[r] \in {"new", "open", "flying"},
             Was' = [Was EXCEPT ![r] = "done"], Known' \in {Known, [Known EXCEPT ![r] = KeyOf[r]]}
      PROVE  Promise!Next
  BY <1>4 DEF Promise!Next, Promise!GiveAnswer, Was, Known
<1>5. ASSUME NEW r \in Requests, Was[r] \in {"new", "open", "flying"},
             Was' = [Was EXCEPT ![r] = "gone"], Known' = Known
      PROVE  Promise!Next
  BY <1>5 DEF Promise!Next, Promise!Abandon, Was, Known
<1>6. ASSUME NEW S \in SUBSET Requests, \A r \in S : Was[r] = "flying",
             Was' = [r \in Requests |-> IF r \notin S THEN Was[r]
                                        ELSE IF KeyOf[r] = NoKey THEN "done" ELSE "open"],
             Known' = Known
      PROVE  Promise!Next
  BY <1>6 DEF Promise!Next, Promise!Land, Was, Known
<1> QED BY <1>1, <1>2, <1>3, <1>4, <1>5, <1>6

\* One query moves and nothing is returned.
LEMMA MovesUnanswered ==
  ASSUME TypeOK, NEW r \in Requests, NEW p \in Places \ {"done"}, pc[r] # "done",
         pc' = [pc EXCEPT ![r] = p], \A q \in Requests : q # r => resp'[q] = resp[q]
  PROVE  Was' = [Was EXCEPT ![r] = Status(r)'] /\ Known' = Known /\ pc'[r] = p
<1>1. /\ Was' = [Was EXCEPT ![r] = Status(r)']
      /\ Known' = [Known EXCEPT ![r] = AnsweredKey(r)'] /\ pc'[r] = p
  BY OneMoves
<1>2. AnsweredKey(r)' = NoKey /\ Known[r] = NoKey BY <1>1, KnownIs DEF Known
<1>3. [Known EXCEPT ![r] = NoKey] = Known BY <1>2 DEF Known
<1> QED BY <1>1, <1>2, <1>3

\* One query returns with a response for its key, or with none.
LEMMA ReturnSimulates ==
  ASSUME TypeOK, NEW r \in Requests, pc[r] \notin Final, pc' = [pc EXCEPT ![r] = "done"],
         \A q \in Requests : q # r => resp'[q] = resp[q],
         resp'[r] # NoResponse => resp'[r].key = KeyOf[r]
  PROVE  Promise!Next
<1>1. /\ Was' = [Was EXCEPT ![r] = Status(r)']
      /\ Known' = [Known EXCEPT ![r] = AnsweredKey(r)'] /\ pc'[r] = "done"
  BY OneMoves DEF Places, Final
<1>2. Status(r)' = "done" BY <1>1, StatusIsNext
<1>3. Was[r] \in {"new", "open", "flying"}
  <2>1. pc[r] \in {"new", "asking"} \cup Keyed BY DEF TypeOK, Places, Final, Keyed
  <2> QED BY <2>1, StatusIs DEF Was
<1>4. AnsweredKey(r) = NoKey BY KnownIs DEF Final
<1>5. Known = [Known EXCEPT ![r] = NoKey] BY <1>4 DEF Known
<1>6. NoResponse.key = NoKey BY DEF NoResponse
<1>7. AnsweredKey(r)' \in {NoKey, KeyOf[r]} BY <1>1, <1>6, KnownIs
<1>8. Known' \in {Known, [Known EXCEPT ![r] = KeyOf[r]]} BY <1>1, <1>5, <1>7
<1> QED BY <1>1, <1>2, <1>3, <1>8, Abstract

\* Queries that the pool fails land.
LEMMA FailSimulates ==
  ASSUME TypeOK, NEW S \in SUBSET Requests, \A r \in S : pc[r] = "asking", FailAsking(S)
  PROVE  Promise!Next
<1>1. \A r \in Requests :
        /\ pc'[r] = IF r \notin S THEN pc[r] ELSE IF KeyOf[r] = NoKey THEN "done" ELSE "complete"
        /\ r \notin S => resp'[r] = resp[r]
  BY DEF FailAsking
<1>2. ASSUME NEW r \in Requests, r \notin S
      PROVE  Status(r)' = Status(r) /\ AnsweredKey(r)' = AnsweredKey(r)
  <2>1. pc'[r] = pc[r] /\ resp'[r] = resp[r] BY <1>1, <1>2
  <2> QED BY <2>1 DEF Status, AnsweredKey
<1>3. ASSUME NEW r \in S
      PROVE  /\ Status(r) = "flying" /\ AnsweredKey(r)' = AnsweredKey(r)
             /\ Status(r)' = IF KeyOf[r] = NoKey THEN "done" ELSE "open"
  <2>1. pc'[r] = IF KeyOf[r] = NoKey THEN "done" ELSE "complete" BY <1>1, <1>3
  <2>2. Status(r) = "flying" /\ AnsweredKey(r) = NoKey BY <1>3, StatusIs, KnownIs
  <2>3. Status(r)' = IF KeyOf[r] = NoKey THEN "done" ELSE "open"
    BY <2>1, StatusIsNext DEF Keyed
  <2>4. AnsweredKey(r)' = NoKey BY <2>1, KnownIs
  <2> QED BY <2>2, <2>3, <2>4
<1>4. Was' = [r \in Requests |-> IF r \notin S THEN Was[r]
                                 ELSE IF KeyOf[r] = NoKey THEN "done" ELSE "open"]
  BY <1>2, <1>3 DEF Was
<1>5. Known' = Known BY <1>2, <1>3 DEF Known
<1>6. \A r \in S : Was[r] = "flying" BY <1>3 DEF Was
<1> QED BY <1>4, <1>5, <1>6, Abstract

\* A step of one query, complete_pending apart, before the first reload.
LEMMA ShapeSimulates ==
  ASSUME IInv, gen = 0, NEW r \in Requests, Shape(r)
  PROVE  Promise!Next \/ UNCHANGED Promise!vars
<1>1. /\ TypeOK /\ gen \in Gens /\ pc \in [Requests -> Places]
      /\ resp \in [Requests -> MaybeResponse] /\ KeyOf \in [Requests -> Keys \cup {NoKey}]
      /\ cache \in [Gens -> [Keys -> MaybeResponse]]
  BY FrontCacheAssumption DEF IInv, TypeOK
<1>2. ASSUME NEW p, NEW x, pc' = [pc EXCEPT ![r] = p],
             resp' = resp \/ resp' = [resp EXCEPT ![r] = x]
      PROVE  \A q \in Requests : q # r => resp'[q] = resp[q]
  BY <1>1, <1>2
<1>3. ASSUME NEW x, Told(r, x), pc[r] \notin Final, x # NoResponse => x.key = KeyOf[r]
      PROVE  Promise!Next
  <2>1. /\ pc' = [pc EXCEPT ![r] = "done"] /\ resp'[r] = x
        /\ \A q \in Requests : q # r => resp'[q] = resp[q]
    BY <1>1, <1>3 DEF Told
  <2> QED BY <1>1, <1>3, <2>1, ReturnSimulates
<1>4. CASE /\ pc[r] \in {"new", "waiting"} /\ KeyOf[r] # NoKey
           /\ cache[gen][KeyOf[r]] # NoResponse /\ Told(r, cache[gen][KeyOf[r]])
  <2>1. cache[gen][KeyOf[r]].key = KeyOf[r]
    BY <1>1, <1>4 DEF IInv, DataInv, CacheKeys
  <2> QED BY <1>3, <1>4, <2>1 DEF Final
<1>5. CASE /\ pc[r] = "waiting" /\ joined[r] \in fired
           /\ wire[joined[r]] # NoResponse /\ Told(r, wire[joined[r]])
  <2>1. wire[joined[r]].key = KeyOf[r]
    BY <1>5 DEF IInv, DataInv, ControlInv, WireKeys, WaitKeys
  <2> QED BY <1>3, <1>5, <2>1 DEF Final
<1>6. CASE pc[r] = "asking" /\ KeyOf[r] = NoKey /\ \E x \in Outcomes(r) : Told(r, x)
  <2>1. PICK x \in Outcomes(r) : Told(r, x) BY <1>6
  <2>2. x # NoResponse => x.key = KeyOf[r] BY DEF Outcomes, Servfail
  <2> QED BY <1>3, <1>6, <2>1, <2>2 DEF Final
<1>7. ASSUME pc[r] \in {"new", "acquire"}, Asks(r),
             \A q \in Requests : pc[q] = "asking" => KeyOf[q] # KeyOf[r] \/ KeyOf[r] = NoKey
      PROVE  Promise!Next
  <2>1. /\ pc' = [pc EXCEPT ![r] = "asking"] /\ resp' = resp /\ "asking" \in Places \ {"done"}
        /\ pc[r] # "done"
    BY <1>7 DEF Asks, Places
  <2>2. Was' = [Was EXCEPT ![r] = Status(r)'] /\ Known' = Known /\ pc'[r] = "asking"
    BY <1>1, <2>1, MovesUnanswered
  <2>3. Status(r)' = "flying" /\ Was[r] \in {"new", "open"}
    BY <1>7, <2>2, StatusIsNext, StatusIs DEF Was, Keyed
  <2>4. ASSUME NEW q \in Requests, Was[q] = "flying" PROVE pc[q] = "asking"
    <3>1. pc[q] \in Places /\ Status(q) = "flying" BY <1>1, <2>4 DEF Was
    <3> QED BY <3>1, StatusIs DEF Places, Keyed, Final
  <2>5. \A q \in Requests : Was[q] = "flying" => KeyOf[q] # KeyOf[r] \/ KeyOf[r] = NoKey
    BY <1>7, <2>4
  <2> QED BY <2>2, <2>3, <2>5, Abstract
<1>8. CASE pc[r] = "new" /\ KeyOf[r] = NoKey /\ Asks(r) BY <1>7, <1>8
<1>9. CASE Registers(r) /\ Asks(r)
  <2>1. home[r] = 0 /\ pc[r] = "acquire"
    <3>1. home[r] \in Nat /\ home[r] <= gen
      BY DEF IInv, TypeOK, Gens, ControlInv, NothingAhead
    <3> QED BY <1>9, <3>1 DEF Registers
  <2>2. pending[0][KeyOf[r]] = NoReq BY <1>9, <2>1 DEF Registers
  <2>3. ASSUME NEW q \in Requests, pc[q] = "asking", KeyOf[q] = KeyOf[r], KeyOf[r] # NoKey
        PROVE  FALSE
    <3>1. pending[0][KeyOf[q]] = q
      BY <2>3 DEF IInv, ControlInv, LeaderOwnsEntry, Leading
    <3> QED BY <2>2, <2>3, <3>1, FrontCacheAssumption
  <2> QED BY <1>7, <1>9, <2>1, <2>3
<1>10. CASE pc[r] \in {"new", "waiting"} /\ Queues(r)
  <2>1. /\ pc' = [pc EXCEPT ![r] = "acquire"] /\ resp' = resp /\ "acquire" \in Places \ {"done"}
        /\ pc[r] # "done"
    BY <1>10 DEF Queues, Places
  <2>2. Was' = [Was EXCEPT ![r] = Status(r)'] /\ Known' = Known /\ pc'[r] = "acquire"
    BY <1>1, <2>1, MovesUnanswered
  <2>3. Status(r)' = "open" BY <2>2, StatusIsNext DEF Keyed
  <2>4. CASE pc[r] = "new"
    <3>1. Was[r] = "new" BY <2>4, StatusIs DEF Was
    <3> QED BY <2>2, <2>3, <3>1, Abstract
  <2>5. CASE pc[r] = "waiting"
    <3>1. Was[r] = "open" BY <2>5, StatusIs DEF Was, Keyed
    <3>2. Was' = Was BY <2>2, <2>3, <3>1 DEF Was
    <3> QED BY <2>2, <3>2, Abstract
  <2> QED BY <1>10, <2>4, <2>5
<1>11. CASE pc[r] = "asking" /\ \E x \in Outcomes(r) : Keeps(r, x)
  <2>1. /\ pc' = [pc EXCEPT ![r] = "complete"] /\ "complete" \in Places \ {"done"}
        /\ pc[r] # "done" /\ \A q \in Requests : q # r => resp'[q] = resp[q]
        /\ KeyOf[r] # NoKey
    BY <1>1, <1>11 DEF Keeps, Places
  <2>2. Was' = [Was EXCEPT ![r] = Status(r)'] /\ Known' = Known /\ pc'[r] = "complete"
    BY <1>1, <2>1, MovesUnanswered
  <2>3. Status(r)' = "open" BY <2>2, StatusIsNext DEF Keyed
  <2>4. \A q \in {r} : Was[q] = "flying" BY <1>11, StatusIs DEF Was
  <2>5. Was' = [q \in Requests |-> IF q \notin {r} THEN Was[q]
                                   ELSE IF KeyOf[q] = NoKey THEN "done" ELSE "open"]
    BY <2>1, <2>2, <2>3 DEF Was
  <2>6. {r} \in SUBSET Requests OBVIOUS
  <2> QED BY <2>2, <2>4, <2>5, <2>6, Abstract
<1>12. CASE Registers(r) /\ Keeps(r, Servfail(r))
  <2>1. /\ pc' = [pc EXCEPT ![r] = "complete"] /\ "complete" \in Places \ {"done"}
        /\ pc[r] = "acquire" /\ \A q \in Requests : q # r => resp'[q] = resp[q]
    BY <1>1, <1>12 DEF Keeps, Places, Registers
  <2>2. Was' = [Was EXCEPT ![r] = Status(r)'] /\ Known' = Known /\ pc'[r] = "complete"
    BY <1>1, <2>1, MovesUnanswered
  <2>3. Status(r)' = "open" /\ Was[r] = "open"
    BY <2>1, <2>2, StatusIs, StatusIsNext DEF Keyed, Was
  <2>4. Was' = Was BY <2>2, <2>3 DEF Was
  <2> QED BY <2>2, <2>4, Abstract
<1>13. CASE pc[r] \notin Final /\ Leaves(r)
  <2>1. PICK p \in {"raised", "cancelled"} : pc' = [pc EXCEPT ![r] = p] BY <1>13 DEF Leaves
  <2>2. resp' = resp /\ p \in Places \ {"done"} /\ pc[r] # "done"
    BY <1>13 DEF Leaves, Places, Final
  <2>3. Was' = [Was EXCEPT ![r] = Status(r)'] /\ Known' = Known /\ pc'[r] = p
    BY <1>1, <2>1, <2>2, MovesUnanswered
  <2>4. Status(r)' = "gone" BY <2>1, <2>3, StatusIsNext
  <2>5. pc[r] \in {"new", "asking"} \cup Keyed BY <1>1, <1>13 DEF Places, Final, Keyed
  <2>6. Was[r] \in {"new", "open", "flying"} BY <2>5, StatusIs DEF Was
  <2> QED BY <2>3, <2>4, <2>6, Abstract
<1>14. CASE Follows(r)
  <2>1. /\ pc' = [pc EXCEPT ![r] = "waiting"] /\ resp' = resp /\ "waiting" \in Places \ {"done"}
        /\ pc[r] = "acquire"
    BY <1>14 DEF Follows, Places
  <2>2. Was' = [Was EXCEPT ![r] = Status(r)'] /\ Known' = Known /\ pc'[r] = "waiting"
    BY <1>1, <2>1, MovesUnanswered
  <2>3. Status(r)' = "open" /\ Was[r] = "open"
    BY <2>1, <2>2, StatusIs, StatusIsNext DEF Keyed, Was
  <2>4. Was' = Was BY <2>2, <2>3 DEF Was
  <2> QED BY <2>2, <2>4, Abstract
<1> QED BY <1>4, <1>5, <1>6, <1>8, <1>9, <1>10, <1>11, <1>12, <1>13, <1>14 DEF Shape

LEMMA StepSimulates ==
  IInv /\ gen = 0 /\ [Next]_vars => [Promise!Next]_(Promise!vars)
<1> SUFFICES ASSUME IInv, gen = 0, [Next]_vars PROVE Promise!Next \/ UNCHANGED Promise!vars
  OBVIOUS
<1>1. TypeOK BY DEF IInv
<1>2. ASSUME NEW r \in Requests, Arrive(r) \/ Acquire(r) \/ Reply(r) \/ Wake(r) \/ Cancel(r)
      PROVE  Promise!Next \/ UNCHANGED Promise!vars
  <2>1. Shape(r) BY <1>1, <1>2, QueryShape
  <2> QED BY <2>1, ShapeSimulates
<1>3. ASSUME NEW r \in Requests, Complete(r) PROVE Promise!Next
  <2>1. pc[r] = "complete" /\ pc' = [pc EXCEPT ![r] = "done"] /\ resp' = resp
    BY <1>3 DEF Complete
  <2>2. resp'[r] # NoResponse => resp'[r].key = KeyOf[r]
    BY <2>1 DEF IInv, DataInv, RespKeys
  <2>3. \A q \in Requests : q # r => resp'[q] = resp[q] BY <2>1
  <2> QED BY <1>1, <2>1, <2>2, <2>3, ReturnSimulates DEF Final
<1>4. ASSUME UNCHANGED <<pc, resp>> PROVE UNCHANGED Promise!vars
  <2>1. \A r \in Requests : Status(r)' = Status(r) /\ AnsweredKey(r)' = AnsweredKey(r)
    BY <1>4 DEF Status, AnsweredKey
  <2> QED BY <2>1, Abstract DEF Was, Known
<1>5. CASE \E k \in Keys : Expire(k) BY <1>4, <1>5 DEF Expire, reqVars
<1>6. CASE Swap BY <1>4, <1>6 DEF Swap, reqVars
<1>7. CASE StopOldPool BY <1>1, <1>7, FailSimulates DEF StopOldPool, Asking
<1>8. CASE StopPool BY <1>1, <1>8, FailSimulates DEF StopPool, Asking
<1>9. CASE StopListeners \/ DropCache \/ ExitTaskGroup
  BY <1>4, <1>9 DEF StopListeners, DropCache, ExitTaskGroup, reqVars
<1>10. CASE UNCHANGED vars BY <1>4, <1>10 DEF vars
<1> QED BY <1>2, <1>3, <1>5, <1>6, <1>7, <1>8, <1>9, <1>10 DEF Next, Query, Stop

\* Until the first reload replaces the cache object, process_query and the
\* FrontCache methods it calls keep the promise of SingleFlight: queries with one
\* key never fly together and every query returns with a response for its own key
\* or with none, whatever stop() and cancellation do meanwhile.
THEOREM Refines == Spec /\ [](gen = 0) => ImplementsSingleFlight
<1>1. Init => Promise!Init
  <2> SUFFICES ASSUME Init PROVE Promise!Init OBVIOUS
  <2>1. \A r \in Requests : pc[r] = "new" BY DEF Init
  <2>2. \A r \in Requests : Status(r) = "new" /\ AnsweredKey(r) = NoKey
    BY <2>1, StatusIs, KnownIs
  <2> QED BY <2>2 DEF Promise!Init
<1> QED BY <1>1, StepSimulates, InvAlways, PTL DEF Spec, ImplementsSingleFlight, Promise!Spec
=============================================================================
